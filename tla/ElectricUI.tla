----------------------------- MODULE ElectricUI -----------------------------
(* electricui.c: what the library does with a packet its parser accepted, and  *)
(* the calls the application makes.  One call is one step: the library runs    *)
(* in the main loop, and what the application's callbacks do inside it is part *)
(* of the step.  A packet is the Message the decoder hands over (LinkMessages); *)
(* an answer is the Message given to encode_packet with the link whose          *)
(* output_cb it is written to.                                                  *)
EXTENDS LinkMessages, OffsetSlices

CONSTANTS
    Interfaces,     \* the array given to eui_setup_interfaces: a sequence of links
    Mute,           \* links whose output_cb is null
    NoLink,         \* the null interface pointer
    Arrays,         \* arrays of tracked objects the application may register
    Inbound,        \* packets a peer may send
    Updates,        \* <<variable, bytes>>: values the application may store itself
    Functions,      \* the application's callbacks: what they store and what they send
    Reports,        \* objects the interface_cb of the links sends, per callback code
    InitialMemory,  \* the application's variables: their bytes
    Untracked,      \* objects the application sends without tracking them
    Uuids,          \* identifiers given to eui_setup_identifier
    MaxIdentified,  \* bound: calls of eui_setup_identifier
    Garbage,        \* what an eui_errors_t on the stack may hold before it is assigned
    IntBits         \* width of the target's int: 16 on the AVR boards, 32 elsewhere

Links == ToSet(Interfaces)

ASSUME IntBitsAssumption == IntBits \in {16, 32}

ASSUME LinksAssumption ==
    /\ Interfaces \in Seq(Links) /\ Interfaces # << >>
    /\ Mute \subseteq Links /\ NoLink \notin Links

-----------------------------------------------------------------------------
(* Objects *)

\* eui_message_t: the pointer is the name of a variable or of a callback
Obj(id, type, read_only, ptr) ==
    [id |-> id, type |-> type, read_only |-> read_only, ptr |-> ptr]

Null == "NULL"

EUI_INTERNAL_HEARTBEAT == <<104>>
EUI_INTERNAL_LIB_VER   == <<111>>
EUI_INTERNAL_BOARD_ID  == <<105>>
EUI_INTERNAL_AM        == <<116>>
EUI_INTERNAL_AM_LIST   == <<117>>
EUI_INTERNAL_AM_END    == <<118>>
EUI_INTERNAL_AV        == <<119>>

internal_msg_store ==
    << Obj(EUI_INTERNAL_HEARTBEAT, TYPE_UINT8,    FALSE, "heartbeat"),
       Obj(EUI_INTERNAL_LIB_VER,   TYPE_UINT8,    TRUE,  "library_version"),
       Obj(EUI_INTERNAL_BOARD_ID,  TYPE_UINT16,   TRUE,  "board_identifier"),
       Obj(EUI_INTERNAL_AM,        TYPE_CALLBACK, TRUE,  "announce_dev_msg"),
       Obj(EUI_INTERNAL_AV,        TYPE_CALLBACK, TRUE,  "send_tracked_variables") >>

\* the variables of the library and of the application
LibraryMemory == [heartbeat |-> <<0>>, library_version |-> <<8>>, board_identifier |-> <<0, 0>>]
Memory == [v \in DOMAIN InitialMemory \cup DOMAIN LibraryMemory |->
              IF v \in DOMAIN LibraryMemory THEN LibraryMemory[v] ELSE InitialMemory[v]]

Size(obj) == IF obj.type = TYPE_CALLBACK THEN 0 ELSE Len(Memory[obj.ptr])

\* what an object's pointer points at; the code of a callback is never read
Contents(obj, memory) == IF obj.type = TYPE_CALLBACK THEN << >> ELSE memory[obj.ptr]

\* find_message_object: the first object of that name, if any
FindMessageObject(array, id) ==
    LET named == {k \in DOMAIN array : array[k].id = id}
    IN  IF named = {} THEN << >>
        ELSE <<array[CHOOSE k \in named : \A j \in named : k <= j]>>

\* a two byte address of a range request; data_in is zero past what was received
Address(data, n) ==
    LET byte(k) == IF k \in DOMAIN data THEN data[k] ELSE 0
    IN  byte(n) + 256 * byte(n + 1)

\* Peers of the same configuration: a slice carries bytes, and a range that is asked
\* for lies in the variable.
ASSUME InboundAssumption ==
    \A m \in Inbound :
        /\ Sendable(m)
        /\ m.offset = 1 => m.data # << >>
        /\ m.type = TYPE_OFFSET_METADATA =>
              \A array \in Arrays \cup {internal_msg_store} :
                  LET found == FindMessageObject(array, m.id)
                  IN  found = << >> \/ Address(m.data, 3) <= Size(found[1])

\* eui_message_t: an id of at most 15 characters, none of them the terminator, a type of a
\* variable, a variable or a function there is
Callbacks == DOMAIN Functions \cup {Null, "announce_dev_msg", "send_tracked_variables"}
Objects == [id : Seq(Byte), type : Bits4, read_only : BOOLEAN, ptr : DOMAIN Memory \cup Callbacks]
Known(obj) ==
    /\ obj \in Objects /\ obj.type # TYPE_OFFSET_METADATA
    /\ Len(obj.id) \in 1..15 /\ \A n \in DOMAIN obj.id : obj.id[n] # 0
    /\ obj.ptr \in IF obj.type = TYPE_CALLBACK THEN DOMAIN Functions \cup {Null} ELSE DOMAIN Memory

\* a value of the variable
Fits(v, bytes) == v \in DOMAIN Memory /\ bytes \in Seq(Byte) /\ Len(bytes) = Len(Memory[v])

\* The C types of what the application hands over: variables of at most 65535 bytes that
\* keep their size, callbacks that store such values, lists of objects, arrays of as many
\* as an eui_variable_count_t counts (of the largest the search may not end: FindObject).
ASSUME MemoryAssumption ==
    /\ DOMAIN InitialMemory \cap (DOMAIN LibraryMemory \cup {Null}) = {}
    /\ \A v \in DOMAIN Memory : Fits(v, Memory[v]) /\ Len(Memory[v]) \in Word
    /\ \A update \in Updates : Fits(update[1], update[2])

ASSUME FunctionsAssumption ==
    /\ DOMAIN Functions \cap {"announce_dev_msg", "send_tracked_variables", Null} = {}
    /\ \A f \in DOMAIN Functions :
          /\ \A v \in DOMAIN Functions[f].stores : Fits(v, Functions[f].stores[v])
          /\ Functions[f].sends \in Seq(Seq(Byte))

KnownAll(objects) == objects \in Seq(Objects) /\ \A k \in DOMAIN objects : Known(objects[k])

ASSUME ObjectsAssumption ==
    /\ \A array \in Arrays : KnownAll(array) /\ Len(array) <= 255
    /\ \A code \in {"EUI_CB_TRACKED", "EUI_CB_UNTRACKED", "EUI_CB_PARSE_FAIL"} : KnownAll(Reports[code])
    /\ \A obj \in Untracked : Known(obj)

ASSUME IdentifierAssumption == (\A uuid \in Uuids : uuid \in Seq(Byte)) /\ MaxIdentified \in Nat

-----------------------------------------------------------------------------
(* Output *)

PACKET_BASE_SIZE == 8       \* a 4 byte eui_header_t, the offset and the checksum

EUI_OUTPUT_OK    == 0
EUI_OUTPUT_ERROR == 1

\* a slip in the next definition: encode_packet does not test its output callback
EncodeUntested(link, ptr, message) ==
    IF ptr = Null THEN << >>
    ELSE << [link |-> link,
             message |-> [message EXCEPT !.id = SubSeq(@, 1, Len(@) % 16)]] >>

\* the packets encode_packet writes on a link: none without an output callback or
\* a payload pointer; the id is cut to its 4 bit length
Encode(link, ptr, message) ==
    IF link \in Mute \cup {NoLink} \/ ptr = Null THEN << >>
    ELSE << [link |-> link,
             message |-> [message EXCEPT !.id = SubSeq(@, 1, Len(@) % 16)]] >>

Simple(internal, type, id, data) ==
    [ internal |-> internal, response |-> 0, acknum |-> 0, type |-> type,
      offset |-> 0, offset_in |-> 0, id |-> id, data |-> data ]

\* eui_send_range: the announced range, then the slices
EuiSendRange(link, obj, internal, base, end, memory) ==
    LET range  == ValidateOffsetRange(base, end, obj.type, Size(obj))
        slices == Slices(base, end)
    IN  Encode(link, "data_range",
               Simple(internal, TYPE_OFFSET_METADATA, obj.id,
                      LittleEndian(range.start) \o LittleEndian(range.end)))
        \o FlattenSeq([k \in DOMAIN slices |->
               Encode(link, obj.ptr,
                      [Simple(internal, obj.type, obj.id,
                              SubSeq(Contents(obj, memory), slices[k].start + 1, slices[k].end))
                       EXCEPT !.offset = 1, !.offset_in = slices[k].start])])

\* eui_send: one packet, or several when the variable is larger than a payload
EuiSend(link, obj, internal, memory) ==
    IF Size(obj) <= PAYLOAD_SIZE_MAX
    THEN Encode(link, obj.ptr, Simple(internal, obj.type, obj.id, Contents(obj, memory)))
    ELSE EuiSendRange(link, obj, internal, 0, Size(obj), memory)

\* slips in the next definition: the last list is not sent, the terminator of the next
\* id is not counted
ListFullOnly(array, i, buffer) ==
    i < Len(array) /\ EUI_MAX_MSGID_SIZE * 4 - Len(array[i + 1].id) - 1 < Len(buffer)
ListFullLate(array, i, buffer) ==
    i = Len(array) \/ EUI_MAX_MSGID_SIZE * 4 - Len(array[i + 1].id) < Len(buffer)

\* a list is sent when the next id would not fit in msgBuffer or there is none
ListFull(array, i, buffer) ==
    i = Len(array) \/ EUI_MAX_MSGID_SIZE * 4 - Len(array[i + 1].id) - 1 < Len(buffer)

\* send_tracked_message_id_list: the lists after the first i ids, packed with their
\* terminators, and what msgBuffer holds then
IdLists(array) ==
    LET packed[i \in 0 .. Len(array)] ==
            IF i = 0 THEN [lists |-> << >>, buffer |-> << >>]
            ELSE LET before == packed[i - 1]
                     buffer == before.buffer \o Append(array[i].id, 0)
                 IN  IF ListFull(array, i, buffer)
                     THEN [lists |-> Append(before.lists, buffer), buffer |-> << >>]
                     ELSE [lists |-> before.lists, buffer |-> buffer]
    IN  packed[Len(array)].lists

\* announce_dev_msg: the lists, then the number of variables (a uint8_t)
AnnounceDevMsg(link, array) ==
    LET lists == IdLists(array)
    IN  FlattenSeq([k \in DOMAIN lists |->
            Encode(link, "msgBuffer", Simple(1, TYPE_CUSTOM, EUI_INTERNAL_AM_LIST, lists[k]))])
        \o Encode(link, "num_writable",
                  Simple(1, TYPE_UINT8, EUI_INTERNAL_AM_END, <<Len(array) % 256>>))

\* a slip in the next definition: the last variable is left out
SendTrackedVariablesButLast(link, array, memory) ==
    FlattenSeq([k \in 1 .. Len(array) - 1 |-> EuiSend(link, array[k], 0, memory)])

SendTrackedVariables(link, array, memory) ==
    FlattenSeq([k \in DOMAIN array |-> EuiSend(link, array[k], 0, memory)])

-----------------------------------------------------------------------------
(* One accepted packet *)

EUI_ACTION_OK                  == 0
EUI_ACTION_CALLBACK_ERROR      == 1
EUI_ACTION_WRITE_ERROR         == 2
EUI_ACTION_TYPE_MISMATCH_ERROR == 3

\* what a handler did: its status, the packets it wrote, the callbacks it called,
\* and the memory it left
Effect(status, output, called, memory) ==
    [status |-> status, output |-> output, called |-> called, memory |-> memory]

\* an application's callback stores values, then sends tracked variables by name
RunFunction(link, ptr, array, memory) ==
    LET code   == Functions[ptr]
        after  == [v \in DOMAIN memory |->
                      IF v \in DOMAIN code.stores THEN code.stores[v] ELSE memory[v]]
        named  == [k \in DOMAIN code.sends |-> FindMessageObject(array, code.sends[k])]
    IN  Effect(EUI_ACTION_OK,
               FlattenSeq([k \in DOMAIN named |->
                   IF named[k] = << >> THEN << >> ELSE EuiSend(link, named[k][1], 0, after)]),
               <<ptr>>, after)

\* the library's own callbacks, and the application's, send on auto_output
RunCallback(link, ptr, array, memory) ==
    CASE ptr = "announce_dev_msg" ->
            Effect(EUI_ACTION_OK, AnnounceDevMsg(link, array), <<ptr>>, memory)
      [] ptr = "send_tracked_variables" ->
            Effect(EUI_ACTION_OK, SendTrackedVariables(link, array, memory), <<ptr>>, memory)
      [] OTHER -> RunFunction(link, ptr, array, memory)

\* what interface_cb sends, with eui_send_untracked
Report(link, code, memory) ==
    FlattenSeq([k \in DOMAIN Reports[code] |-> EuiSend(link, Reports[code][k], 0, memory)])

\* memcpy of the payload to the addressed bytes, as far as they are the variable's
Store(bytes, offset, data) ==
    [n \in DOMAIN bytes |-> IF n - offset \in DOMAIN data THEN data[n - offset] ELSE bytes[n]]

\* The sum of two values of type uint16_t: an int that holds it, or where int has 16
\* bits an unsigned one that does not.
Sum(x, y) == IF IntBits = 16 THEN (x + y) % 65536 ELSE x + y

\* slips in the next definition: a read-only variable is written, the bounds are not
\* checked
MayWriteConstant(m, obj) == Sum(m.offset_in, Len(m.data)) <= Size(obj)
MayWriteAnywhere(m, obj) == ~obj.read_only

\* the payload may be stored in the variable
MayWrite(m, obj) == ~obj.read_only /\ Sum(m.offset_in, Len(m.data)) <= Size(obj)

\* the positions behind the variable that memcpy stores bytes of the payload at: other
\* memory, which the model names but does not follow
Behind(m, obj) ==
    IF m.type = obj.type /\ m.type # TYPE_CALLBACK /\ MayWrite(m, obj)
    THEN {n \in m.offset_in + 1 .. m.offset_in + Len(m.data) : n > Size(obj)}
    ELSE {}

\* handle_packet_action; auto is the interface auto_interface selects, counted says that
\* parser.data_bytes_in is not 0: of a packet without payload it is what a broken frame
\* before it left behind
HandlePacketAction(auto, m, counted, obj, array, memory) ==
    CASE obj.type # m.type ->
            Effect(IF m.type = TYPE_OFFSET_METADATA THEN EUI_ACTION_OK
                   ELSE EUI_ACTION_TYPE_MISMATCH_ERROR, << >>, << >>, memory)
      [] obj.type = m.type /\ obj.type = TYPE_CALLBACK ->
            IF (m.response = 1) = (m.acknum # 0)
            THEN IF obj.ptr = Null
                 THEN Effect(EUI_ACTION_CALLBACK_ERROR, << >>, << >>, memory)
                 ELSE RunCallback(auto, obj.ptr, array, memory)
            ELSE Effect(EUI_ACTION_OK, << >>, << >>, memory)
      [] obj.type = m.type /\ obj.type # TYPE_CALLBACK /\ counted ->
            IF MayWrite(m, obj)
            THEN Effect(EUI_ACTION_OK, << >>, << >>,
                        [memory EXCEPT ![obj.ptr] = Store(@, m.offset_in, m.data)])
            ELSE Effect(EUI_ACTION_WRITE_ERROR, << >>, << >>, memory)
      [] OTHER -> Effect(EUI_ACTION_OK, << >>, << >>, memory)

\* handle_packet_ack: the packet that answers a request for an acknowledgement
HandlePacketAck(link, m, obj) ==
    IF m.acknum # 0 /\ m.response = 1
    THEN Encode(link, obj.ptr,
                [Simple(m.internal, obj.type, obj.id, << >>)
                 EXCEPT !.acknum = m.acknum, !.offset = m.offset, !.offset_in = m.offset_in])
    ELSE << >>

\* handle_packet_query: the variable, or the range of it a metadata request names
HandlePacketQuery(link, m, obj, memory) ==
    CASE ~(m.response = 1 /\ m.acknum = 0) -> << >>
      [] m.response = 1 /\ m.acknum = 0 /\ m.type # TYPE_OFFSET_METADATA ->
            EuiSend(link, obj, m.internal, memory)
      [] OTHER ->
            EuiSendRange(link, obj, m.internal, Address(m.data, 1), Address(m.data, 3), memory)

-----------------------------------------------------------------------------
(* State *)

VARIABLES
    memory,         \* contents of every variable
    dev_tracked,    \* p_dev_tracked and dev_tracked_num
    registered,     \* p_interface_arr and interface_num are set
    interface_last, \* p_interface_last
    identified,     \* calls of eui_setup_identifier so far
    call            \* the last call and what it did

vars == <<memory, dev_tracked, registered, interface_last, identified, call>>

\* the bits of eui_errors_t besides the parser's
ErrorBits == [action : 0..3, ack : 0..1, query : 0..3]

ASSUME GarbageAssumption == Garbage \subseteq ErrorBits

Call(op, link, message, output) ==
    [ op |-> op, link |-> link, message |-> message, output |-> output,
      called |-> << >>, notified |-> << >>, status |-> << >>, behind |-> {} ]

\* a slip in the next definition: the packet in hand does not count yet
AutoInterfaceBefore(last) == IF registered THEN interface_last ELSE NoLink

\* auto_output's interface, once p_interface_last is the given one
AutoInterface(last) == IF registered THEN last ELSE NoLink

Init ==
    /\ memory = Memory
    /\ dev_tracked = << >>
    /\ registered = FALSE
    /\ interface_last = NoLink
    /\ identified = 0
    /\ call = Call("none", NoLink, << >>, << >>)

\* the array find_message_object searches
Namespace(internal) == IF internal = 1 THEN internal_msg_store ELSE dev_tracked

\* slips in the next definitions: a packet that could not be written counts as sent; an
\* acknowledgement does not wait for the action
CannotSendNever(link, obj) == FALSE
AcknowledgesAnyway(action) == TRUE

CannotSend(link, obj) == link \in Mute \/ obj.ptr = Null

\* the action completed, so that a request for an acknowledgement is answered
Acknowledges(action) == action.status = EUI_ACTION_OK

\* the status of handle_packet_query; the range of an empty request needs no payload
QueryStatus(link, m, obj) ==
    CASE ~(m.response = 1 /\ m.acknum = 0) -> 0
      [] m.response = 1 /\ m.acknum = 0 /\ m.type # TYPE_OFFSET_METADATA ->
            IF CannotSend(link, obj) THEN EUI_OUTPUT_ERROR ELSE EUI_OUTPUT_OK
      [] OTHER ->
            IF CannotSend(link, IF Address(m.data, 1) < Address(m.data, 3) THEN obj
                                ELSE [obj EXCEPT !.ptr = "data_range"])
            THEN 2 * EUI_OUTPUT_ERROR ELSE EUI_OUTPUT_OK

\* eui_parse when the byte completes the packet m on the link
EuiParseOk(link, m, counted) ==
    LET found  == FindMessageObject(Namespace(m.internal), m.id)
        obj    == found[1]
        auto   == AutoInterface(link)
        action == HandlePacketAction(auto, m, counted, obj, dev_tracked, memory)
        ack    == IF Acknowledges(action) THEN HandlePacketAck(link, m, obj) ELSE << >>
        query  == HandlePacketQuery(link, m, obj, action.memory)
        stale(bits) ==      \* ack is assigned only after a successful action
            [ action |-> action.status,
              ack    |-> IF ~Acknowledges(action) THEN bits.ack
                         ELSE IF m.acknum # 0 /\ m.response = 1 /\ CannotSend(link, obj)
                         THEN EUI_OUTPUT_ERROR ELSE EUI_OUTPUT_OK,
              query  |-> QueryStatus(link, m, obj) ]
    IN  /\ interface_last' = link
        /\ \/ /\ found # << >>
              /\ memory' = action.memory
              /\ \E bits \in Garbage :
                    call' = [Call("eui_parse", link, <<m>>,
                                  action.output \o ack \o query
                                  \o Report(auto, "EUI_CB_TRACKED", action.memory))
                             EXCEPT !.called = action.called,
                                    !.notified = <<"EUI_CB_TRACKED">>,
                                    !.status = <<stale(bits)>>,
                                    !.behind = Behind(m, obj)]
           \/ /\ found = << >>
              /\ \E bits \in Garbage :
                    call' = [Call("eui_parse", link, <<m>>,
                                  Report(auto, "EUI_CB_UNTRACKED", memory))
                             EXCEPT !.notified = <<"EUI_CB_UNTRACKED">>, !.status = <<bits>>]
              /\ UNCHANGED memory
        /\ UNCHANGED <<dev_tracked, registered, identified>>

\* a slip in the next definition: the link of a broken packet becomes the default
EuiParseErrorAdopts(link) ==
    /\ \E bits \in Garbage :
          call' = [Call("eui_parse", link, << >>,
                        Report(AutoInterface(interface_last), "EUI_CB_PARSE_FAIL", memory))
                   EXCEPT !.notified = <<"EUI_CB_PARSE_FAIL">>, !.status = <<bits>>]
    /\ interface_last' = link
    /\ UNCHANGED <<memory, dev_tracked, registered, identified>>

\* eui_parse when the byte ends a packet that does not check: what interface_cb sends
\* goes to the link of the last packet that did
EuiParseError(link) ==
    /\ \E bits \in Garbage :
          call' = [Call("eui_parse", link, << >>,
                        Report(AutoInterface(interface_last), "EUI_CB_PARSE_FAIL", memory))
                   EXCEPT !.notified = <<"EUI_CB_PARSE_FAIL">>, !.status = <<bits>>]
    /\ UNCHANGED <<memory, dev_tracked, registered, interface_last, identified>>

\* the application's calls that send: on a link of its own choice or on auto_output
Send(op, link, found) ==
    /\ call' = Call(op, link, << >>,
                    IF found = << >> THEN << >> ELSE EuiSend(link, found[1], 0, memory))
    /\ UNCHANGED <<memory, dev_tracked, registered, interface_last, identified>>

EuiSendTracked(id) ==
    Send("eui_send_tracked", AutoInterface(interface_last), FindMessageObject(dev_tracked, id))

EuiSendTrackedOn(id, link) ==
    Send("eui_send_tracked_on", link, FindMessageObject(dev_tracked, id))

EuiSendUntracked(obj) == Send("eui_send_untracked", AutoInterface(interface_last), <<obj>>)

EuiSendUntrackedOn(obj, link) == Send("eui_send_untracked_on", link, <<obj>>)

EuiSetupInterfaces ==
    /\ registered' = TRUE
    /\ interface_last' = Head(Interfaces)
    /\ call' = Call("eui_setup_interfaces", NoLink, << >>, << >>)
    /\ UNCHANGED <<memory, dev_tracked, identified>>

\* eui_setup_interfaces( 0, 0 )
EuiClearInterfaces ==
    /\ registered' = FALSE
    /\ interface_last' = NoLink
    /\ call' = Call("eui_setup_interfaces", NoLink, << >>, << >>)
    /\ UNCHANGED <<memory, dev_tracked, identified>>

EuiSetupTracked(array) ==
    /\ dev_tracked' = array
    /\ call' = Call("eui_setup_tracked", NoLink, << >>, << >>)
    /\ UNCHANGED <<memory, registered, interface_last, identified>>

\* the checksum runs on from the identifier there was; no uuid clears it
EuiSetupIdentifier(uuid) ==
    LET crc[n \in 0 .. Len(uuid)] ==
            IF n = 0 THEN Address(memory["board_identifier"], 1) ELSE Crc16(uuid[n], crc[n - 1])
    IN  /\ identified < MaxIdentified
        /\ identified' = identified + 1
        /\ memory' = [memory EXCEPT !["board_identifier"] =
                         IF uuid = << >> THEN <<0, 0>> ELSE LittleEndian(crc[Len(uuid)])]
        /\ call' = Call("eui_setup_identifier", NoLink, << >>, << >>)
        /\ UNCHANGED <<dev_tracked, registered, interface_last>>

\* the application stores a value in one of its variables
AppStore(variable, bytes) ==
    /\ memory' = [memory EXCEPT ![variable] = bytes]
    /\ call' = Call("none", NoLink, << >>, << >>)
    /\ UNCHANGED <<dev_tracked, registered, interface_last, identified>>

\* the ids the application sends: those a peer knows of it
Ids == {m.id : m \in {n \in Inbound : n.internal = 0}}

\* what parser.data_bytes_in # 0 may be: true of a payload, either of none
Counts(m) == {TRUE, m.data # << >>}

Inputs ==
    \E link \in Links :
        \/ \E m \in Inbound : \E counted \in Counts(m) : EuiParseOk(link, m, counted)
        \/ EuiParseError(link)

Application ==
    \/ \E id \in Ids : EuiSendTracked(id) \/ \E link \in Links : EuiSendTrackedOn(id, link)
    \/ \E obj \in Untracked :
          EuiSendUntracked(obj) \/ \E link \in Links : EuiSendUntrackedOn(obj, link)
    \/ \E update \in Updates : AppStore(update[1], update[2])

Setup ==
    \/ EuiSetupInterfaces \/ EuiClearInterfaces
    \/ \E array \in Arrays \cup {<< >>} : EuiSetupTracked(array)
    \/ \E uuid \in Uuids : EuiSetupIdentifier(uuid)

Next == Inputs \/ Application \/ Setup

Spec == Init /\ [][Next]_vars

-----------------------------------------------------------------------------
(* Properties *)

TypeOK ==
    /\ \A v \in DOMAIN Memory : memory[v] \in Seq(Byte) /\ Len(memory[v]) = Len(Memory[v])
    /\ dev_tracked \in Arrays \cup {<< >>}
    /\ registered \in BOOLEAN
    /\ interface_last \in Links \cup {NoLink}
    /\ identified \in 0..MaxIdentified
    /\ \A k \in DOMAIN call.output :
          call.output[k].link \in Links /\ call.output[k].message \in Message
    /\ call.status \in {<< >>} \cup {<<bits>> : bits \in ErrorBits}

\* the object an accepted packet of the last call names, if any
Target == IF call.message = << >> THEN << >>
          ELSE FindMessageObject(Namespace(call.message[1].internal), call.message[1].id)

\* the packets the last call wrote
Answers == [k \in DOMAIN call.output |-> call.output[k].message]

\* Whatever is sent while a packet is handled, by the library, by the callbacks it runs
\* through auto_output or by interface_cb, goes out on the link the packet came in on.
AnswersOnRequestLink ==
    call.op = "eui_parse" /\ call.message # << >> =>
        \A k \in DOMAIN call.output : call.output[k].link = call.link

\* A peer that reads an acknowledgement may rely on what it asked for: the payload is in
\* the variable, at the packet's offset; the callback has run, its stores show and the
\* packets it sent are ahead of the acknowledgement.
AckedMeansDone ==
    \A k \in DOMAIN Answers :
        Answers[k].acknum # 0 =>
            LET m   == call.message[1]
                obj == Target[1]
            IN  /\ m.type = obj.type /\ m.type # TYPE_CALLBACK =>
                      \A n \in DOMAIN m.data :
                          /\ m.offset_in + n \in DOMAIN memory[obj.ptr]
                          /\ memory[obj.ptr][m.offset_in + n] = m.data[n]
                /\ m.type = TYPE_CALLBACK /\ obj.ptr \in DOMAIN Functions =>
                      /\ call.called = <<obj.ptr>>
                      /\ \A v \in DOMAIN Functions[obj.ptr].stores :
                             memory[v] = Functions[obj.ptr].stores[v]
                      /\ \A id \in ToSet(Functions[obj.ptr].sends) :
                             /\ FindMessageObject(dev_tracked, id) # << >> /\ registered
                             /\ FindMessageObject(dev_tracked, id)[1].ptr # Null
                             => \E j \in 1 .. k - 1 : Answers[j].id = id

\* A request that is reported to have failed has had no effect: no variable changed, no
\* callback ran, and the peer got no acknowledgement.
FailureChangesNothing ==
    [][ call'.notified = <<"EUI_CB_TRACKED">> /\ call'.status[1].action # EUI_ACTION_OK =>
            /\ memory' = memory /\ call'.called = << >>
            /\ \A k \in DOMAIN call'.output : call'.output[k].message.acknum = 0 ]_vars

\* no other object that is sent while a packet is handled goes by the same name
Unshared(internal, obj) ==
    internal = 1 \/ \A other \in ToSet(dev_tracked) \cup ToSet(Reports["EUI_CB_TRACKED"]) :
                        other.id = obj.id => other = obj

\* a peer's copy of a variable after a packet: a whole value replaces it, a slice
\* overwrites the addressed bytes
Patched(copy, internal, id, m) ==
    IF m.internal # internal \/ m.id # id \/ m.type = TYPE_OFFSET_METADATA \/ m.response = 1
    THEN copy
    ELSE IF m.offset = 0 THEN m.data ELSE Store(copy, m.offset_in, m.data)

\* the copy after all that was sent
Rebuilt(copy, internal, id, output) ==
    LET after[k \in 0 .. Len(output)] ==
            IF k = 0 THEN copy ELSE Patched(after[k - 1], internal, id, output[k].message)
    IN  after[Len(output)]

\* The status of a handled packet is true of what went out, as far as it is assigned: an
\* acknowledgement or an answer that it reports was sent, and one it reports lost was not.
StatusIsTrue ==
    call.notified = <<"EUI_CB_TRACKED">> =>
        LET m      == call.message[1]
            status == call.status[1]
            Acks   == {k \in DOMAIN Answers : Answers[k].acknum # 0}
            Shown  == {k \in DOMAIN Answers : /\ Answers[k].internal = m.internal
                                              /\ Answers[k].id = Target[1].id
                                              /\ Answers[k].acknum = 0}
        IN  /\ m.response = 1 /\ m.acknum # 0 /\ status.action = EUI_ACTION_OK =>
                  (status.ack = EUI_OUTPUT_OK) = (Acks # {})
            /\ m.response = 1 /\ m.acknum = 0 /\ m.type # TYPE_OFFSET_METADATA
               /\ Unshared(m.internal, Target[1]) =>
                  (status.query = EUI_OUTPUT_OK) = (Shown # {})

\* Nothing a peer sends changes a byte of any variable other than those its packet
\* addresses in a writable variable of its own name, namespace and type, but for what
\* the callback it calls stores; and nothing is stored behind a variable.
OnlyAddressedBytes ==
    [][ call'.op = "eui_parse" =>
            /\ call'.behind = {}
            /\ \A v \in DOMAIN memory : \A n \in DOMAIN memory[v] :
                memory'[v][n] # memory[v][n] =>
                    \/ /\ Target' # << >> /\ Target'[1].ptr = v /\ ~Target'[1].read_only
                       /\ LET m == call'.message[1]
                          IN  m.type = Target'[1].type
                              /\ n \in m.offset_in + 1 .. m.offset_in + Len(m.data)
                    \/ \E k \in DOMAIN call'.called : v \in DOMAIN Functions[call'.called[k]].stores
      ]_vars

\* The sum that handle_packet_action holds against a variable's size is the one of the
\* address and the length.  Where int has 16 bits it is not for every packet that a peer
\* can send; the theorems about what is stored take it as their premise.
SumsHold == \A m \in Inbound : Sum(m.offset_in, Len(m.data)) = m.offset_in + Len(m.data)

\* A peer that queried a variable holds its current value afterwards, the write of
\* the same packet included, however many packets the value takes.
QueryIsCurrent ==
    /\ Target # << >> /\ Target[1].ptr # Null /\ Target[1].type # TYPE_CALLBACK
    /\ call.link \notin Mute /\ Unshared(call.message[1].internal, Target[1])
    /\ call.message[1].response = 1 /\ call.message[1].acknum = 0
    /\ call.message[1].type # TYPE_OFFSET_METADATA
    => LET value == memory[Target[1].ptr]
       IN  Rebuilt([n \in DOMAIN value |-> 256], call.message[1].internal, Target[1].id, call.output)
               = value

\* the two kinds of packets of the handshake's first answer
IsList(m)  == m.internal = 1 /\ m.id = EUI_INTERNAL_AM_LIST
IsCount(m) == m.internal = 1 /\ m.id = EUI_INTERNAL_AM_END

\* The handshake tells a peer everything: the lists hold every tracked id once, in
\* order, zero terminated, and a single count, after all of them, is their number.
HandshakeListsAll ==
    "announce_dev_msg" \in ToSet(call.called) /\ registered /\ call.link \notin Mute =>
        LET lists  == {k \in DOMAIN Answers : IsList(Answers[k])}
            counts == {k \in DOMAIN Answers : IsCount(Answers[k])}
        IN  /\ FlattenSeq([k \in DOMAIN Answers |-> IF k \in lists THEN Answers[k].data ELSE << >>])
                   = FlattenSeq([k \in DOMAIN dev_tracked |-> Append(dev_tracked[k].id, 0)])
            /\ \E n \in counts : /\ counts = {n} /\ \A k \in lists : k < n
                                 /\ Answers[n].data = <<Len(dev_tracked)>>

\* the zero at n ends the first id of a list
Ends(data, n) == n \in DOMAIN data /\ data[n] = 0 /\ \A k \in 1 .. n - 1 : data[k] # 0

\* what encode_packet builds of a message: the offset of the frame, header, id, address,
\* payload and checksum, and the zero
FramedLen(m) == 2 + 3 + Len(m.id) + 2 * m.offset + Len(m.data) + 2 + 1

\* Every list of the handshake fits in msgBuffer and could not have taken the first id of
\* the next one as well, and every packet fits, framed, in the buffer encode_packet builds
\* it in.
FitsBuffers ==
    /\ \A k \in DOMAIN Answers : IsList(Answers[k]) =>
          /\ Len(Answers[k].data) <= EUI_MAX_MSGID_SIZE * 4
          /\ k + 1 \in DOMAIN Answers /\ IsList(Answers[k + 1]) =>
                \E n \in DOMAIN Answers[k + 1].data :
                    /\ Ends(Answers[k + 1].data, n)
                    /\ Len(Answers[k].data) + n > EUI_MAX_MSGID_SIZE * 4
    /\ \A k \in DOMAIN Answers :
          FramedLen(Answers[k]) <= 1 + PACKET_BASE_SIZE + EUI_MAX_MSGID_SIZE + PAYLOAD_SIZE_MAX + 4

\* After the handshake's second request a peer holds the current value of every
\* tracked variable under its id, if nothing else goes by that id.
HandshakeSendsValues ==
    "send_tracked_variables" \in ToSet(call.called) /\ registered /\ call.link \notin Mute =>
        \A k \in DOMAIN dev_tracked :
            LET obj   == dev_tracked[k]
                value == Contents(obj, memory)
            IN  obj.type # TYPE_CALLBACK /\ Unshared(0, obj) =>
                    Rebuilt([n \in DOMAIN value |-> 256], 0, obj.id, call.output) = value
=============================================================================
