-------------------------- MODULE ElectricUIProofs --------------------------
(* For every device (links, objects, variables, callbacks of the application)  *)
(* and every sequence of packets and calls: what a peer sends changes only the  *)
(* bytes it addresses, and what it is sent is on its link, true of what was     *)
(* done, and enough to know the values it asked for.                            *)
EXTENDS ElectricUI, TransportProofs

\* Variables are sequences of bytes; for the proof it is enough that what indexes them
\* are integers.
Indexed(mem) == \A v \in DOMAIN mem : DOMAIN mem[v] \subseteq Int

MemoryInv == Indexed(memory) /\ dev_tracked \in Arrays \cup {<< >>}

\* the bytes of v that a packet for an object addresses
Addressed(m, obj, v) ==
    {n \in m.offset_in + 1 .. m.offset_in + Len(m.data) :
        obj.ptr = v /\ ~obj.read_only /\ m.type = obj.type}

-----------------------------------------------------------------------------
(* find_message_object *)

\* an object that is found is one of the array, of that name
LEMMA FoundIsListed ==
    ASSUME NEW array, NEW id, DOMAIN array \subseteq Nat, FindMessageObject(array, id) # << >>
    PROVE  \E k \in DOMAIN array :
               array[k].id = id /\ FindMessageObject(array, id)[1] = array[k]
<1> DEFINE named == {k \in DOMAIN array : array[k].id = id}
           first == CHOOSE k \in named : \A j \in named : k <= j
<1>1. named # {} /\ FindMessageObject(array, id) = <<array[first]>>
      BY Zenon DEF FindMessageObject
<1>2. \E k \in named : \A j \in named : k <= j
      BY <1>1, Least
<1>3. first \in named
      <2> HIDE DEF named
      <2> QED BY <1>2, Zenon
<1>4. first \in DOMAIN array /\ array[first].id = id
      BY <1>3
<1> HIDE DEF first
<1> QED BY <1>1, <1>4

-----------------------------------------------------------------------------
(* Objects and the memory they point into *)

\* every variable holds bytes, as many as at the start
Typed(mem) == DOMAIN mem = DOMAIN Memory /\ \A v \in DOMAIN Memory : Fits(v, mem[v])

\* The variables of the library.
LEMMA LibraryVariables ==
    /\ {"heartbeat", "library_version", "board_identifier"} \subseteq DOMAIN Memory
    /\ Memory["board_identifier"] = <<0, 0>>
BY DEF Memory, LibraryMemory

\* The null pointer is no variable.
LEMMA NullIsNone == Null \notin DOMAIN Memory
BY MemoryAssumption DEF Memory, LibraryMemory, Null

LEMMA MemoryTyped == Typed(Memory)
BY MemoryAssumption DEF Typed

\* The library's own objects are such as the application's.
LEMMA InternalKnown ==
    /\ internal_msg_store \in Seq(Objects) /\ DOMAIN internal_msg_store = 1 .. 5
    /\ \A k \in DOMAIN internal_msg_store :
          /\ internal_msg_store[k] \in Objects /\ Len(internal_msg_store[k].id) \in 1..15
          /\ internal_msg_store[k].ptr # Null /\ internal_msg_store[k].type # TYPE_OFFSET_METADATA
          /\ IF internal_msg_store[k].type = TYPE_CALLBACK
             THEN internal_msg_store[k].ptr \in {"announce_dev_msg", "send_tracked_variables"}
             ELSE internal_msg_store[k].ptr \in DOMAIN Memory
<1> DEFINE Fine(obj) ==
              /\ obj \in Objects /\ Len(obj.id) \in 1..15 /\ obj.ptr # Null
              /\ obj.type # TYPE_OFFSET_METADATA
              /\ IF obj.type = TYPE_CALLBACK
                 THEN obj.ptr \in {"announce_dev_msg", "send_tracked_variables"}
                 ELSE obj.ptr \in DOMAIN Memory
           heartbeat   == Obj(EUI_INTERNAL_HEARTBEAT, TYPE_UINT8, FALSE, "heartbeat")
           lib_ver     == Obj(EUI_INTERNAL_LIB_VER, TYPE_UINT8, TRUE, "library_version")
           board_id    == Obj(EUI_INTERNAL_BOARD_ID, TYPE_UINT16, TRUE, "board_identifier")
           announce    == Obj(EUI_INTERNAL_AM, TYPE_CALLBACK, TRUE, "announce_dev_msg")
           send_values == Obj(EUI_INTERNAL_AV, TYPE_CALLBACK, TRUE, "send_tracked_variables")
<1>1. \A n \in Byte : <<n>> \in Seq(Byte) /\ Len(<<n>>) \in 1..15
      OBVIOUS
<1>2. 104 \in Byte /\ 111 \in Byte /\ 105 \in Byte /\ 116 \in Byte /\ 119 \in Byte
      BY ByteDef
<1>3. /\ TYPE_CALLBACK \in Bits4 /\ TYPE_UINT8 \in Bits4 /\ TYPE_UINT16 \in Bits4
      /\ TYPE_UINT8 # TYPE_CALLBACK /\ TYPE_UINT16 # TYPE_CALLBACK
      /\ TYPE_OFFSET_METADATA \notin {TYPE_UINT8, TYPE_UINT16, TYPE_CALLBACK}
      BY BitsDef DEF TYPE_CALLBACK, TYPE_UINT8, TYPE_UINT16, TYPE_OFFSET_METADATA
<1>4. ASSUME NEW n \in Byte, NEW type \in Bits4, type # TYPE_OFFSET_METADATA, NEW read_only \in BOOLEAN, NEW ptr, ptr # Null,
             IF type = TYPE_CALLBACK THEN ptr \in {"announce_dev_msg", "send_tracked_variables"}
             ELSE ptr \in DOMAIN Memory
      PROVE  Fine(Obj(<<n>>, type, read_only, ptr))
      BY <1>1, <1>4 DEF Obj, Objects, Callbacks
<1>5. Null \notin {"heartbeat", "library_version", "board_identifier", "announce_dev_msg", "send_tracked_variables"}
      BY DEF Null
<1> HIDE DEF Fine
<1>6. Fine(heartbeat)
      BY <1>2, <1>3, <1>4, <1>5, LibraryVariables
      DEF EUI_INTERNAL_HEARTBEAT
<1>7. Fine(lib_ver)
      BY <1>2, <1>3, <1>4, <1>5, LibraryVariables
      DEF EUI_INTERNAL_LIB_VER
<1>8. Fine(board_id)
      BY <1>2, <1>3, <1>4, <1>5, LibraryVariables
      DEF EUI_INTERNAL_BOARD_ID
<1>9. Fine(announce)
      BY <1>2, <1>3, <1>4, <1>5 DEF EUI_INTERNAL_AM
<1>10. Fine(send_values)
      BY <1>2, <1>3, <1>4, <1>5 DEF EUI_INTERNAL_AV
<1>11. internal_msg_store = <<heartbeat, lib_ver, board_id, announce, send_values>>
      BY DEF internal_msg_store
<1> HIDE DEF heartbeat, lib_ver, board_id, announce, send_values
<1>12. \A obj : Fine(obj) => obj \in Objects
      BY DEF Fine
<1>13. DOMAIN internal_msg_store = 1 .. 5 /\ internal_msg_store \in Seq(Objects)
      BY <1>6, <1>7, <1>8, <1>9, <1>10, <1>11, <1>12
<1>14. \A k \in 1 .. 5 : Fine(internal_msg_store[k])
      BY <1>6, <1>7, <1>8, <1>9, <1>10, <1>11
<1> QED BY <1>13, <1>14 DEF Fine

\* what is known of any object a packet can name
Reachable(obj) ==
    /\ obj \in Objects /\ Len(obj.id) \in 1..15 /\ obj.type # TYPE_OFFSET_METADATA
    /\ IF obj.type = TYPE_CALLBACK
       THEN obj.ptr \in Callbacks
       ELSE obj.ptr \in DOMAIN Memory

\* The object a name stands for.
LEMMA FoundIsReachable ==
    ASSUME dev_tracked \in Arrays \cup {<< >>}, NEW internal, NEW id,
           FindMessageObject(Namespace(internal), id) # << >>
    PROVE  LET obj == FindMessageObject(Namespace(internal), id)[1]
           IN  Reachable(obj) /\ obj.id = id
<1> DEFINE array == Namespace(internal)
           obj   == FindMessageObject(array, id)[1]
<1>1. array \in Seq(Objects) /\ \A k \in DOMAIN array : Reachable(array[k])
      <2>1. CASE internal = 1
            BY <2>1, InternalKnown DEF Namespace, Reachable, Callbacks
      <2>2. CASE internal # 1
            <3>1. array = dev_tracked
                  BY <2>2 DEF Namespace
            <3>2. CASE dev_tracked = << >>
                  BY <3>1, <3>2
            <3>3. CASE dev_tracked \in Arrays
                  BY <3>1, <3>3, ObjectsAssumption DEF Reachable, Callbacks, Known, KnownAll
            <3> QED BY <3>2, <3>3
      <2> QED BY <2>1, <2>2
<1> HIDE DEF array
<1>2. DOMAIN array \subseteq Nat
      BY <1>1
<1>3. \E k \in DOMAIN array : array[k].id = id /\ obj = array[k]
      <2>1. FindMessageObject(array, id) # << >>
            BY DEF array
      <2> QED BY <1>2, <2>1, FoundIsListed
<1>4. Reachable(obj) /\ obj.id = id
      BY <1>1, <1>3
<1> QED BY <1>4 DEF array

-----------------------------------------------------------------------------
(* What the library writes: packets on the given link, acknowledgements aside  *)

\* A packet fits in the buffer of encode_packet, whose id and payload together take what is
\* left of header, address and checksum: if the lists of the handshake do.
Small(m) ==
    PAYLOAD_SIZE_MAX >= 44 => Len(m.id) + 2 * m.offset + Len(m.data) <= 21 + PAYLOAD_SIZE_MAX

Framable == {m \in Message : Small(m)}

Sent(link) ==
    IF link \in Mute \cup {NoLink} THEN {}
    ELSE [link : {link}, message : {m \in Framable : m.acknum = 0}]

\* A slice with its address, or an acknowledgement.
LEMMA SmallSlice ==
    ASSUME NEW m \in Message, Len(m.id) \in 1..15, Len(m.data) <= PAYLOAD_SIZE_MAX
    PROVE  Small(m)
<1>1. \A n \in 1..15, b \in {0, 1}, k \in Nat, p \in Int : k <= p => n + 2 * b + k <= 21 + p
      OBVIOUS
<1>2. Len(m.data) \in Nat /\ PAYLOAD_SIZE_MAX \in Int /\ m.offset \in {0, 1}
      BY PayloadAssumption, BitsDef DEF Message
<1> QED BY <1>1, <1>2, Zenon DEF Small

\* Few bytes of payload.
LEMMA SmallFew ==
    ASSUME NEW m \in Message, Len(m.id) \in 1..15, m.offset = 0, Len(m.data) <= 4
    PROVE  Small(m)
<1>1. \A n \in 1..15, k \in Nat, p \in Int : k <= 4 /\ p >= 44 => n + 2 * 0 + k <= 21 + p
      OBVIOUS
<1>2. Len(m.data) \in Nat /\ PAYLOAD_SIZE_MAX \in Int
      BY PayloadAssumption DEF Message
<1> QED BY <1>1, <1>2, Zenon DEF Small

\* A list.
LEMMA SmallList ==
    ASSUME NEW m \in Message, Len(m.id) = 1, m.offset = 0, Len(m.data) <= 64
    PROVE  Small(m)
<1>1. \A k \in Nat, p \in Int : k <= 64 /\ p >= 44 => 1 + 2 * 0 + k <= 21 + p
      OBVIOUS
<1>2. Len(m.data) \in Nat /\ PAYLOAD_SIZE_MAX \in Int
      BY PayloadAssumption DEF Message
<1> QED BY <1>1, <1>2, Zenon DEF Small

\* A packet without flags.
LEMMA SimpleIs ==
    ASSUME NEW internal \in Bit, NEW type \in Bits4, NEW id \in Seq(Byte), NEW data \in Seq(Byte)
    PROVE  /\ Simple(internal, type, id, data) \in Message
           /\ Simple(internal, type, id, data).acknum = 0
           /\ Simple(internal, type, id, data).offset = 0
           /\ Simple(internal, type, id, data).id = id /\ Simple(internal, type, id, data).data = data
<1>1. 0 \in Bit /\ 0 \in Bits3 /\ 0 \in Word
      BY BitsDef, WordDef
<1> QED BY <1>1 DEF Simple, Message

\* An id cut to its length.
LEMMA CutType ==
    ASSUME NEW id \in Seq(Byte) PROVE SubSeq(id, 1, Len(id) % 16) \in Seq(Byte)
<1>1. Len(id) \in Nat
      OBVIOUS
<1>2. Len(id) % 16 \in 0 .. Len(id)
      <2> DEFINE n == Len(id)
      <2> HIDE DEF n
      <2>1. n \in Nat
            BY <1>1 DEF n
      <2>2. n % 16 \in 0 .. n
            BY <2>1
      <2> QED BY <2>2 DEF n
<1> QED BY <1>1, <1>2, SubSeqProperties

\* An id of at most 15 characters goes out whole.
LEMMA IdUncut ==
    ASSUME NEW id \in Seq(Byte), Len(id) \in 1..15 PROVE SubSeq(id, 1, Len(id) % 16) = id
<1>1. \A n \in 1..15 : n % 16 = n
      OBVIOUS
<1>2. Len(id) % 16 = Len(id)
      BY <1>1, Zenon
<1>3. SubSeq(id, 1, Len(id)) = id
      OBVIOUS
<1> QED BY <1>2, <1>3

\* encode_packet writes a packet as it is, on the link it was given.
LEMMA EncodeIs ==
    ASSUME NEW link, NEW ptr, NEW m \in Message
    PROVE  LET cut == [m EXCEPT !.id = SubSeq(@, 1, Len(@) % 16)]
           IN  /\ cut \in Message /\ cut.acknum = m.acknum
               /\ Encode(link, ptr, m) =
                     IF link \in Mute \cup {NoLink} \/ ptr = Null THEN << >>
                     ELSE <<[link |-> link, message |-> cut]>>
<1>1. m.id \in Seq(Byte)
      BY DEF Message
<1> QED BY <1>1, CutType DEF Encode, Message

\* the packets that go by a name
Named(link, internal, id) == {p \in Sent(link) : p.message.internal = internal /\ p.message.id = id}

\* A packet with an id of at most 15 characters goes out whole.
LEMMA EncodeWhole ==
    ASSUME NEW link, link \notin Mute \cup {NoLink}, NEW ptr, ptr # Null, NEW m \in Message,
           Len(m.id) \in 1..15
    PROVE  Encode(link, ptr, m) = <<[link |-> link, message |-> m]>>
<1> DEFINE cut == [m EXCEPT !.id = SubSeq(@, 1, Len(@) % 16)]
<1>1. m.id \in Seq(Byte)
      BY DEF Message
<1>2. cut.id = SubSeq(m.id, 1, Len(m.id) % 16)
      BY DEF Message
<1>3. cut.id = m.id
      BY <1>1, <1>2, IdUncut
<1>4. cut = m
      BY <1>3 DEF Message
<1>5. Encode(link, ptr, m) = <<[link |-> link, message |-> cut]>>
      BY EncodeIs
<1> HIDE DEF cut
<1> QED BY <1>4, <1>5

LEMMA EncodeNamed ==
    ASSUME NEW link, NEW ptr, NEW m \in Framable, m.acknum = 0, Len(m.id) \in 1..15
    PROVE  Encode(link, ptr, m) \in Seq(Named(link, m.internal, m.id))
<1>1. CASE link \in Mute \cup {NoLink} \/ ptr = Null
      <2>1. Encode(link, ptr, m) = << >>
            BY <1>1 DEF Encode
      <2> QED BY <2>1
<1>2. CASE ~(link \in Mute \cup {NoLink} \/ ptr = Null)
      <2>1. Encode(link, ptr, m) = <<[link |-> link, message |-> m]>>
            BY <1>2, EncodeWhole DEF Framable
      <2>2. [link |-> link, message |-> m] \in Named(link, m.internal, m.id)
            BY <1>2 DEF Sent, Named
      <2> QED BY <2>1, <2>2
<1> QED BY <1>1, <1>2

\* the packets the handshake's first answer is not made of
Plain(link) == {p \in Sent(link) : ~IsList(p.message) /\ ~IsCount(p.message)}

Ordinary(out) == \A k \in DOMAIN out : ~IsList(out[k].message) /\ ~IsCount(out[k].message)

\* No object has the name of one of those.
PlainName(internal, id) == internal = 1 => id \notin {EUI_INTERNAL_AM_LIST, EUI_INTERNAL_AM_END}

LEMMA NamedPlain ==
    ASSUME NEW link, NEW internal, NEW id, PlainName(internal, id)
    PROVE  Named(link, internal, id) \subseteq Plain(link)
BY DEF PlainName, Named, Plain, IsList, IsCount

LEMMA PlainSent ==
    ASSUME NEW link, NEW out \in Seq(Plain(link)) PROVE out \in Seq(Sent(link)) /\ Ordinary(out)
<1>1. Plain(link) \subseteq Sent(link)
      BY DEF Plain
<1>2. \A k \in DOMAIN out : out[k] \in Plain(link)
      OBVIOUS
<1>3. out \in Seq(Sent(link))
      BY <1>1
<1>4. Ordinary(out)
      BY <1>2 DEF Plain, Ordinary
<1> QED BY <1>3, <1>4

LEMMA InternalNames ==
    ASSUME NEW internal, NEW id, FindMessageObject(Namespace(internal), id) # << >>
    PROVE  PlainName(internal, FindMessageObject(Namespace(internal), id)[1].id)
<1> SUFFICES ASSUME internal = 1
             PROVE  FindMessageObject(internal_msg_store, id)[1].id
                        \notin {EUI_INTERNAL_AM_LIST, EUI_INTERNAL_AM_END}
      BY DEF PlainName, Namespace
<1> DEFINE Other(name) == name \notin {EUI_INTERNAL_AM_LIST, EUI_INTERNAL_AM_END}
<1>1. \A i, j : <<i>> = <<j>> => i = j
      OBVIOUS
<1>2. /\ Other(EUI_INTERNAL_HEARTBEAT) /\ Other(EUI_INTERNAL_LIB_VER) /\ Other(EUI_INTERNAL_BOARD_ID)
      /\ Other(EUI_INTERNAL_AM) /\ Other(EUI_INTERNAL_AV)
      BY <1>1 DEF EUI_INTERNAL_HEARTBEAT, EUI_INTERNAL_LIB_VER, EUI_INTERNAL_BOARD_ID, EUI_INTERNAL_AM,
         EUI_INTERNAL_AV, EUI_INTERNAL_AM_LIST, EUI_INTERNAL_AM_END
<1> HIDE DEF Other
<1>3. \A k \in 1 .. 5 : Other(internal_msg_store[k].id)
      BY <1>2 DEF internal_msg_store, Obj
<1>4. DOMAIN internal_msg_store = 1 .. 5
      BY InternalKnown
<1>5. \E k \in 1 .. 5 : FindMessageObject(internal_msg_store, id)[1] = internal_msg_store[k]
      <2>1. FindMessageObject(internal_msg_store, id) # << >>
            BY DEF Namespace
      <2>2. 1 .. 5 \subseteq Nat
            OBVIOUS
      <2> QED BY <1>4, <2>1, <2>2, FoundIsListed
<1> QED BY <1>3, <1>5 DEF Other

LEMMA SimpleNamed ==
    ASSUME NEW link, NEW ptr, NEW internal \in Bit, NEW type \in Bits4,
           NEW id \in Seq(Byte), Len(id) \in 1..15, NEW data \in Seq(Byte),
           Small(Simple(internal, type, id, data))
    PROVE  Encode(link, ptr, Simple(internal, type, id, data)) \in Seq(Named(link, internal, id))
<1> DEFINE m == Simple(internal, type, id, data)
<1>1. m \in Framable /\ m.acknum = 0
      BY SimpleIs DEF Framable
<1>2. m.internal = internal /\ m.id = id
      BY DEF Simple
<1> HIDE DEF m
<1>3. Encode(link, ptr, m) \in Seq(Named(link, internal, id))
      BY <1>1, <1>2, EncodeNamed
<1> QED BY <1>3 DEF m

\* Every slice lies in the range and is not empty.
LEMMA SliceWithin ==
    ASSUME NEW base \in Word, NEW end \in Word
    PROVE  /\ \E n \in Nat : DOMAIN Slices(base, end) = 1 .. n
           /\ \A k \in DOMAIN Slices(base, end) :
                 LET slice == Slices(base, end)[k]
                 IN  /\ slice.start \in Word /\ slice.end \in Word
                     /\ base <= slice.start /\ slice.start < slice.end /\ slice.end <= end
                     /\ slice.end - slice.start <= PAYLOAD_SIZE_MAX
<1> DEFINE P == PAYLOAD_SIZE_MAX
           x == end - base
           count == IF end > base THEN (x + P - 1) \div P ELSE 0
           upto(k) == end - (k - 1) * P
<1>1. /\ base \in Int /\ 0 <= base /\ end \in Int /\ end <= 65535 /\ x \in Int
      /\ P \in Int /\ 1 <= P
      BY WordDef, PayloadAssumption
<1>2. Slices(base, end) =
          [k \in 1 .. count |-> [start |-> upto(k) - Lesser(P, upto(k) - base), end |-> upto(k)]]
      BY DEF Slices
<1> HIDE DEF P
<1>3. count \in Nat
      <2>1. CASE end > base
            <3>1. 0 < x + P /\ 0 <= x + P - 1
                  BY <1>1, <2>1
            <3> HIDE DEF x
            <3>2. (x + P - 1) \div P \in Nat
                  BY <1>1, <3>1
            <3> QED BY <2>1, <3>2 DEF x
      <2>2. CASE ~(end > base)
            BY <2>2
      <2> QED BY <2>1, <2>2
<1>4. ASSUME NEW k \in 1 .. count PROVE (k - 1) * P < x /\ 0 <= (k - 1) * P /\ (k - 1) * P \in Int
      <2>1. end > base /\ count = (x + P - 1) \div P
            BY <1>4
      <2> HIDE DEF x, count
      <2>2. count * P <= x + P - 1
            BY <1>1, <2>1
      <2>3. k \in Int /\ 1 <= k /\ k <= count
            BY <1>3
      <2>4. k * P <= count * P /\ 0 <= (k - 1) * P
            BY <1>1, <1>3, <2>3
      <2>5. (k - 1) * P = k * P - P /\ k * P \in Int /\ count * P \in Int
            BY <1>1, <1>3, <2>3
      <2> QED BY <1>1, <2>2, <2>3, <2>4, <2>5
<1>5. ASSUME NEW k \in 1 .. count
      PROVE  LET slice == Slices(base, end)[k]
             IN  /\ slice.start \in Word /\ slice.end \in Word
                 /\ base <= slice.start /\ slice.start < slice.end /\ slice.end <= end
                 /\ slice.end - slice.start <= P
      <2> DEFINE top == upto(k)
                 start == top - Lesser(P, top - base)
      <2>1. top \in Int /\ base < top /\ top <= end
            BY <1>1, <1>4
      <2> HIDE DEF top
      <2>2. start \in Int /\ base <= start /\ start < top /\ top - start <= P
            BY <1>1, <2>1 DEF Lesser
      <2> HIDE DEF start
      <2>3. Slices(base, end)[k] = [start |-> start, end |-> top]
            BY <1>2 DEF start, top
      <2> QED BY <1>1, <2>1, <2>2, <2>3, WordDef
<1> HIDE DEF count
<1>6. DOMAIN Slices(base, end) = 1 .. count
      BY <1>2
<1> QED BY <1>3, <1>5, <1>6 DEF P

\* The size of an object is a word, and what it points at has that many bytes.
LEMMA SizeIs ==
    ASSUME NEW obj, Reachable(obj), NEW mem, Typed(mem)
    PROVE  Size(obj) \in Word /\ Contents(obj, mem) \in Seq(Byte) /\ Len(Contents(obj, mem)) = Size(obj)
<1>1. CASE obj.type = TYPE_CALLBACK
      BY <1>1, WordDef DEF Size, Contents
<1>2. CASE obj.type # TYPE_CALLBACK
      <2>1. obj.ptr \in DOMAIN Memory
            BY <1>2 DEF Reachable
      <2>2. Fits(obj.ptr, mem[obj.ptr]) /\ Len(Memory[obj.ptr]) \in Word
            BY <2>1, MemoryAssumption DEF Typed
      <2> QED BY <1>2, <2>2 DEF Size, Contents, Fits
<1> QED BY <1>1, <1>2

\* eui_send_range sends the object on its link, by its name.
LEMMA RangeNamed ==
    ASSUME NEW link, NEW obj, Reachable(obj), NEW mem, Typed(mem), NEW internal \in Bit,
           NEW base \in Word, NEW end \in Word, end <= Size(obj)
    PROVE  EuiSendRange(link, obj, internal, base, end, mem) \in Seq(Named(link, internal, obj.id))
<1> DEFINE range  == ValidateOffsetRange(base, end, obj.type, Size(obj))
           slices == Slices(base, end)
           contents == Contents(obj, mem)
           announce == Encode(link, "data_range",
                              Simple(internal, TYPE_OFFSET_METADATA, obj.id,
                                     LittleEndian(range.start) \o LittleEndian(range.end)))
           part(k) == SubSeq(contents, slices[k].start + 1, slices[k].end)
           message(k) == [Simple(internal, obj.type, obj.id, part(k))
                          EXCEPT !.offset = 1, !.offset_in = slices[k].start]
           packets == [k \in DOMAIN slices |-> Encode(link, obj.ptr, message(k))]
<1>1. EuiSendRange(link, obj, internal, base, end, mem) = announce \o FlattenSeq(packets)
      BY DEF EuiSendRange
<1>2. obj.id \in Seq(Byte) /\ obj.type \in Bits4 /\ Len(obj.id) \in 1..15
      BY DEF Reachable, Objects
<1>3. Size(obj) \in Word /\ contents \in Seq(Byte) /\ Len(contents) = Size(obj)
      BY SizeIs
<1>4. announce \in Seq(Named(link, internal, obj.id))
      <2>1. range.start \in Word /\ range.end \in Word
            BY <1>3, RangeType
      <2> HIDE DEF range
      <2> DEFINE bytes == LittleEndian(range.start) \o LittleEndian(range.end)
                 m     == Simple(internal, TYPE_OFFSET_METADATA, obj.id, bytes)
      <2>2. bytes \in Seq(Byte) /\ Len(bytes) <= 4
            <3> DEFINE low == LittleEndian(range.start)
                       top == LittleEndian(range.end)
            <3>1. low \in Seq(Byte) /\ Len(low) = 2 /\ top \in Seq(Byte) /\ Len(top) = 2
                  BY <2>1, LittleEndianType
            <3>2. bytes = low \o top
                  OBVIOUS
            <3> HIDE DEF low, top, bytes
            <3>3. bytes \in Seq(Byte) /\ Len(bytes) = Len(low) + Len(top)
                  BY <3>1, <3>2, ConcatProperties
            <3> QED BY <3>1, <3>3
      <2> HIDE DEF bytes
      <2>3. TYPE_OFFSET_METADATA \in Bits4
            BY BitsDef DEF TYPE_OFFSET_METADATA
      <2>4. m \in Message /\ m.offset = 0 /\ m.id = obj.id /\ m.data = bytes
            BY <1>2, <2>2, <2>3, SimpleIs
      <2>5. Small(m)
            <3> HIDE DEF m
            <3> QED BY <1>2, <2>2, <2>4, SmallFew
      <2>6. announce = Encode(link, "data_range", m)
            BY DEF bytes
      <2> QED BY <1>2, <2>2, <2>3, <2>5, <2>6, SimpleNamed
<1>5. ASSUME NEW k \in DOMAIN slices PROVE packets[k] \in Seq(Named(link, internal, obj.id))
      <2>1. /\ slices[k].start \in Word /\ slices[k].end \in Word
            /\ slices[k].start < slices[k].end /\ slices[k].end <= end
            /\ slices[k].end - slices[k].start <= PAYLOAD_SIZE_MAX
            BY SliceWithin
      <2>2. /\ slices[k].start \in Int /\ slices[k].end \in Int /\ 0 <= slices[k].start
            /\ slices[k].end <= Len(contents)
            BY <1>3, <2>1, WordDef
      <2> HIDE DEF slices, contents
      <2>3. part(k) \in Seq(Byte) /\ Len(part(k)) <= PAYLOAD_SIZE_MAX
            <3> DEFINE first == slices[k].start + 1
                       last  == slices[k].end
            <3>1. /\ first \in 1 .. Len(contents) + 1 /\ last \in first - 1 .. Len(contents)
                  /\ last - first + 1 <= PAYLOAD_SIZE_MAX
                  BY <1>3, <2>1, <2>2, PayloadAssumption
            <3>2. part(k) = SubSeq(contents, first, last)
                  OBVIOUS
            <3> HIDE DEF first, last, part
            <3>3. part(k) \in Seq(Byte) /\ Len(part(k)) = last - first + 1
                  BY <1>3, <3>1, <3>2
            <3> QED BY <3>1, <3>3
      <2> HIDE DEF part
      <2>4. /\ message(k) \in Message /\ message(k).acknum = 0 /\ message(k).data = part(k)
            /\ message(k).internal = internal /\ message(k).id = obj.id
            <3>1. /\ Simple(internal, obj.type, obj.id, part(k)) \in Message
                  /\ Simple(internal, obj.type, obj.id, part(k)).acknum = 0
                  /\ Simple(internal, obj.type, obj.id, part(k)).internal = internal
                  /\ Simple(internal, obj.type, obj.id, part(k)).id = obj.id
                  /\ Simple(internal, obj.type, obj.id, part(k)).data = part(k)
                  BY <1>2, <2>3, SimpleIs DEF Simple
            <3>2. 1 \in Bit
                  BY BitsDef
            <3> QED BY <2>1, <3>1, <3>2 DEF Message
      <2> HIDE DEF message
      <2>5. message(k) \in Framable
            BY <1>2, <2>3, <2>4, SmallSlice DEF Framable
      <2> QED BY <1>2, <2>4, <2>5, EncodeNamed
<1>6. packets \in Seq(Seq(Named(link, internal, obj.id)))
      <2>1. PICK n \in Nat : DOMAIN slices = 1 .. n
            BY SliceWithin
      <2> HIDE DEF slices
      <2>2. \A k \in 1 .. n : packets[k] \in Seq(Named(link, internal, obj.id))
            BY <1>5, <2>1
      <2>3. packets = [k \in 1 .. n |-> packets[k]]
            BY <2>1
      <2> HIDE DEF packets
      <2> QED BY <2>2, <2>3
<1> HIDE DEF packets, announce
<1>7. FlattenSeq(packets) \in Seq(Named(link, internal, obj.id))
      BY <1>6, FlattenSent
<1> QED BY <1>1, <1>4, <1>7, ConcatProperties

\* eui_send as well.
LEMMA SendNamed ==
    ASSUME NEW link, NEW obj, Reachable(obj), NEW mem, Typed(mem), NEW internal \in Bit
    PROVE  EuiSend(link, obj, internal, mem) \in Seq(Named(link, internal, obj.id))
<1>1. obj.id \in Seq(Byte) /\ obj.type \in Bits4 /\ Len(obj.id) \in 1..15
      BY DEF Reachable, Objects
<1>2. Size(obj) \in Word /\ Contents(obj, mem) \in Seq(Byte)
      BY SizeIs
<1>3. Size(obj) <= Size(obj) /\ 0 \in Word
      BY <1>2, WordDef
<1>4. EuiSendRange(link, obj, internal, 0, Size(obj), mem) \in Seq(Named(link, internal, obj.id))
      BY <1>2, <1>3, RangeNamed
<1>5. CASE Size(obj) <= PAYLOAD_SIZE_MAX
      <2> DEFINE m == Simple(internal, obj.type, obj.id, Contents(obj, mem))
      <2>1. m \in Message /\ m.id = obj.id /\ m.data = Contents(obj, mem)
            BY <1>1, <1>2, SimpleIs
      <2>2. Len(Contents(obj, mem)) = Size(obj)
            BY SizeIs
      <2>3. Small(m)
            <3> HIDE DEF m
            <3> QED BY <1>1, <1>5, <2>1, <2>2, SmallSlice
      <2>4. Encode(link, obj.ptr, m) \in Seq(Named(link, internal, obj.id))
            BY <1>1, <1>2, <2>3, SimpleNamed
      <2> QED BY <1>5, <2>4 DEF EuiSend
<1>6. CASE ~(Size(obj) <= PAYLOAD_SIZE_MAX)
      BY <1>4, <1>6 DEF EuiSend
<1> QED BY <1>5, <1>6

LEMMA SendSent ==
    ASSUME NEW link, NEW obj, Reachable(obj), NEW mem, Typed(mem), NEW internal \in Bit
    PROVE  EuiSend(link, obj, internal, mem) \in Seq(Sent(link))
<1>1. Named(link, internal, obj.id) \subseteq Sent(link)
      BY DEF Named
<1> QED BY <1>1, SendNamed

\* What the application sends is none of the handshake's.
LEMMA SendPlain ==
    ASSUME NEW link, NEW obj, Reachable(obj), NEW mem, Typed(mem)
    PROVE  EuiSend(link, obj, 0, mem) \in Seq(Plain(link))
<1>1. 0 \in Bit /\ PlainName(0, obj.id)
      BY BitsDef DEF PlainName
<1>2. Named(link, 0, obj.id) \subseteq Plain(link)
      BY <1>1, NamedPlain
<1> QED BY <1>1, <1>2, SendNamed

\* What the packing of the ids into msgBuffer computes, id by id.
LEMMA PackedIs ==
    ASSUME NEW array \in Seq(Objects)
    PROVE  \E packed \in [0 .. Len(array) -> [lists : Seq(Seq(Byte)), buffer : Seq(Byte)]] :
              /\ packed[0] = [lists |-> << >>, buffer |-> << >>]
              /\ \A i \in 1 .. Len(array) :
                    LET buffer == packed[i - 1].buffer \o Append(array[i].id, 0)
                    IN  packed[i] = IF ListFull(array, i, buffer)
                                    THEN [lists |-> Append(packed[i - 1].lists, buffer), buffer |-> << >>]
                                    ELSE [lists |-> packed[i - 1].lists, buffer |-> buffer]
              /\ IdLists(array) = packed[Len(array)].lists
<1>0. ASSUME NEW i \in 1 .. Len(array) PROVE array[i].id \in Seq(Byte)
      <2>1. array[i] \in Objects
            BY ElementOfSeq, Zenon
      <2> QED BY <2>1 DEF Objects
<1>zero. 0 \in Byte
      BY ByteDef
<1> DEFINE n == Len(array)
           T == [lists : Seq(Seq(Byte)), buffer : Seq(Byte)]
           nothing == [lists |-> << >>, buffer |-> << >>]
           with(p, i) == p.buffer \o Append(array[i].id, 0)
           pack(p, i) == IF ListFull(array, i, with(p, i))
                         THEN [lists |-> Append(p.lists, with(p, i)), buffer |-> << >>]
                         ELSE [lists |-> p.lists, buffer |-> with(p, i)]
           next == [i \in 1 .. n |-> [p \in T |-> pack(p, i)]]
           Body(g) == [i \in 0 .. n |-> IF i = 0 THEN nothing ELSE pack(g[i - 1], i)]
           packed == CHOOSE g : g = Body(g)
<1>1. n \in Nat
      OBVIOUS
<1>2. IdLists(array) = packed[n].lists
      BY Zenon DEF IdLists
<1>3. nothing \in T
      OBVIOUS
<1>4. ASSUME NEW i \in 1 .. n, NEW p \in T PROVE pack(p, i) \in T
      <2>1. i \in 1 .. Len(array)
            OBVIOUS
      <2> HIDE DEF n
      <2>2. with(p, i) \in Seq(Byte)
            <3>1. Append(array[i].id, 0) \in Seq(Byte)
                  <4>1. array[i].id \in Seq(Byte)
                        BY <1>0, <2>1
                  <4> QED BY <1>zero, <4>1, AppendProperties
            <3>2. p.buffer \in Seq(Byte)
                  OBVIOUS
            <3> QED BY <3>1, <3>2, ConcatProperties
      <2> HIDE DEF with
      <2> QED BY <2>2
<1> HIDE DEF n, pack, nothing
<1>5. next \in [1 .. n -> [T -> T]]
      BY <1>4
<1>6. PICK f \in [0 .. n -> T] : Follows(f, n, nothing, next)
      <2> HIDE DEF T, next
      <2> QED BY <1>1, <1>3, <1>5, Recursion, Zenon
<1>7. f = Body(f)
      <2>1. ASSUME NEW i \in 0 .. n PROVE f[i] = IF i = 0 THEN nothing ELSE pack(f[i - 1], i)
            <3>1. CASE i = 0
                  BY <1>6, <3>1 DEF Follows
            <3>2. CASE i # 0
                  <4>1. i \in 1 .. n /\ i - 1 \in 0 .. n
                        BY <1>1, <3>2
                  <4>2. f[i] = next[i][f[i - 1]] /\ f[i - 1] \in T
                        BY <1>6, <4>1 DEF Follows
                  <4>3. next[i][f[i - 1]] = pack(f[i - 1], i)
                        BY <4>1, <4>2
                  <4> HIDE DEF next
                  <4> QED BY <3>2, <4>2, <4>3
            <3> QED BY <3>1, <3>2
      <2> QED BY <2>1
<1>8. packed = Body(packed)
      <2> HIDE DEF Body
      <2> QED BY <1>7, Zenon
<1> HIDE DEF packed
<1>9. packed[0] = nothing /\ \A i \in 1 .. n : packed[i] = pack(packed[i - 1], i)
      <2>1. 0 \in 0 .. n /\ 1 .. n \subseteq 0 .. n /\ \A i \in 1 .. n : i # 0
            BY <1>1
      <2>2. \A i \in 0 .. n : packed[i] = IF i = 0 THEN nothing ELSE pack(packed[i - 1], i)
            BY <1>8
      <2> QED BY <2>1, <2>2
<1>10. \A i \in 0 .. n : packed[i] \in T
      <2> HIDE DEF T
      <2>1. packed[0] \in T /\ \A i \in 1 .. n : packed[i - 1] \in T => packed[i] \in T
            BY <1>3, <1>4, <1>9
      <2> QED BY <1>1, <2>1, Stays, Zenon
<1>11. packed \in [0 .. n -> T]
      <2> HIDE DEF T
      <2>1. packed = [i \in 0 .. n |-> packed[i]]
            BY <1>8
      <2> QED BY <1>10, <2>1
<1> QED BY <1>2, <1>9, <1>11 DEF nothing, pack, n

-----------------------------------------------------------------------------
(* The lists of the handshake                                                  *)

\* every list fits, and with the first id of the next one it would not
Filled(lists) ==
    /\ \A k \in 1 .. Len(lists) : Len(lists[k]) <= 64
    /\ \A k \in 1 .. Len(lists) - 1 :
          \E n \in DOMAIN lists[k + 1] : Ends(lists[k + 1], n) /\ Len(lists[k]) + n > 64

\* nor would what goes into the next one after all of them
Follow(lists, buffer) ==
    lists # << >> => \E n \in DOMAIN buffer : Ends(buffer, n) /\ Len(Last(lists)) + n > 64

\* between two ids, the next one taking so many bytes
Packing(lists, buffer, entry) ==
    /\ Filled(lists) /\ Len(buffer) + entry <= 64
    /\ IF buffer = << >> THEN lists # << >> => Len(Last(lists)) + entry > 64
       ELSE Follow(lists, buffer)

\* a C string
Terminated(id) == \A n \in DOMAIN id : id[n] # 0

LEMMA ZeroIsByte == 0 \in Byte
BY ByteDef

LEMMA Sums ==
    \A p \in Nat, q \in Nat : \A n : p + (q + 1) <= 64 /\ n = p + (q + 1) => n \in 1..64
OBVIOUS

LEMMA OneFits == \A p, k : p = 0 /\ k \in 1..15 => p + (k + 1) <= 64
OBVIOUS

LEMMA ThreeJoined ==
    ASSUME NEW p \in Seq(Byte), NEW q \in Seq(Byte), NEW r \in Seq(Byte)
    PROVE  (p \o q) \o r = p \o (q \o r)
BY ConcatAssociative

\* an id in a list
Entry(id, entry) ==
    /\ Len(entry) = Len(id) + 1 /\ entry[Len(id) + 1] = 0
    /\ \A n \in 1 .. Len(id) : entry[n] = id[n]

LEMMA EntryIs ==
    ASSUME NEW id \in Seq(Byte) PROVE Append(id, 0) \in Seq(Byte) /\ Entry(id, Append(id, 0))
BY ZeroIsByte, AppendProperties DEF Entry

\* The next id is packed.
LEMMA BufferTakes ==
    ASSUME NEW lists \in Seq(Seq(Byte)), NEW buffer \in Seq(Byte), NEW id \in Seq(Byte),
           NEW more, Terminated(id), Packing(lists, buffer, Len(id) + 1),
            more = buffer \o Append(id, 0)
    PROVE  more \in Seq(Byte) /\ Len(more) \in 1..64 /\ Follow(lists, more)
<1> DEFINE entry == Append(id, 0)
<1>1. entry \in Seq(Byte) /\ Entry(id, entry)
      BY EntryIs
<1> HIDE DEF entry
<1>2. /\ Len(entry) = Len(id) + 1 /\ entry[Len(id) + 1] = 0
      /\ \A n \in 1 .. Len(id) : entry[n] = id[n]
      BY <1>1, Zenon DEF Entry
<1>3. more = buffer \o entry
      BY DEF entry
<1>4. /\ more \in Seq(Byte) /\ Len(more) = Len(buffer) + Len(entry)
      /\ \A n \in 1 .. Len(buffer) + Len(entry) :
            more[n] = IF n <= Len(buffer) THEN buffer[n] ELSE entry[n - Len(buffer)]
      <2> HIDE DEF entry
      <2>1. /\ buffer \o entry \in Seq(Byte) /\ Len(buffer \o entry) = Len(buffer) + Len(entry)
            /\ \A n \in 1 .. Len(buffer) + Len(entry) :
                  (buffer \o entry)[n] = IF n <= Len(buffer) THEN buffer[n] ELSE entry[n - Len(buffer)]
            BY <1>1, ConcatProperties
      <2> QED BY <1>3, <2>1, Zenon
<1>5. Len(id) \in Nat /\ Len(buffer) \in Nat /\ DOMAIN id = 1 .. Len(id) /\ DOMAIN more = 1 .. Len(more)
      BY <1>4, LenProperties
<1>6. Len(more) \in 1..64
      <2>1. Len(buffer) + (Len(id) + 1) <= 64
            BY Zenon DEF Packing
      <2>2. Len(more) = Len(buffer) + (Len(id) + 1)
            BY <1>2, <1>4, Zenon
      <2> QED BY <1>5, <2>1, <2>2, Sums, Zenon
<1>7. CASE buffer = << >>
      <2>1. more = entry
            BY <1>2, <1>3, <1>7, ConcatEmptySeq
      <2>2. Ends(more, Len(id) + 1) /\ Len(id) + 1 \in DOMAIN more
            BY <1>2, <1>5, <2>1 DEF Ends, Terminated
      <2>3. lists # << >> => Len(Last(lists)) + (Len(id) + 1) > 64
            BY <1>7 DEF Packing
      <2> QED BY <1>4, <1>6, <2>2, <2>3 DEF Follow
<1>8. CASE buffer # << >>
      <2>1. Follow(lists, buffer)
            BY <1>8 DEF Packing
      <2>2. ASSUME NEW n \in DOMAIN buffer, Ends(buffer, n) PROVE n \in DOMAIN more /\ Ends(more, n)
            <3>1. n \in 1 .. Len(buffer) /\ n \in 1 .. Len(more)
                  BY <1>2, <1>4, <1>5, LenProperties
            <3>2. \A k \in 1 .. Len(buffer) : more[k] = buffer[k]
                  BY <1>2, <1>4, <1>5
            <3>3. \A k \in 1 .. n - 1 : more[k] = buffer[k]
                  BY <1>5, <3>1, <3>2
            <3> QED BY <1>5, <2>2, <3>1, <3>2, <3>3 DEF Ends
      <2>3. Follow(lists, more)
            BY <2>1, <2>2 DEF Follow
      <2> QED BY <1>4, <1>6, <2>3
<1> QED BY <1>7, <1>8

\* A list is sent.
LEMMA ListTakes ==
    ASSUME NEW lists \in Seq(Seq(Byte)), NEW more \in Seq(Byte), Filled(lists), Len(more) <= 64,
           Follow(lists, more)
    PROVE  Filled(Append(lists, more)) /\ Last(Append(lists, more)) = more
<1> DEFINE n == Len(lists)
           all == Append(lists, more)
<1>1. /\ Len(all) = n + 1 /\ all[n + 1] = more /\ \A k \in 1 .. n : all[k] = lists[k]
      /\ n \in Nat
      BY AppendProperties
<1> HIDE DEF all
<1>2. \A k \in 1 .. Len(all) : Len(all[k]) <= 64
      <2> SUFFICES ASSUME NEW k \in 1 .. Len(all) PROVE Len(all[k]) <= 64
            OBVIOUS
      <2>1. k \in 1 .. n \/ k = n + 1
            BY <1>1
      <2> QED BY <1>1, <2>1 DEF Filled
<1>3. ASSUME NEW k \in 1 .. Len(all) - 1
      PROVE  \E j \in DOMAIN all[k + 1] : Ends(all[k + 1], j) /\ Len(all[k]) + j > 64
      <2>1. CASE k = n
            <3>1. lists # << >> /\ Last(lists) = all[k] /\ all[k + 1] = more
                  BY <1>1, <2>1 DEF Last
            <3> QED BY <3>1, Zenon DEF Follow
      <2>2. CASE k # n
            <3>1. k \in 1 .. n - 1 /\ all[k] = lists[k] /\ all[k + 1] = lists[k + 1]
                  BY <1>1, <2>2
            <3> QED BY <3>1 DEF Filled
      <2> QED BY <2>1, <2>2
<1>4. Last(all) = more
      BY <1>1 DEF Last
<1> QED BY <1>2, <1>3, <1>4 DEF Filled, all

\* What goes into the lists is every id in turn; they are as full as they can be.
LEMMA ListsPacked ==
    ASSUME NEW array, KnownAll(array)
    PROVE  /\ IdLists(array) \in Seq(Seq(Byte)) /\ Filled(IdLists(array))
           /\ FlattenSeq(IdLists(array))
                  = FlattenSeq([k \in DOMAIN array |-> Append(array[k].id, 0)])
<1> DEFINE n == Len(array)
           names == [k \in DOMAIN array |-> Append(array[k].id, 0)]
<1>1. array \in Seq(Objects) /\ n \in Nat /\ DOMAIN array = 1 .. n
      BY LenProperties DEF KnownAll
<1>2. ASSUME NEW i \in 1 .. n
      PROVE  /\ array[i].id \in Seq(Byte) /\ Len(array[i].id) \in 1..15 /\ Terminated(array[i].id)
             /\ names[i] \in Seq(Byte) /\ names[i] = Append(array[i].id, 0)
      <2>1. Known(array[i]) /\ array[i] \in Objects
            BY <1>1 DEF KnownAll, Known
      <2>2. array[i].id \in Seq(Byte) /\ Len(array[i].id) \in 1..15 /\ Terminated(array[i].id)
            BY <2>1 DEF Known, Objects, Terminated
      <2>3. names[i] = Append(array[i].id, 0)
            BY <1>1
      <2> QED BY <2>2, <2>3, EntryIs
<1>3. names \in Seq(Seq(Byte)) /\ Len(names) = n
      <2>1. \A k \in DOMAIN array : names[k] \in Seq(Byte)
            BY <1>1, <1>2
      <2>2. names = [k \in DOMAIN array |-> names[k]]
            OBVIOUS
      <2> HIDE DEF names
      <2> QED BY <1>1, <2>1, <2>2, Mapped, Zenon
<1> HIDE DEF names
<1>4. PICK flat \in [0 .. n -> Seq(Byte)] :
          /\ flat[0] = << >> /\ \A i \in 1 .. n : flat[i] = flat[i - 1] \o names[i]
          /\ FlattenSeq(names) = flat[n]
      <2> HIDE DEF n
      <2>1. \E flat \in [0 .. Len(names) -> Seq(Byte)] :
                /\ flat[0] = << >> /\ \A i \in 1 .. Len(names) : flat[i] = flat[i - 1] \o names[i]
                /\ FlattenSeq(names) = flat[Len(names)]
            BY <1>3, FlattenIs
      <2> QED BY <1>3, <2>1, Zenon
<1>5. PICK packed \in [0 .. n -> [lists : Seq(Seq(Byte)), buffer : Seq(Byte)]] :
          /\ packed[0] = [lists |-> << >>, buffer |-> << >>]
          /\ \A i \in 1 .. n :
                LET buffer == packed[i - 1].buffer \o Append(array[i].id, 0)
                IN  packed[i] = IF ListFull(array, i, buffer)
                                THEN [lists |-> Append(packed[i - 1].lists, buffer), buffer |-> << >>]
                                ELSE [lists |-> packed[i - 1].lists, buffer |-> buffer]
          /\ IdLists(array) = packed[n].lists
      BY <1>1, PackedIs
<1> DEFINE lists(i)  == packed[i].lists
           buffer(i) == packed[i].buffer
           more(i)   == buffer(i - 1) \o names[i]
<1>6. \A i \in 0 .. n : lists(i) \in Seq(Seq(Byte)) /\ buffer(i) \in Seq(Byte)
      OBVIOUS
<1>7. ASSUME NEW i \in 1 .. n
      PROVE  /\ more(i) = buffer(i - 1) \o Append(array[i].id, 0)
             /\ ListFull(array, i, more(i)) => lists(i) = Append(lists(i - 1), more(i)) /\ buffer(i) = << >>
             /\ ~ListFull(array, i, more(i)) => lists(i) = lists(i - 1) /\ buffer(i) = more(i)
      <2>1. names[i] = Append(array[i].id, 0)
            BY <1>2
      <2>2. LET next == packed[i - 1].buffer \o Append(array[i].id, 0)
            IN  packed[i] = IF ListFull(array, i, next)
                            THEN [lists |-> Append(packed[i - 1].lists, next), buffer |-> << >>]
                            ELSE [lists |-> packed[i - 1].lists, buffer |-> next]
            BY <1>5
      <2>3. packed[i] = IF ListFull(array, i, more(i))
                        THEN [lists |-> Append(packed[i - 1].lists, more(i)), buffer |-> << >>]
                        ELSE [lists |-> packed[i - 1].lists, buffer |-> more(i)]
            BY <2>1, <2>2, Zenon
      <2>4. more(i) = buffer(i - 1) \o Append(array[i].id, 0)
            BY <2>1, Zenon
      <2> HIDE DEF more
      <2>5. CASE ListFull(array, i, more(i))
            <3> DEFINE sent == Append(packed[i - 1].lists, more(i))
            <3>1. packed[i] = [lists |-> sent, buffer |-> << >>]
                  BY <2>3, <2>5, Zenon
            <3> HIDE DEF sent
            <3>2. packed[i].lists = sent /\ packed[i].buffer = << >>
                  BY <3>1
            <3> QED BY <2>4, <2>5, <3>2, Zenon DEF sent
      <2>6. CASE ~ListFull(array, i, more(i))
            <3>1. packed[i] = [lists |-> packed[i - 1].lists, buffer |-> more(i)]
                  BY <2>3, <2>6, Zenon
            <3>2. packed[i].lists = packed[i - 1].lists /\ packed[i].buffer = more(i)
                  BY <3>1
            <3> QED BY <2>4, <2>6, <3>2, Zenon
      <2> QED BY <2>5, <2>6, Zenon
<1>8. lists(0) = << >> /\ buffer(0) = << >>
      BY <1>5
<1>9. IdLists(array) = lists(n) /\ lists(n) \in Seq(Seq(Byte))
      BY <1>1, <1>5
<1> HIDE DEF lists, buffer, n
<1> DEFINE Told(i) == FlattenSeq(lists(i)) \o buffer(i) = flat[i]
           Ready(i) == /\ Filled(lists(i))
                       /\ i = n => buffer(i) = << >>
                       /\ i < n => Packing(lists(i), buffer(i), Len(array[i + 1].id) + 1)
<1>10. ASSUME NEW i \in 1 .. n, Told(i - 1) PROVE Told(i)
      <2>1. i - 1 \in 0 .. n /\ i \in 0 .. n
            BY <1>1
      <2>2. lists(i - 1) \in Seq(Seq(Byte)) /\ buffer(i - 1) \in Seq(Byte) /\ names[i] \in Seq(Byte)
            BY <1>2, <1>6, <2>1
      <2>3. FlattenSeq(lists(i - 1)) \in Seq(Byte)
            BY <2>2, FlattenSent
      <2>4. flat[i] = (FlattenSeq(lists(i - 1)) \o buffer(i - 1)) \o names[i]
            BY <1>4, <1>10
      <2>5. flat[i] = FlattenSeq(lists(i - 1)) \o more(i) /\ more(i) \in Seq(Byte)
            <3>1. more(i) \in Seq(Byte)
                  BY <2>2, ConcatProperties
            <3>2. (FlattenSeq(lists(i - 1)) \o buffer(i - 1)) \o names[i] = FlattenSeq(lists(i - 1)) \o more(i)
                  BY <2>2, <2>3, ThreeJoined, Zenon
            <3> HIDE DEF more
            <3> QED BY <2>4, <3>1, <3>2, Zenon
      <2> HIDE DEF more
      <2>6. CASE ListFull(array, i, more(i))
            <3>1. FlattenSeq(lists(i)) = FlattenSeq(lists(i - 1)) \o more(i)
                  <4>1. lists(i) = Append(lists(i - 1), more(i))
                        BY <1>7, <2>6
                  <4>2. FlattenSeq(Append(lists(i - 1), more(i))) = FlattenSeq(lists(i - 1)) \o more(i)
                        BY <2>2, <2>5, FlattenAppend
                  <4> QED BY <4>1, <4>2, Zenon
            <3>2. FlattenSeq(lists(i)) \in Seq(Byte)
                  BY <1>6, <2>1, FlattenSent
            <3>3. FlattenSeq(lists(i)) \o << >> = FlattenSeq(lists(i))
                  BY <3>2, ConcatEmptySeq
            <3>4. buffer(i) = << >>
                  BY <1>7, <2>6
            <3> QED BY <2>5, <3>1, <3>3, <3>4, Zenon
      <2>7. CASE ~ListFull(array, i, more(i))
            BY <1>7, <2>5, <2>7
      <2> QED BY <2>6, <2>7
<1>11. ASSUME NEW i \in 1 .. n, Ready(i - 1) PROVE Ready(i)
      <2>1. i - 1 \in 0 .. n /\ i \in 0 .. n /\ i - 1 < n /\ (i - 1) + 1 = i
            BY <1>1
      <2>2. lists(i - 1) \in Seq(Seq(Byte)) /\ buffer(i - 1) \in Seq(Byte)
            BY <1>6, <2>1
      <2>3. Packing(lists(i - 1), buffer(i - 1), Len(array[i].id) + 1) /\ Filled(lists(i - 1))
            BY <1>11, <2>1 DEF Packing
      <2>4. more(i) \in Seq(Byte) /\ Len(more(i)) \in 1..64 /\ Follow(lists(i - 1), more(i))
            <3>1. more(i) = buffer(i - 1) \o Append(array[i].id, 0)
                  BY <1>7
            <3>2. array[i].id \in Seq(Byte) /\ Terminated(array[i].id)
                  BY <1>2
            <3> HIDE DEF more
            <3> QED BY <2>2, <2>3, <3>1, <3>2, BufferTakes, Zenon
      <2> HIDE DEF more
      <2>5. ListFull(array, i, more(i)) <=> i = n \/ 64 - Len(array[i + 1].id) - 1 < Len(more(i))
            BY DEF ListFull, EUI_MAX_MSGID_SIZE, n
      <2>6. i < n => Len(array[i + 1].id) \in 1..15
            BY <1>1, <1>2, <2>1
      <2>7. Len(more(i)) \in Int /\ Len(more(i)) <= 64 /\ more(i) # << >>
            <3>1. Len(more(i)) # 0 /\ Len(more(i)) \in Int /\ Len(more(i)) <= 64
                  <4> DEFINE size == Len(more(i))
                  <4>1. size \in 1..64
                        BY <2>4
                  <4> HIDE DEF size
                  <4>2. size # 0 /\ size \in Int /\ size <= 64
                        BY <4>1
                  <4> QED BY <4>2 DEF size
            <3> QED BY <2>4, <3>1, EmptySeq
      <2>8. CASE ListFull(array, i, more(i))
            <3>1. lists(i) = Append(lists(i - 1), more(i)) /\ buffer(i) = << >>
                  BY <1>7, <2>8
            <3>2. Filled(lists(i)) /\ Last(lists(i)) = more(i)
                  BY <2>2, <2>3, <2>4, <2>7, <3>1, ListTakes, Zenon
            <3>3. ASSUME i < n PROVE Packing(lists(i), buffer(i), Len(array[i + 1].id) + 1)
                  <4>1. Len(more(i)) + (Len(array[i + 1].id) + 1) > 64
                        BY <2>5, <2>6, <2>7, <2>8, <3>3
                  <4>2. Len(buffer(i)) + (Len(array[i + 1].id) + 1) <= 64
                        <5>1. Len(buffer(i)) = 0
                              BY <3>1, EmptySeq
                        <5> QED BY <2>6, <3>3, <5>1, OneFits, Zenon
                  <4> QED BY <3>1, <3>2, <4>1, <4>2 DEF Packing
            <3> QED BY <3>1, <3>2, <3>3
      <2>9. CASE ~ListFull(array, i, more(i))
            <3>1. lists(i) = lists(i - 1) /\ buffer(i) = more(i)
                  BY <1>7, <2>9
            <3>2. i < n
                  BY <1>1, <2>5, <2>9
            <3>3. Len(more(i)) + (Len(array[i + 1].id) + 1) <= 64
                  BY <2>5, <2>6, <2>7, <2>9, <3>2
            <3>4. Packing(lists(i), buffer(i), Len(array[i + 1].id) + 1)
                  BY <2>3, <2>4, <2>7, <3>1, <3>3 DEF Packing
            <3> QED BY <2>3, <3>1, <3>2, <3>4
      <2> QED BY <2>8, <2>9
<1>12. Told(0)
      <2>1. FlattenSeq(<< >>) = << >>
            BY DEF FlattenSeq
      <2> QED BY <1>4, <1>8, <2>1
<1>13. Ready(0)
      <2>1. Filled(<< >>)
            BY DEF Filled
      <2>2. 0 < n => Packing(<< >>, << >>, Len(array[1].id) + 1)
            <3> SUFFICES ASSUME 0 < n PROVE Packing(<< >>, << >>, Len(array[1].id) + 1)
                  OBVIOUS
            <3>1. Len(array[1].id) \in 1..15
                  BY <1>1, <1>2
            <3>2. Len(<< >>) + (Len(array[1].id) + 1) <= 64
                  <4>1. Len(<< >>) = 0
                        OBVIOUS
                  <4> QED BY <3>1, <4>1, OneFits, Zenon
            <3> QED BY <2>1, <3>2, Zenon DEF Packing
      <2> QED BY <1>8, <2>1, <2>2
<1> HIDE DEF Told, Ready
<1>14. \A i \in 0 .. n : Told(i) /\ Ready(i)
      <2> DEFINE S == {i \in 0 .. n : Told(i) /\ Ready(i)}
      <2>1. 0 \in S
            BY <1>1, <1>12, <1>13
      <2>2. \A i \in 0 .. n - 1 : i \in S => i + 1 \in S
            <3> SUFFICES ASSUME NEW i \in 0 .. n - 1, Told(i), Ready(i) PROVE i + 1 \in S
                  OBVIOUS
            <3>1. i + 1 \in 1 .. n /\ i + 1 \in 0 .. n /\ (i + 1) - 1 = i
                  BY <1>1
            <3>2. Told(i + 1) /\ Ready(i + 1)
                  BY <1>10, <1>11, <3>1
            <3> QED BY <3>1, <3>2
      <2>3. 0 .. n \subseteq S
            <3>1. 0 \in Int /\ n \in Int /\ (0 <= n => 0 \in S)
                  BY <1>1, <2>1
            <3> HIDE DEF S
            <3> QED BY <2>2, <3>1, Climbs, Zenon
      <2> QED BY <2>3
<1>15. Told(n) /\ Ready(n)
      BY <1>1, <1>14
<1>16. buffer(n) = << >> /\ Filled(lists(n)) /\ FlattenSeq(lists(n)) \o buffer(n) = flat[n]
      BY <1>15 DEF Told, Ready
<1>17. FlattenSeq(lists(n)) = flat[n]
      <2>1. FlattenSeq(lists(n)) \in Seq(Byte)
            BY <1>9, FlattenSent
      <2>2. FlattenSeq(lists(n)) \o << >> = FlattenSeq(lists(n))
            BY <2>1, ConcatEmptySeq
      <2> QED BY <1>16, <2>2, Zenon
<1> QED BY <1>4, <1>9, <1>16, <1>17 DEF names

\* the packets of the handshake's first answer
ListMessage(data) == Simple(1, TYPE_CUSTOM, EUI_INTERNAL_AM_LIST, data)
CountMessage(n) == Simple(1, TYPE_UINT8, EUI_INTERNAL_AM_END, <<n % 256>>)

LEMMA ListMessageIs ==
    ASSUME NEW data \in Seq(Byte), Len(data) <= 64
    PROVE  LET m == ListMessage(data)
           IN  /\ m \in Framable /\ m.acknum = 0 /\ m.internal = 1
               /\ m.id = EUI_INTERNAL_AM_LIST /\ Len(m.id) = 1 /\ m.data = data
<1> DEFINE m == ListMessage(data)
<1>1. 1 \in Bit /\ TYPE_CUSTOM \in Bits4 /\ 117 \in Byte
      BY BitsDef, ByteDef DEF TYPE_CUSTOM
<1>2. EUI_INTERNAL_AM_LIST \in Seq(Byte) /\ Len(EUI_INTERNAL_AM_LIST) = 1
      BY <1>1 DEF EUI_INTERNAL_AM_LIST
<1>3. /\ m \in Message /\ m.acknum = 0 /\ m.offset = 0 /\ m.id = EUI_INTERNAL_AM_LIST /\ m.data = data
      BY <1>1, <1>2, SimpleIs DEF ListMessage
<1>4. m.internal = 1
      BY DEF ListMessage, Simple
<1> HIDE DEF m
<1>5. Small(m)
      BY <1>2, <1>3, SmallList
<1> QED BY <1>2, <1>3, <1>4, <1>5 DEF Framable, m

LEMMA CountMessageIs ==
    ASSUME NEW n \in Nat
    PROVE  LET m == CountMessage(n)
           IN  /\ m \in Framable /\ m.acknum = 0 /\ m.internal = 1
               /\ m.id = EUI_INTERNAL_AM_END /\ Len(m.id) = 1 /\ m.data = <<n % 256>>
<1> DEFINE m == CountMessage(n)
           data == <<n % 256>>
<1>1. 1 \in Bit /\ TYPE_UINT8 \in Bits4 /\ 118 \in Byte
      BY BitsDef, ByteDef DEF TYPE_UINT8
<1>2. EUI_INTERNAL_AM_END \in Seq(Byte) /\ Len(EUI_INTERNAL_AM_END) = 1
      BY <1>1 DEF EUI_INTERNAL_AM_END
<1>3. data \in Seq(Byte) /\ Len(data) = 1
      <2>1. n % 256 \in Byte
            BY ByteDef
      <2> QED BY <2>1
<1>4. /\ m \in Message /\ m.acknum = 0 /\ m.offset = 0 /\ m.id = EUI_INTERNAL_AM_END /\ m.data = data
      <2> HIDE DEF data
      <2>1. m = Simple(1, TYPE_UINT8, EUI_INTERNAL_AM_END, data)
            BY DEF CountMessage, data
      <2> HIDE DEF m
      <2> QED BY <1>1, <1>2, <1>3, <2>1, SimpleIs
<1>5. m.internal = 1
      BY DEF CountMessage, Simple
<1> HIDE DEF m, data
<1>6. Small(m)
      <2>1. Len(m.id) = 1 /\ Len(m.data) = 1
            BY <1>2, <1>3, <1>4, Zenon
      <2>2. \A k : k = 1 => k \in 1..15 /\ k <= 4
            OBVIOUS
      <2> QED BY <1>4, <2>1, <2>2, SmallFew, Zenon
<1> QED BY <1>2, <1>4, <1>5, <1>6 DEF Framable, m, data

\* The handshake sends on its link.
LEMMA AnnounceSent ==
    ASSUME NEW link, NEW array, KnownAll(array)
    PROVE  AnnounceDevMsg(link, array) \in Seq(Sent(link))
<1> DEFINE lists == IdLists(array)
           packets == [k \in DOMAIN lists |-> Encode(link, "msgBuffer", ListMessage(lists[k]))]
           closing == Encode(link, "num_writable", CountMessage(Len(array)))
<1>1. AnnounceDevMsg(link, array) = FlattenSeq(packets) \o closing
      BY DEF AnnounceDevMsg, ListMessage, CountMessage
<1>2. lists \in Seq(Seq(Byte)) /\ \A k \in 1 .. Len(lists) : Len(lists[k]) <= 64
      BY ListsPacked DEF Filled
<1> HIDE DEF lists
<1>3. \A i, id : Named(link, i, id) \subseteq Sent(link)
      BY DEF Named
<1>4. closing \in Seq(Sent(link))
      <2> DEFINE m == CountMessage(Len(array))
      <2>1. Len(array) \in Nat
            BY DEF KnownAll
      <2>2. m \in Framable /\ m.acknum = 0 /\ Len(m.id) \in 1..15
            BY <2>1, CountMessageIs
      <2> HIDE DEF m
      <2>3. closing \in Seq(Named(link, m.internal, m.id))
            BY <2>2, EncodeNamed DEF m
      <2> HIDE DEF closing
      <2> QED BY <1>3, <2>3
<1>5. packets \in Seq(Seq(Sent(link)))
      <2>1. ASSUME NEW k \in DOMAIN lists PROVE packets[k] \in Seq(Sent(link))
            <3> DEFINE m == ListMessage(lists[k])
            <3>1. lists[k] \in Seq(Byte) /\ Len(lists[k]) <= 64
                  BY <1>2
            <3>2. m \in Framable /\ m.acknum = 0 /\ Len(m.id) \in 1..15
                  BY <3>1, ListMessageIs
            <3>3. packets[k] = Encode(link, "msgBuffer", m)
                  OBVIOUS
            <3> HIDE DEF m, packets
            <3>4. packets[k] \in Seq(Named(link, m.internal, m.id))
                  BY <3>2, <3>3, EncodeNamed
            <3> QED BY <1>3, <3>4
      <2>2. packets = [k \in DOMAIN lists |-> packets[k]]
            OBVIOUS
      <2> HIDE DEF packets
      <2> QED BY <1>2, <2>1, <2>2, Mapped, Zenon
<1> HIDE DEF packets, closing
<1> QED BY <1>1, <1>4, <1>5, FlattenSent, ConcatProperties

\* An open link carries every list, then the number of variables.
LEMMA AnnounceIs ==
    ASSUME NEW link, link \notin Mute \cup {NoLink}, NEW array, KnownAll(array)
    PROVE  LET lists == IdLists(array)
               n     == Len(lists)
               out   == AnnounceDevMsg(link, array)
           IN  /\ DOMAIN out = 1 .. n + 1
               /\ \A k \in 1 .. n : out[k].message = ListMessage(lists[k])
               /\ out[n + 1].message = CountMessage(Len(array))
<1> DEFINE lists == IdLists(array)
           n == Len(lists)
           single == [k \in DOMAIN lists |-> [link |-> link, message |-> ListMessage(lists[k])]]
           packets == [k \in DOMAIN lists |-> Encode(link, "msgBuffer", ListMessage(lists[k]))]
           last == [link |-> link, message |-> CountMessage(Len(array))]
           closing == Encode(link, "num_writable", CountMessage(Len(array)))
<1>1. AnnounceDevMsg(link, array) = FlattenSeq(packets) \o closing
      BY DEF AnnounceDevMsg, ListMessage, CountMessage
<1>2. lists \in Seq(Seq(Byte)) /\ \A k \in 1 .. Len(lists) : Len(lists[k]) <= 64
      BY ListsPacked DEF Filled
<1> HIDE DEF lists
<1>3. n \in Nat /\ DOMAIN lists = 1 .. n
      BY <1>2
<1>4. closing = <<last>>
      <2> DEFINE m == CountMessage(Len(array))
      <2>1. Len(array) \in Nat
            BY DEF KnownAll
      <2>2. m \in Message /\ Len(m.id) \in 1..15
            BY <2>1, CountMessageIs DEF Framable
      <2> HIDE DEF m
      <2>3. Encode(link, "num_writable", m) = <<[link |-> link, message |-> m]>>
            BY <2>2, EncodeWhole DEF Null
      <2> QED BY <2>3 DEF m
<1>5. packets = [k \in DOMAIN lists |-> <<single[k]>>]
      <2> SUFFICES ASSUME NEW k \in DOMAIN lists
                   PROVE  Encode(link, "msgBuffer", ListMessage(lists[k]))
                              = <<[link |-> link, message |-> ListMessage(lists[k])]>>
            OBVIOUS
      <2> DEFINE m == ListMessage(lists[k])
      <2>1. lists[k] \in Seq(Byte) /\ Len(lists[k]) <= 64
            BY <1>2
      <2>2. m \in Message /\ Len(m.id) \in 1..15
            BY <2>1, ListMessageIs DEF Framable
      <2> HIDE DEF m
      <2>3. Encode(link, "msgBuffer", m) = <<[link |-> link, message |-> m]>>
            BY <2>2, EncodeWhole DEF Null
      <2> QED BY <2>3 DEF m
<1> DEFINE S == {single[k] : k \in DOMAIN lists} \cup {last}
<1>6. single \in Seq(S) /\ Len(single) = n /\ last \in S
      BY <1>3
<1>7. \A k \in 1 .. n : single[k].message = ListMessage(lists[k])
      BY <1>3
<1>8. last.message = CountMessage(Len(array))
      OBVIOUS
<1> HIDE DEF S, closing, last
<1>9. FlattenSeq(packets) = single
      <2>1. packets = [k \in DOMAIN single |-> <<single[k]>>]
            BY <1>5
      <2> HIDE DEF packets, single
      <2> QED BY <1>6, <2>1, FlattenSingles
<1> HIDE DEF packets, single, n
<1> DEFINE out == AnnounceDevMsg(link, array)
<1>10. out = single \o <<last>> /\ <<last>> \in Seq(S) /\ Len(<<last>>) = 1 /\ <<last>>[1] = last
      BY <1>1, <1>4, <1>6, <1>9
<1>11. /\ Len(out) = n + 1 /\ DOMAIN out = 1 .. n + 1
       /\ \A k \in 1 .. n + 1 : out[k] = IF k <= n THEN single[k] ELSE <<last>>[k - n]
      <2> DEFINE one == <<last>>
      <2>1. one \in Seq(S) /\ Len(one) = 1 /\ out = single \o one
            BY <1>10
      <2> HIDE DEF one, out
      <2>2. /\ out \in Seq(S) /\ Len(out) = Len(single) + Len(one)
            /\ \A k \in 1 .. Len(single) + Len(one) :
                  out[k] = IF k <= Len(single) THEN single[k] ELSE one[k - Len(single)]
            BY <1>6, <2>1, ConcatProperties
      <2>3. DOMAIN out = 1 .. Len(out)
            BY <2>2
      <2> QED BY <1>6, <2>1, <2>2, <2>3 DEF one
<1> HIDE DEF out
<1>12. \A k \in 1 .. n : out[k] = single[k]
      BY <1>3, <1>11
<1>13. out[n + 1] = last
      BY <1>3, <1>10, <1>11
<1> QED BY <1>7, <1>8, <1>11, <1>12, <1>13 DEF out, n, lists

\* Lists of objects that are sent one by one.
LEMMA ObjectsSent ==
    ASSUME NEW link, NEW objects \in Seq(Objects), \A k \in DOMAIN objects : Reachable(objects[k]),
           NEW mem, Typed(mem)
    PROVE  LET out == FlattenSeq([k \in DOMAIN objects |-> EuiSend(link, objects[k], 0, mem)])
           IN  out \in Seq(Sent(link)) /\ Ordinary(out)
<1> DEFINE packets == [k \in DOMAIN objects |-> EuiSend(link, objects[k], 0, mem)]
<1>1. \A k \in DOMAIN objects : packets[k] \in Seq(Plain(link))
      BY SendPlain
<1>2. packets = [k \in DOMAIN objects |-> packets[k]]
      OBVIOUS
<1> HIDE DEF packets
<1>3. packets \in Seq(Seq(Plain(link)))
      BY <1>1, <1>2, Mapped, Zenon
<1>4. FlattenSeq(packets) \in Seq(Plain(link))
      BY <1>3, FlattenSent
<1>5. FlattenSeq(packets) \in Seq(Sent(link)) /\ Ordinary(FlattenSeq(packets))
      BY <1>4, PlainSent, Zenon
<1> QED BY <1>5 DEF packets

\* Whatever the application hands over is of that kind.
LEMMA KnownIsReachable == ASSUME NEW obj, Known(obj) PROVE Reachable(obj)
BY DEF Known, Reachable, Callbacks

LEMMA TrackedIs ==
    ASSUME dev_tracked \in Arrays \cup {<< >>}
    PROVE  dev_tracked \in Seq(Objects) /\ \A k \in DOMAIN dev_tracked : Known(dev_tracked[k])
<1>1. CASE dev_tracked = << >>
      BY <1>1
<1>2. CASE dev_tracked \in Arrays
      BY <1>2, ObjectsAssumption DEF KnownAll
<1> QED BY <1>1, <1>2

LEMMA ReportSent ==
    ASSUME NEW link, NEW mem, Typed(mem),
           NEW code \in {"EUI_CB_TRACKED", "EUI_CB_UNTRACKED", "EUI_CB_PARSE_FAIL"}
    PROVE  Report(link, code, mem) \in Seq(Sent(link)) /\ Ordinary(Report(link, code, mem))
<1>1. Reports[code] \in Seq(Objects) /\ \A k \in DOMAIN Reports[code] : Reachable(Reports[code][k])
      BY ObjectsAssumption, KnownIsReachable DEF KnownAll
<1> QED BY <1>1, ObjectsSent DEF Report

-----------------------------------------------------------------------------
(* Operators of handle_packet_action *)

LEMMA BytesIndexed == ASSUME NEW bytes \in Seq(Byte) PROVE DOMAIN bytes \subseteq Int
    BY SMT

LEMMA IntervalIsInt == ASSUME NEW top \in Int PROVE 0 .. top \subseteq Int
    BY SMT

LEMMA MessageIs ==
    ASSUME NEW m \in Inbound
    PROVE  m.offset_in \in Int /\ Len(m.data) \in Nat /\ DOMAIN m.data = 1 .. Len(m.data)
<1>1. m \in Message
      BY InboundAssumption DEF Sendable
<1>2. m.offset_in \in Word /\ m.data \in Seq(Byte)
      BY <1>1 DEF Message
<1>3. m.offset_in \in Int
      <2> DEFINE top == 65535
      <2>1. Word = 0 .. top
            BY DEF Word
      <2>2. top \in Int
            BY SMT
      <2> HIDE DEF top
      <2> QED BY <1>2, <2>1, <2>2, IntervalIsInt, Zenon
<1> QED BY <1>2, <1>3, SMT

\* memcpy leaves the bytes outside the payload alone
LEMMA StoreIs ==
    ASSUME NEW bytes, NEW m \in Inbound, DOMAIN bytes \subseteq Int
    PROVE  /\ DOMAIN Store(bytes, m.offset_in, m.data) = DOMAIN bytes
           /\ \A n \in DOMAIN bytes :
                 Store(bytes, m.offset_in, m.data)[n] # bytes[n] =>
                     n \in m.offset_in + 1 .. m.offset_in + Len(m.data)
<1>1. DOMAIN Store(bytes, m.offset_in, m.data) = DOMAIN bytes
      BY DEF Store
<1>2. ASSUME NEW n \in DOMAIN bytes, Store(bytes, m.offset_in, m.data)[n] # bytes[n]
      PROVE  n \in m.offset_in + 1 .. m.offset_in + Len(m.data)
      <2>1. n - m.offset_in \in DOMAIN m.data
            BY <1>2, Zenon DEF Store
      <2>2. n - m.offset_in \in 1 .. Len(m.data) /\ n \in Int
            BY <2>1, MessageIs
      <2> QED BY <2>2, MessageIs, SMT
<1> QED BY <1>1, <1>2

-----------------------------------------------------------------------------
(* handle_packet_action *)

\* what it leaves of the memory
MemoryAfter(action, m, obj) ==
    /\ DOMAIN action.memory = DOMAIN memory
    /\ Indexed(action.memory)
    /\ \A v \in DOMAIN memory : \A n \in DOMAIN memory[v] :
          action.memory[v][n] # memory[v][n] =>
              \/ n \in Addressed(m, obj, v)
              \/ \E k \in DOMAIN action.called : v \in DOMAIN Functions[action.called[k]].stores

LEMMA SameMemory ==
    ASSUME MemoryInv, NEW action, NEW m, NEW obj, action.memory = memory
    PROVE  MemoryAfter(action, m, obj)
    BY DEF MemoryInv, MemoryAfter

\* a callback of the application changes what it stores
LEMMA FunctionStores ==
    ASSUME MemoryInv, NEW auto, NEW m, NEW obj, obj.ptr \in DOMAIN Functions
    PROVE  MemoryAfter(RunFunction(auto, obj.ptr, dev_tracked, memory), m, obj)
<1> DEFINE action == RunFunction(auto, obj.ptr, dev_tracked, memory)
           stores == Functions[obj.ptr].stores
<1>1. action.memory = [v \in DOMAIN memory |-> IF v \in DOMAIN stores THEN stores[v] ELSE memory[v]]
      BY DEF RunFunction, Effect
<1>2. action.called = <<obj.ptr>>
      BY DEF RunFunction, Effect
<1>3. \A v \in DOMAIN stores : DOMAIN stores[v] \subseteq Int
      BY BytesIndexed, FunctionsAssumption DEF Fits
<1>4. Indexed(action.memory)
      BY <1>1, <1>3 DEF Indexed, MemoryInv
<1>5. \A v \in DOMAIN memory : v \notin DOMAIN stores => action.memory[v] = memory[v]
      BY <1>1
<1>6. 1 \in DOMAIN action.called /\ action.called[1] = obj.ptr
      BY <1>2
<1>7. DOMAIN action.memory = DOMAIN memory
      BY <1>1
<1>8. ASSUME NEW v \in DOMAIN stores
      PROVE  \E k \in DOMAIN action.called : v \in DOMAIN Functions[action.called[k]].stores
      <2> HIDE DEF action
      <2> QED BY <1>6, Zenon
<1>9. MemoryAfter(action, m, obj)
      <2> HIDE DEF action, stores
      <2> QED BY <1>4, <1>5, <1>7, <1>8, Zenon DEF MemoryAfter
<1> QED BY <1>9

\* a write changes the bytes it addresses
LEMMA WriteStores ==
    ASSUME MemoryInv, NEW m \in Inbound, NEW obj, NEW action,
           ~obj.read_only, m.type = obj.type,
           action.memory = [memory EXCEPT ![obj.ptr] = Store(@, m.offset_in, m.data)]
    PROVE  MemoryAfter(action, m, obj)
<1>1. DOMAIN action.memory = DOMAIN memory
      OBVIOUS
<1>2. \A v \in DOMAIN memory :
          action.memory[v] = IF v = obj.ptr THEN Store(memory[v], m.offset_in, m.data)
                             ELSE memory[v]
      OBVIOUS
<1>3. \A v \in DOMAIN memory : DOMAIN memory[v] \subseteq Int
      BY DEF MemoryInv, Indexed
<1>4. Indexed(action.memory)
      BY <1>1, <1>2, <1>3, StoreIs DEF Indexed
<1>5. ASSUME NEW v \in DOMAIN memory, NEW n \in DOMAIN memory[v],
             action.memory[v][n] # memory[v][n]
      PROVE  n \in Addressed(m, obj, v)
      <2>1. v = obj.ptr /\ Store(memory[v], m.offset_in, m.data)[n] # memory[v][n]
            BY <1>2, <1>5
      <2>2. n \in m.offset_in + 1 .. m.offset_in + Len(m.data)
            BY <1>3, <2>1, StoreIs
      <2> QED BY <2>1, <2>2 DEF Addressed
<1> QED BY <1>1, <1>4, <1>5 DEF MemoryAfter

\* the library's callbacks store nothing, the application's what they are said to
LEMMA CallbackStores ==
    ASSUME MemoryInv, NEW auto, NEW m, NEW obj,
           obj.ptr \in DOMAIN Functions \/ obj.ptr \in {"announce_dev_msg", "send_tracked_variables"}
    PROVE  MemoryAfter(RunCallback(auto, obj.ptr, dev_tracked, memory), m, obj)
<1>1. CASE obj.ptr \in {"announce_dev_msg", "send_tracked_variables"}
      <2>1. RunCallback(auto, obj.ptr, dev_tracked, memory).memory = memory
            BY <1>1 DEF RunCallback, Effect
      <2> QED BY <2>1, SameMemory
<1>2. CASE obj.ptr \notin {"announce_dev_msg", "send_tracked_variables"}
      <2>1. RunCallback(auto, obj.ptr, dev_tracked, memory)
                = RunFunction(auto, obj.ptr, dev_tracked, memory)
            BY <1>2 DEF RunCallback
      <2> QED BY <1>2, <2>1, FunctionStores
<1> QED BY <1>1, <1>2

LEMMA ActionStores ==
    ASSUME MemoryInv, NEW auto, NEW m \in Inbound, NEW counted \in Counts(m), NEW obj,
           obj.type = TYPE_CALLBACK /\ obj.ptr # Null =>
               \/ obj.ptr \in DOMAIN Functions
               \/ obj.ptr \in {"announce_dev_msg", "send_tracked_variables"}
    PROVE  MemoryAfter(HandlePacketAction(auto, m, counted, obj, dev_tracked, memory), m, obj)
<1> DEFINE action == HandlePacketAction(auto, m, counted, obj, dev_tracked, memory)
<1>1. CASE obj.type # m.type
      <2>1. action.memory = memory
            BY <1>1 DEF HandlePacketAction, Effect
      <2> QED BY <2>1, SameMemory
<1>2. CASE obj.type = m.type /\ obj.type = TYPE_CALLBACK
      <2>1. CASE (m.response = 1) = (m.acknum # 0) /\ obj.ptr # Null
            <3>1. action = RunCallback(auto, obj.ptr, dev_tracked, memory)
                  BY <1>2, <2>1 DEF HandlePacketAction
            <3> QED BY <1>2, <2>1, <3>1, CallbackStores
      <2>2. CASE ~((m.response = 1) = (m.acknum # 0) /\ obj.ptr # Null)
            <3>1. action.memory = memory
                  BY <1>2, <2>2 DEF HandlePacketAction, Effect
            <3> QED BY <3>1, SameMemory
      <2> QED BY <2>1, <2>2
<1>3. CASE obj.type = m.type /\ obj.type # TYPE_CALLBACK
      <2>1. CASE counted /\ MayWrite(m, obj)
            <3>1. action.memory = [memory EXCEPT ![obj.ptr] = Store(@, m.offset_in, m.data)]
                  BY <1>3, <2>1 DEF HandlePacketAction, Effect
            <3>2. ~obj.read_only
                  BY <2>1 DEF MayWrite
            <3>3. MemoryAfter(action, m, obj)
                  <4> HIDE DEF action
                  <4> QED BY <1>3, <3>1, <3>2, WriteStores
            <3> QED BY <3>3
      <2>2. CASE ~(counted /\ MayWrite(m, obj))
            <3>1. action.memory = memory
                  BY <1>3, <2>2 DEF HandlePacketAction, Effect
            <3> QED BY <3>1, SameMemory
      <2> QED BY <2>1, <2>2
<1> QED BY <1>1, <1>2, <1>3

-----------------------------------------------------------------------------
(* Steps *)

\* what OnlyAddressedBytes says of a step
OnlyAddressedOnce ==
    call'.op = "eui_parse" =>
        /\ SumsHold => call'.behind = {}
        /\ \A v \in DOMAIN memory : \A n \in DOMAIN memory[v] :
            memory'[v][n] # memory[v][n] =>
                \/ /\ Target' # << >> /\ Target'[1].ptr = v /\ ~Target'[1].read_only
                   /\ LET m == call'.message[1]
                      IN  m.type = Target'[1].type
                          /\ n \in m.offset_in + 1 .. m.offset_in + Len(m.data)
                \/ \E k \in DOMAIN call'.called : v \in DOMAIN Functions[call'.called[k]].stores

\* an object of the library or of the application has a callback that is known
LEMMA CallbackIsKnown ==
    ASSUME MemoryInv, NEW m \in Inbound,
           FindMessageObject(Namespace(m.internal), m.id) # << >>
    PROVE  LET obj == FindMessageObject(Namespace(m.internal), m.id)[1]
           IN  obj.type = TYPE_CALLBACK /\ obj.ptr # Null =>
                   \/ obj.ptr \in DOMAIN Functions
                   \/ obj.ptr \in {"announce_dev_msg", "send_tracked_variables"}
<1> DEFINE array == Namespace(m.internal)
           obj   == FindMessageObject(array, m.id)[1]
<1>0. ASSUME DOMAIN array \subseteq Nat
      PROVE  \E k \in DOMAIN array : obj = array[k]
      <2>1. FindMessageObject(array, m.id) # << >>
            OBVIOUS
      <2> HIDE DEF array
      <2> QED BY <1>0, <2>1, FoundIsListed
<1>1. CASE m.internal = 1
      <2>1. array = internal_msg_store
            BY <1>1 DEF Namespace
      <2>2. DOMAIN internal_msg_store = 1..5
            BY SMT DEF internal_msg_store
      <2>3. PICK k \in 1..5 : obj = internal_msg_store[k]
            <3>1. DOMAIN array \subseteq Nat
                  BY <2>1, <2>2
            <3> QED BY <1>0, <2>1, <2>2, <3>1
      <2>4. \A j \in 1..5 : internal_msg_store[j].type = TYPE_CALLBACK =>
                internal_msg_store[j].ptr \in {"announce_dev_msg", "send_tracked_variables"}
            BY SMT DEF internal_msg_store, Obj, TYPE_CALLBACK, TYPE_UINT8, TYPE_UINT16
      <2> QED BY <2>3, <2>4
<1>2. CASE m.internal # 1
      <2>1. array = dev_tracked
            BY <1>2 DEF Namespace
      <2>2. dev_tracked \in Arrays
            <3>1. dev_tracked # << >>
                  <4>1. FindMessageObject(<< >>, m.id) = << >>
                        BY DEF FindMessageObject
                  <4> QED BY <2>1, <4>1
            <3> QED BY <3>1 DEF MemoryInv
      <2>3. DOMAIN array \subseteq Nat
            BY <2>1, <2>2, ObjectsAssumption DEF KnownAll
      <2>4. PICK k \in DOMAIN array : obj = array[k]
            BY <1>0, <2>3
      <2> QED BY <2>1, <2>2, <2>4, ObjectsAssumption DEF KnownAll, Known
<1> QED BY <1>1, <1>2

\* what fits in a variable is not stored behind it
LEMMA NoneBehind ==
    ASSUME SumsHold, NEW m \in Inbound, NEW obj, Reachable(obj) PROVE Behind(m, obj) = {}
<1> SUFFICES ASSUME m.type = obj.type, m.type # TYPE_CALLBACK, MayWrite(m, obj),
                    NEW n \in m.offset_in + 1 .. m.offset_in + Len(m.data)
             PROVE  ~(n > Size(obj))
      BY DEF Behind
<1>1. m.offset_in \in Int /\ Len(m.data) \in Nat
      BY MessageIs
<1>2. Size(obj) \in Int
      BY SizeIs, MemoryTyped, WordDef
<1>3. m.offset_in + Len(m.data) <= Size(obj)
      BY DEF MayWrite, SumsHold
<1> QED BY <1>1, <1>2, <1>3

LEMMA ParseStores ==
    ASSUME MemoryInv, NEW link, NEW m \in Inbound, NEW counted \in Counts(m),
           EuiParseOk(link, m, counted)
    PROVE  MemoryInv' /\ OnlyAddressedOnce
<1> DEFINE found  == FindMessageObject(Namespace(m.internal), m.id)
           obj    == found[1]
           action == HandlePacketAction(AutoInterface(link), m, counted, obj, dev_tracked, memory)
<1>1. CASE found # << >>
      <2>1. memory' = action.memory /\ dev_tracked' = dev_tracked
            BY <1>1 DEF EuiParseOk
      <2>2. /\ call'.message = <<m>> /\ call'.called = action.called
            /\ call'.behind = Behind(m, obj)
            BY <1>1 DEF EuiParseOk, Call
      <2>3. MemoryAfter(action, m, obj)
            <3>1. obj.type = TYPE_CALLBACK /\ obj.ptr # Null =>
                      \/ obj.ptr \in DOMAIN Functions
                      \/ obj.ptr \in {"announce_dev_msg", "send_tracked_variables"}
                  BY <1>1, CallbackIsKnown
            <3> HIDE DEF obj
            <3> QED BY <3>1, ActionStores
      <2>4. Target' = found /\ call'.message[1] = m
            BY <2>1, <2>2 DEF Target, Namespace
      <2>behind. SumsHold => call'.behind = {}
            <3>1. Reachable(obj)
                  BY <1>1, FoundIsReachable DEF MemoryInv
            <3> HIDE DEF obj
            <3> QED BY <2>2, <3>1, NoneBehind
      <2> HIDE DEF action, found
      <2>5. MemoryInv'
            BY <2>1, <2>3 DEF MemoryInv, MemoryAfter
      <2>6. OnlyAddressedOnce
            BY <1>1, <2>1, <2>2, <2>3, <2>4, <2>behind DEF OnlyAddressedOnce, MemoryAfter, Addressed
      <2> QED BY <2>5, <2>6
<1>2. CASE found = << >>
      <2>1. memory' = memory /\ dev_tracked' = dev_tracked /\ call'.behind = {}
            BY <1>2 DEF EuiParseOk, Call
      <2> QED BY <2>1 DEF MemoryInv, Indexed, OnlyAddressedOnce
<1> QED BY <1>1, <1>2

LEMMA ErrorStores == ASSUME MemoryInv, NEW link, EuiParseError(link) PROVE MemoryInv' /\ OnlyAddressedOnce
<1>1. memory' = memory /\ dev_tracked' = dev_tracked /\ call'.behind = {}
      BY DEF EuiParseError, Call
<1> QED BY <1>1 DEF MemoryInv, Indexed, OnlyAddressedOnce

\* the application's calls are no packets
LEMMA ApplicationStores ==
    ASSUME MemoryInv, Application PROVE MemoryInv' /\ call'.op # "eui_parse"
<1>1. ASSUME NEW op, NEW link, NEW found, op # "eui_parse", Send(op, link, found)
      PROVE  MemoryInv' /\ call'.op # "eui_parse"
      <2>1. memory' = memory /\ dev_tracked' = dev_tracked /\ call'.op = op
            BY <1>1 DEF Send, Call
      <2> QED BY <1>1, <2>1 DEF MemoryInv, Indexed
<1>2. ASSUME NEW id, EuiSendTracked(id) PROVE MemoryInv' /\ call'.op # "eui_parse"
      BY <1>1, <1>2 DEF EuiSendTracked
<1>3. ASSUME NEW id, NEW link, EuiSendTrackedOn(id, link)
      PROVE  MemoryInv' /\ call'.op # "eui_parse"
      BY <1>1, <1>3 DEF EuiSendTrackedOn
<1>4. ASSUME NEW obj, EuiSendUntracked(obj) PROVE MemoryInv' /\ call'.op # "eui_parse"
      BY <1>1, <1>4 DEF EuiSendUntracked
<1>5. ASSUME NEW obj, NEW link, EuiSendUntrackedOn(obj, link)
      PROVE  MemoryInv' /\ call'.op # "eui_parse"
      BY <1>1, <1>5 DEF EuiSendUntrackedOn
<1>6. ASSUME NEW update \in Updates, AppStore(update[1], update[2])
      PROVE  MemoryInv' /\ call'.op # "eui_parse"
      <2>1. DOMAIN update[2] \subseteq Int
            BY BytesIndexed, MemoryAssumption DEF Fits
      <2>2. /\ memory' = [memory EXCEPT ![update[1]] = update[2]]
            /\ dev_tracked' = dev_tracked /\ call'.op = "none"
            BY <1>6 DEF AppStore, Call
      <2>3. Indexed(memory')
            BY <2>1, <2>2 DEF MemoryInv, Indexed
      <2> QED BY <2>2, <2>3 DEF MemoryInv, Indexed
<1> QED BY <1>2, <1>3, <1>4, <1>5, <1>6 DEF Application

LEMMA SetupStores ==
    ASSUME MemoryInv, Setup PROVE MemoryInv' /\ call'.op # "eui_parse"
<1>1. CASE EuiSetupInterfaces \/ EuiClearInterfaces
      <2>1. /\ memory' = memory /\ dev_tracked' = dev_tracked
            /\ call'.op = "eui_setup_interfaces"
            BY <1>1 DEF EuiSetupInterfaces, EuiClearInterfaces, Call
      <2> QED BY <2>1 DEF MemoryInv, Indexed
<1>2. ASSUME NEW array \in Arrays \cup {<< >>}, EuiSetupTracked(array)
      PROVE  MemoryInv' /\ call'.op # "eui_parse"
      <2>1. memory' = memory /\ dev_tracked' = array /\ call'.op = "eui_setup_tracked"
            BY <1>2 DEF EuiSetupTracked, Call
      <2> QED BY <1>2, <2>1 DEF MemoryInv, Indexed
<1>3. ASSUME NEW uuid, EuiSetupIdentifier(uuid) PROVE MemoryInv' /\ call'.op # "eui_parse"
      <2>1. \E bytes : /\ DOMAIN bytes \subseteq Int
                       /\ memory' = [memory EXCEPT !["board_identifier"] = bytes]
            <3>1. \A n : DOMAIN LittleEndian(n) \subseteq Int
                  BY DEF LittleEndian
            <3>2. DOMAIN <<0, 0>> \subseteq Int
                  OBVIOUS
            <3> QED BY <1>3, <3>1, <3>2, Zenon DEF EuiSetupIdentifier
      <2>2. dev_tracked' = dev_tracked /\ call'.op = "eui_setup_identifier"
            BY <1>3 DEF EuiSetupIdentifier, Call
      <2>3. Indexed(memory')
            BY <2>1 DEF MemoryInv, Indexed
      <2> QED BY <2>2, <2>3 DEF MemoryInv, Indexed
<1> QED BY <1>1, <1>2, <1>3 DEF Setup

LEMMA StepStores ==
    MemoryInv /\ [Next]_vars => MemoryInv' /\ [OnlyAddressedOnce]_vars
<1> SUFFICES ASSUME MemoryInv, [Next]_vars PROVE MemoryInv' /\ [OnlyAddressedOnce]_vars
      OBVIOUS
<1>1. CASE Inputs
      BY <1>1, ParseStores, ErrorStores DEF Inputs
<1>2. CASE Application \/ Setup
      BY <1>2, ApplicationStores, SetupStores DEF OnlyAddressedOnce
<1>3. CASE UNCHANGED vars
      BY <1>3 DEF vars, MemoryInv, Indexed
<1> QED BY <1>1, <1>2, <1>3 DEF Next

LEMMA InitStores == Init => MemoryInv
<1>1. Indexed(Memory)
      BY BytesIndexed, MemoryAssumption DEF Indexed, Fits
<1> QED BY <1>1 DEF Init, MemoryInv, Indexed

\* Whatever packets arrive on whichever links, between whatever calls of the application:
\* a step of eui_parse changes only the addressed bytes of a writable variable of the
\* packet's name, namespace and type, or what the callback it calls stores:
\* handle_packet_action.  It needs that the sums of the bounds check do not wrap: every
\* packet where int has 32 bits, on the 16 bit boards the packets of SumsHold.
THEOREM OnlyAddressed == ASSUME SumsHold PROVE Spec => OnlyAddressedBytes
<1> DEFINE Strictly ==
        call'.op = "eui_parse" =>
            /\ call'.behind = {}
            /\ \A v \in DOMAIN memory : \A n \in DOMAIN memory[v] :
                memory'[v][n] # memory[v][n] =>
                    \/ /\ Target' # << >> /\ Target'[1].ptr = v /\ ~Target'[1].read_only
                       /\ LET m == call'.message[1]
                          IN  m.type = Target'[1].type
                              /\ n \in m.offset_in + 1 .. m.offset_in + Len(m.data)
                    \/ \E k \in DOMAIN call'.called : v \in DOMAIN Functions[call'.called[k]].stores
<1>1. MemoryInv /\ [Next]_vars => MemoryInv' /\ [Strictly]_vars
      BY StepStores DEF OnlyAddressedOnce
<1> HIDE DEF Strictly
<1>2. Spec => [][Strictly]_vars
      BY <1>1, InitStores, PTL DEF Spec
<1> QED BY <1>2 DEF OnlyAddressedBytes, Strictly

-----------------------------------------------------------------------------
(* What handle_packet_action does, and what it sends                           *)

\* the packets on a link, acknowledgements included
OnLink(link) ==
    IF link \in Mute \cup {NoLink} THEN {} ELSE [link : {link}, message : Framable]

Tracked == dev_tracked \in Arrays \cup {<< >>}

LEMMA SentOnLink == ASSUME NEW link PROVE Sent(link) \subseteq OnLink(link)
BY DEF Sent, OnLink

\* A callback of the application leaves every variable a value of its size, those it stores
\* the stored one, and sends on auto_output.
LEMMA FunctionIs ==
    ASSUME Tracked, NEW mem, Typed(mem), NEW link, NEW ptr \in DOMAIN Functions
    PROVE  LET effect == RunFunction(link, ptr, dev_tracked, mem)
           IN  /\ effect.status = EUI_ACTION_OK /\ effect.called = <<ptr>>
               /\ Typed(effect.memory) /\ effect.output \in Seq(Sent(link)) /\ Ordinary(effect.output)
               /\ \A v \in DOMAIN Functions[ptr].stores : effect.memory[v] = Functions[ptr].stores[v]
<1> DEFINE code   == Functions[ptr]
           after  == [v \in DOMAIN mem |-> IF v \in DOMAIN code.stores THEN code.stores[v] ELSE mem[v]]
           named  == [k \in DOMAIN code.sends |-> FindMessageObject(dev_tracked, code.sends[k])]
           packets == [k \in DOMAIN named |->
                          IF named[k] = << >> THEN << >> ELSE EuiSend(link, named[k][1], 0, after)]
<1>1. RunFunction(link, ptr, dev_tracked, mem)
          = Effect(EUI_ACTION_OK, FlattenSeq(packets), <<ptr>>, after)
      BY Zenon DEF RunFunction
<1>2. /\ \A v \in DOMAIN code.stores : Fits(v, code.stores[v])
      /\ code.sends \in Seq(Seq(Byte))
      BY FunctionsAssumption
<1>3. Typed(after)
      BY <1>2 DEF Typed
<1>4. \A v \in DOMAIN code.stores : after[v] = code.stores[v]
      BY <1>2 DEF Typed, Fits
<1> HIDE DEF after, code
<1>5. ASSUME NEW k \in DOMAIN code.sends PROVE packets[k] \in Seq(Plain(link))
      <2>1. named[k] # << >> => Reachable(named[k][1])
            <3>1. Namespace(0) = dev_tracked /\ named[k] = FindMessageObject(dev_tracked, code.sends[k])
                  BY DEF Namespace
            <3> HIDE DEF named
            <3> QED BY <3>1, FoundIsReachable DEF Tracked
      <2>2. packets[k] = IF named[k] = << >> THEN << >> ELSE EuiSend(link, named[k][1], 0, after)
            OBVIOUS
      <2> HIDE DEF packets, named
      <2>3. CASE named[k] = << >>
            BY <2>2, <2>3
      <2>4. CASE named[k] # << >>
            BY <1>3, <2>1, <2>2, <2>4, SendPlain
      <2> QED BY <2>3, <2>4
<1>6. packets = [k \in DOMAIN code.sends |-> packets[k]]
      OBVIOUS
<1>7. FlattenSeq(packets) \in Seq(Sent(link)) /\ Ordinary(FlattenSeq(packets))
      <2> HIDE DEF packets
      <2>1. packets \in Seq(Seq(Plain(link)))
            BY <1>2, <1>5, <1>6, Mapped, Zenon
      <2>2. FlattenSeq(packets) \in Seq(Plain(link))
            BY <2>1, FlattenSent
      <2> QED BY <2>2, PlainSent, Zenon
<1> HIDE DEF packets
<1> QED BY <1>1, <1>3, <1>4, <1>7 DEF Effect, code

\* So do the library's own, which store nothing.
LEMMA CallbackIs ==
    ASSUME Tracked, NEW mem, Typed(mem), NEW link, NEW ptr \in Callbacks, ptr # Null
    PROVE  LET effect == RunCallback(link, ptr, dev_tracked, mem)
           IN  /\ effect.status = EUI_ACTION_OK /\ effect.called = <<ptr>>
               /\ Typed(effect.memory) /\ effect.output \in Seq(Sent(link))
               /\ ptr \in DOMAIN Functions => effect = RunFunction(link, ptr, dev_tracked, mem)
               /\ IF ptr = "announce_dev_msg" THEN effect.output = AnnounceDevMsg(link, dev_tracked)
                  ELSE Ordinary(effect.output)
<1>1. /\ dev_tracked \in Seq(Objects) /\ \A k \in DOMAIN dev_tracked : Reachable(dev_tracked[k])
      /\ KnownAll(dev_tracked)
      BY TrackedIs, KnownIsReachable DEF Tracked, KnownAll
<1>2. CASE ptr = "announce_dev_msg"
      <2>1. RunCallback(link, ptr, dev_tracked, mem)
                = Effect(EUI_ACTION_OK, AnnounceDevMsg(link, dev_tracked), <<ptr>>, mem)
            BY <1>2 DEF RunCallback
      <2>2. AnnounceDevMsg(link, dev_tracked) \in Seq(Sent(link))
            BY <1>1, AnnounceSent
      <2> QED BY <1>2, <2>1, <2>2, FunctionsAssumption DEF Effect
<1>3. CASE ptr = "send_tracked_variables"
      <2>1. RunCallback(link, ptr, dev_tracked, mem)
                = Effect(EUI_ACTION_OK, SendTrackedVariables(link, dev_tracked, mem), <<ptr>>, mem)
            BY <1>3 DEF RunCallback
      <2>2. /\ SendTrackedVariables(link, dev_tracked, mem) \in Seq(Sent(link))
            /\ Ordinary(SendTrackedVariables(link, dev_tracked, mem))
            BY <1>1, ObjectsSent DEF SendTrackedVariables
      <2> QED BY <1>3, <2>1, <2>2, FunctionsAssumption DEF Effect
<1>4. CASE ptr \in DOMAIN Functions
      <2>1. ptr \notin {"announce_dev_msg", "send_tracked_variables"}
            BY <1>4, FunctionsAssumption
      <2>2. RunCallback(link, ptr, dev_tracked, mem) = RunFunction(link, ptr, dev_tracked, mem)
            BY <2>1 DEF RunCallback
      <2>3. LET effect == RunFunction(link, ptr, dev_tracked, mem)
            IN  /\ effect.status = EUI_ACTION_OK /\ effect.called = <<ptr>>
                /\ Typed(effect.memory) /\ effect.output \in Seq(Sent(link)) /\ Ordinary(effect.output)
            BY <1>4, FunctionIs, Zenon
      <2> QED BY <2>1, <2>2, <2>3
<1> QED BY <1>2, <1>3, <1>4 DEF Callbacks

\* memcpy of a payload leaves a value of the variable, and if it fits, it is stored there.
LEMMA StoreFits ==
    ASSUME NEW m \in Inbound, NEW v, NEW bytes, Fits(v, bytes)
    PROVE  /\ Fits(v, Store(bytes, m.offset_in, m.data))
           /\ m.offset_in + Len(m.data) <= Len(bytes) =>
                 \A n \in DOMAIN m.data :
                     /\ m.offset_in + n \in DOMAIN Store(bytes, m.offset_in, m.data)
                     /\ Store(bytes, m.offset_in, m.data)[m.offset_in + n] = m.data[n]
<1> DEFINE offset == m.offset_in
           data   == m.data
           stored == Store(bytes, offset, data)
<1>1. m \in Message
      BY InboundAssumption DEF Sendable
<1>2. offset \in Int /\ 0 <= offset /\ data \in Seq(Byte)
      BY <1>1, WordDef DEF Message
<1>3. bytes \in Seq(Byte) /\ DOMAIN bytes = 1 .. Len(bytes) /\ Len(bytes) \in Nat
      BY DEF Fits
<1> HIDE DEF offset, data
<1>4. stored = [n \in 1 .. Len(bytes) |-> IF n - offset \in DOMAIN data THEN data[n - offset] ELSE bytes[n]]
      BY <1>3 DEF Store
<1>5. \A n \in 1 .. Len(bytes) :
          (IF n - offset \in DOMAIN data THEN data[n - offset] ELSE bytes[n]) \in Byte
      BY <1>2, <1>3
<1>6. stored \in Seq(Byte) /\ Len(stored) = Len(bytes)
      BY <1>3, <1>4, <1>5
<1>7. ASSUME m.offset_in + Len(m.data) <= Len(bytes), NEW n \in DOMAIN data
      PROVE  offset + n \in DOMAIN stored /\ stored[offset + n] = data[n]
      <2>1. n \in Int /\ 1 <= n /\ n <= Len(data)
            BY <1>2
      <2>2. offset + n \in 1 .. Len(bytes) /\ (offset + n) - offset = n
            BY <1>2, <1>3, <1>7, <2>1 DEF offset, data
      <2> QED BY <1>4, <2>2
<1> QED BY <1>6, <1>7 DEF Fits, offset, data

\* A request is done or refused, and a refused one changes nothing and sends nothing.
LEMMA ActionIs ==
    ASSUME Tracked, Typed(memory), NEW link, NEW m \in Inbound, NEW counted \in Counts(m),
           NEW obj, Reachable(obj)
    PROVE  LET action == HandlePacketAction(link, m, counted, obj, dev_tracked, memory)
           IN  /\ action.status \in 0..3
               /\ Typed(action.memory) /\ action.output \in Seq(Sent(link))
               /\ action.status # EUI_ACTION_OK =>
                     action.memory = memory /\ action.called = << >> /\ action.output = << >>
<1> DEFINE action == HandlePacketAction(link, m, counted, obj, dev_tracked, memory)
           Sound(a) == /\ a.status \in 0..3
                       /\ Typed(a.memory) /\ a.output \in Seq(Sent(link))
                       /\ a.status # EUI_ACTION_OK =>
                             a.memory = memory /\ a.called = << >> /\ a.output = << >>
<1> SUFFICES Sound(action)
      BY Zenon
<1>1. /\ EUI_ACTION_OK \in 0..3 /\ EUI_ACTION_CALLBACK_ERROR \in 0..3
      /\ EUI_ACTION_WRITE_ERROR \in 0..3 /\ EUI_ACTION_TYPE_MISMATCH_ERROR \in 0..3
      BY DEF EUI_ACTION_OK, EUI_ACTION_CALLBACK_ERROR, EUI_ACTION_WRITE_ERROR,
             EUI_ACTION_TYPE_MISMATCH_ERROR
<1>2. << >> \in Seq(Sent(link))
      OBVIOUS
<1>3. ASSUME NEW status \in 0..3, action = Effect(status, << >>, << >>, memory)
      PROVE  Sound(action)
      BY <1>2, <1>3 DEF Effect
<1> HIDE DEF Sound
<1>4. CASE obj.type # m.type
      <2>1. \E status \in 0..3 : action = Effect(status, << >>, << >>, memory)
            BY <1>1, <1>4 DEF HandlePacketAction
      <2> QED BY <1>3, <2>1
<1>5. CASE obj.type = m.type /\ obj.type = TYPE_CALLBACK
      <2>1. CASE (m.response = 1) = (m.acknum # 0) /\ obj.ptr # Null
            <3>1. action = RunCallback(link, obj.ptr, dev_tracked, memory)
                  BY <1>5, <2>1 DEF HandlePacketAction
            <3>2. obj.ptr \in Callbacks
                  BY <1>5 DEF Reachable
            <3> HIDE DEF action
            <3>3. /\ action.status = EUI_ACTION_OK /\ Typed(action.memory)
                  /\ action.output \in Seq(Sent(link))
                  BY <2>1, <3>1, <3>2, CallbackIs
            <3> QED BY <1>1, <3>3 DEF Sound
      <2>2. CASE ~((m.response = 1) = (m.acknum # 0) /\ obj.ptr # Null)
            <3>1. \E status \in 0..3 : action = Effect(status, << >>, << >>, memory)
                  BY <1>1, <1>5, <2>2 DEF HandlePacketAction
            <3> QED BY <1>3, <3>1
      <2> QED BY <2>1, <2>2
<1>6. CASE obj.type = m.type /\ obj.type # TYPE_CALLBACK
      <2> DEFINE stored == Store(memory[obj.ptr], m.offset_in, m.data)
      <2>1. CASE counted /\ MayWrite(m, obj)
            <3>1. action = Effect(EUI_ACTION_OK, << >>, << >>, [memory EXCEPT ![obj.ptr] = stored])
                  BY <1>6, <2>1 DEF HandlePacketAction
            <3>2. obj.ptr \in DOMAIN Memory /\ Fits(obj.ptr, memory[obj.ptr])
                  BY <1>6 DEF Reachable, Typed
            <3>3. Fits(obj.ptr, stored)
                  BY <3>2, StoreFits
            <3> HIDE DEF stored
            <3>4. Typed([memory EXCEPT ![obj.ptr] = stored])
                  BY <3>2, <3>3 DEF Typed
            <3> HIDE DEF action
            <3>5. action.status = EUI_ACTION_OK /\ action.output = << >> /\ Typed(action.memory)
                  BY <3>1, <3>4 DEF Effect
            <3> QED BY <1>1, <1>2, <3>5 DEF Sound
      <2>2. CASE ~(counted /\ MayWrite(m, obj))
            <3>1. \E status \in 0..3 : action = Effect(status, << >>, << >>, memory)
                  BY <1>1, <1>6, <2>2 DEF HandlePacketAction
            <3> QED BY <1>3, <3>1
      <2> QED BY <2>1, <2>2
<1> QED BY <1>4, <1>5, <1>6

-----------------------------------------------------------------------------
(* The packets of one call of eui_parse                                        *)

\* auto_output writes on the link of the packet in hand, or nowhere.
LEMMA AutoIs ==
    ASSUME NEW link
    PROVE  /\ AutoInterface(link) \in {link, NoLink}
           /\ Seq(Sent(AutoInterface(link))) \subseteq Seq(Sent(link))
<1>1. AutoInterface(link) \in {link, NoLink}
      BY DEF AutoInterface
<1>2. Sent(AutoInterface(link)) \subseteq Sent(link)
      BY <1>1 DEF Sent
<1> QED BY <1>1, <1>2

\* what goes out for a request for an acknowledgement
Answered(link, m, obj, ack) ==
    \/ ack = << >> /\ (m.acknum = 0 \/ m.response = 0 \/ link \in Mute \cup {NoLink} \/ obj.ptr = Null)
    \/ /\ m.acknum # 0 /\ m.response = 1 /\ link \notin Mute \cup {NoLink} /\ obj.ptr # Null
       /\ \E p \in OnLink(link) :
             /\ ack = <<p>> /\ p.message.acknum = m.acknum
             /\ p.message.id = obj.id /\ p.message.internal = m.internal

\* handle_packet_ack writes the acknowledgement that was asked for, if it can.
LEMMA AckIs ==
    ASSUME NEW link, NEW m \in Inbound, NEW obj, Reachable(obj),
           NEW ack, ack = HandlePacketAck(link, m, obj)
    PROVE  Answered(link, m, obj, ack)
<1> DEFINE answer == [Simple(m.internal, obj.type, obj.id, << >>)
                      EXCEPT !.acknum = m.acknum, !.offset = m.offset, !.offset_in = m.offset_in]
<1>1. m \in Message
      BY InboundAssumption DEF Sendable
<1>2. /\ m.internal \in Bit /\ m.acknum \in Bits3 /\ m.offset \in Bit /\ m.offset_in \in Word
      /\ m.response \in Bit
      BY <1>1 DEF Message
<1>3. obj.id \in Seq(Byte) /\ obj.type \in Bits4 /\ Len(obj.id) \in 1..15
      BY DEF Reachable, Objects
<1>4. /\ Simple(m.internal, obj.type, obj.id, << >>) \in Message
      /\ Simple(m.internal, obj.type, obj.id, << >>).data = << >>
      <2> DEFINE none == << >>
      <2>1. none \in Seq(Byte)
            OBVIOUS
      <2> HIDE DEF none
      <2>2. /\ Simple(m.internal, obj.type, obj.id, none) \in Message
            /\ Simple(m.internal, obj.type, obj.id, none).data = none
            BY <1>2, <1>3, <2>1, SimpleIs
      <2> QED BY <2>2 DEF none
<1>5. /\ answer \in Message /\ answer.acknum = m.acknum /\ answer.id = obj.id
      /\ answer.internal = m.internal /\ answer.data = << >>
      BY <1>2, <1>4 DEF Message, Simple
<1>6. m.response = 0 \/ m.response = 1
      BY <1>2, BitsDef
<1>7. HandlePacketAck(link, m, obj) =
          IF m.acknum # 0 /\ m.response = 1 THEN Encode(link, obj.ptr, answer) ELSE << >>
      BY DEF HandlePacketAck
<1> HIDE DEF answer
<1>8. answer \in Framable
      <2>1. Len(answer.data) = 0
            BY <1>5
      <2>2. Len(answer.data) <= PAYLOAD_SIZE_MAX
            BY <2>1, PayloadAssumption
      <2> QED BY <1>3, <1>5, <2>2, SmallSlice DEF Framable
<1>9. CASE m.acknum # 0 /\ m.response = 1 /\ link \notin Mute \cup {NoLink} /\ obj.ptr # Null
      <2>1. [link |-> link, message |-> answer] \in OnLink(link)
            BY <1>8, <1>9 DEF OnLink
      <2>2. ack = <<[link |-> link, message |-> answer]>>
            BY <1>3, <1>5, <1>7, <1>9, EncodeWhole
      <2> QED BY <1>5, <1>9, <2>1, <2>2 DEF Answered
<1>10. CASE ~(m.acknum # 0 /\ m.response = 1 /\ link \notin Mute \cup {NoLink} /\ obj.ptr # Null)
      <2>1. link \in Mute \cup {NoLink} \/ obj.ptr = Null => Encode(link, obj.ptr, answer) = << >>
            BY DEF Encode
      <2> QED BY <1>6, <1>7, <1>10, <2>1 DEF Answered
<1> QED BY <1>9, <1>10

\* The addresses of a range request are words.
LEMMA AddressIsWord == ASSUME NEW data \in Seq(Byte), NEW n PROVE Address(data, n) \in Word
<1>1. \A k : (IF k \in DOMAIN data THEN data[k] ELSE 0) \in Byte
      BY ByteDef
<1>2. \A x \in Byte, y \in Byte : x + 256 * y \in Word
      BY ByteDef, WordDef
<1> QED BY <1>1, <1>2 DEF Address

\* What answers a query goes out on its link.
LEMMA QuerySent ==
    ASSUME Tracked, NEW mem, Typed(mem), NEW link, NEW m \in Inbound,
           FindMessageObject(Namespace(m.internal), m.id) # << >>
    PROVE  LET query == HandlePacketQuery(link, m, FindMessageObject(Namespace(m.internal), m.id)[1], mem)
           IN  query \in Seq(Sent(link)) /\ Ordinary(query)
<1> DEFINE found == FindMessageObject(Namespace(m.internal), m.id)
           obj   == found[1]
<1>1. Reachable(obj)
      BY FoundIsReachable DEF Tracked
<1>2. m \in Message
      BY InboundAssumption DEF Sendable
<1>3. m.internal \in Bit /\ m.data \in Seq(Byte)
      BY <1>2 DEF Message
<1> DEFINE query == HandlePacketQuery(link, m, obj, mem)
<1> SUFFICES query \in Seq(Plain(link))
      BY PlainSent, Zenon
<1>named. Named(link, m.internal, obj.id) \subseteq Plain(link)
      BY InternalNames, NamedPlain
<1>4. CASE m.response = 1 /\ m.acknum = 0 /\ m.type = TYPE_OFFSET_METADATA
      <2>1. Namespace(m.internal) \in Arrays \cup {internal_msg_store}
            <3>1. FindMessageObject(<< >>, m.id) = << >>
                  BY DEF FindMessageObject
            <3> QED BY <3>1 DEF Tracked, Namespace
      <2>2. Address(m.data, 3) <= Size(obj)
            BY <1>4, <2>1, InboundAssumption
      <2>3. Address(m.data, 1) \in Word /\ Address(m.data, 3) \in Word
            BY <1>3, AddressIsWord
      <2>4. HandlePacketQuery(link, m, obj, mem) =
                EuiSendRange(link, obj, m.internal, Address(m.data, 1), Address(m.data, 3), mem)
            BY <1>4 DEF HandlePacketQuery
      <2> HIDE DEF obj
      <2> QED BY <1>1, <1>3, <1>named, <2>2, <2>3, <2>4, RangeNamed
<1>5. CASE m.response = 1 /\ m.acknum = 0 /\ m.type # TYPE_OFFSET_METADATA
      <2>1. HandlePacketQuery(link, m, obj, mem) = EuiSend(link, obj, m.internal, mem)
            BY <1>5 DEF HandlePacketQuery
      <2> HIDE DEF obj
      <2> QED BY <1>1, <1>3, <1>named, <2>1, SendNamed
<1>6. CASE ~(m.response = 1 /\ m.acknum = 0)
      <2>1. HandlePacketQuery(link, m, obj, mem) = << >>
            BY <1>6 DEF HandlePacketQuery
      <2> QED BY <2>1
<1> QED BY <1>4, <1>5, <1>6

\* A call that handles a packet writes what the callbacks send, then the acknowledgement,
\* then the answer and what interface_cb sends.
LEMMA HandledIs ==
    ASSUME Tracked, Typed(memory), NEW link, NEW m \in Inbound, NEW counted \in Counts(m),
           EuiParseOk(link, m, counted),
           FindMessageObject(Namespace(m.internal), m.id) # << >>
    PROVE  LET obj    == FindMessageObject(Namespace(m.internal), m.id)[1]
               action == HandlePacketAction(AutoInterface(link), m, counted, obj, dev_tracked, memory)
               ack    == IF Acknowledges(action) THEN HandlePacketAck(link, m, obj) ELSE << >>
           IN  /\ memory' = action.memory
               /\ \E answer \in Seq(Sent(link)), rest \in Seq(Sent(link)) :
                     call'.output = ((action.output \o ack) \o answer) \o rest
               /\ call'.op = "eui_parse" /\ call'.link = link /\ call'.message = <<m>>
               /\ call'.called = action.called /\ call'.notified = <<"EUI_CB_TRACKED">>
               /\ call'.status \in {<<bits>> : bits \in [action : {action.status}, ack : {0, 1}, query : 0..3]}
<1> DEFINE found  == FindMessageObject(Namespace(m.internal), m.id)
           obj    == found[1]
           auto   == AutoInterface(link)
           action == HandlePacketAction(auto, m, counted, obj, dev_tracked, memory)
           ack    == IF Acknowledges(action) THEN HandlePacketAck(link, m, obj) ELSE << >>
           query  == HandlePacketQuery(link, m, obj, action.memory)
           report == Report(auto, "EUI_CB_TRACKED", action.memory)
           Bits(bits) == [ action |-> action.status,
                           ack    |-> IF ~Acknowledges(action) THEN bits.ack
                                      ELSE IF m.acknum # 0 /\ m.response = 1 /\ CannotSend(link, obj)
                                      THEN EUI_OUTPUT_ERROR ELSE EUI_OUTPUT_OK,
                           query  |-> QueryStatus(link, m, obj) ]
<1>1. /\ memory' = action.memory
      /\ \E bits \in Garbage :
            call' = [Call("eui_parse", link, <<m>>, action.output \o ack \o query \o report)
                     EXCEPT !.called = action.called, !.notified = <<"EUI_CB_TRACKED">>,
                            !.status = <<Bits(bits)>>, !.behind = Behind(m, obj)]
      BY Zenon DEF EuiParseOk
<1>2. PICK bits \in Garbage :
          call' = [Call("eui_parse", link, <<m>>, action.output \o ack \o query \o report)
                   EXCEPT !.called = action.called, !.notified = <<"EUI_CB_TRACKED">>,
                          !.status = <<Bits(bits)>>, !.behind = Behind(m, obj)]
      BY <1>1
<1>3. Reachable(obj)
      BY FoundIsReachable DEF Tracked
<1>4. action.output \in Seq(Sent(link)) /\ Typed(action.memory)
      <2> HIDE DEF obj
      <2> QED BY <1>3, ActionIs, AutoIs
<1>5. query \in Seq(Sent(link)) /\ report \in Seq(Sent(link))
      <2> HIDE DEF action
      <2>1. query \in Seq(Sent(link))
            BY <1>4, QuerySent
      <2>2. report \in Seq(Sent(link))
            BY <1>4, ReportSent, AutoIs
      <2> QED BY <2>1, <2>2
<1>6. ack = << >> \/ \E p \in OnLink(link) : ack = <<p>>
      <2> HIDE DEF obj, action
      <2>1. Answered(link, m, obj, HandlePacketAck(link, m, obj))
            BY <1>3, AckIs
      <2> QED BY <2>1 DEF Answered
<1> HIDE DEF query, report, ack, action, Bits, found
<1>7. call'.output = ((action.output \o ack) \o query) \o report
      BY <1>2 DEF Call
<1>8. /\ call'.op = "eui_parse" /\ call'.link = link /\ call'.message = <<m>>
       /\ call'.called = action.called /\ call'.notified = <<"EUI_CB_TRACKED">>
       /\ call'.status = <<Bits(bits)>>
      BY <1>2 DEF Call
<1>9. Bits(bits) \in [action : {action.status}, ack : {0, 1}, query : 0..3]
      <2>1. bits.ack \in {0, 1}
            BY GarbageAssumption DEF ErrorBits
      <2>2. QueryStatus(link, m, obj) \in 0..3
            BY DEF QueryStatus, EUI_OUTPUT_OK, EUI_OUTPUT_ERROR
      <2> QED BY <2>1, <2>2 DEF Bits, EUI_OUTPUT_OK, EUI_OUTPUT_ERROR
<1>10. \E answer \in Seq(Sent(link)), rest \in Seq(Sent(link)) :
           call'.output = ((action.output \o ack) \o answer) \o rest
      BY <1>5, <1>7, Zenon
<1> QED BY <1>1, <1>8, <1>9, <1>10, Zenon DEF action, ack, found

\* what is in the parts of a call's output is in the whole, and nothing else
Parts(first, ack, answer, rest, whole) ==
    /\ \A j \in DOMAIN first : j \in DOMAIN whole /\ whole[j] = first[j]
    /\ ack # << >> => Len(first) + 1 \in DOMAIN whole /\ whole[Len(first) + 1] = ack[1]
    /\ \A k \in DOMAIN whole :
          \/ k \in DOMAIN first /\ whole[k] = first[k]
          \/ k = Len(first) + 1 /\ ack # << >> /\ whole[k] = ack[1]
          \/ \E j \in DOMAIN answer : whole[k] = answer[j]
          \/ \E j \in DOMAIN rest : whole[k] = rest[j]

LEMMA PartsIn ==
    ASSUME NEW S, NEW first \in Seq(S), NEW ack \in Seq(S), NEW answer \in Seq(S), NEW rest \in Seq(S),
           Len(ack) <= 1, NEW whole, whole = ((first \o ack) \o answer) \o rest
    PROVE  whole \in Seq(S) /\ Parts(first, ack, answer, rest, whole)
<1> DEFINE one   == first \o ack
           two   == one \o answer
<1>0. one = first \o ack /\ two = one \o answer /\ whole = two \o rest
      OBVIOUS
<1> HIDE DEF one, two
<1>1. one \in Seq(S) /\ Joins(first, ack, one)
      BY <1>0, Joined, Zenon
<1>2. two \in Seq(S) /\ Joins(one, answer, two)
      BY <1>0, <1>1, Joined, Zenon
<1>3. whole \in Seq(S) /\ Joins(two, rest, whole)
      BY <1>0, <1>2, Joined, Zenon
<1>4. /\ ack # << >> => 1 \in DOMAIN ack
      /\ \A j \in DOMAIN ack : j = 1 /\ ack # << >>
      <2>1. DOMAIN ack = 1 .. Len(ack) /\ Len(ack) \in Nat
            BY LenProperties
      <2>2. ack # << >> => Len(ack) # 0
            BY EmptySeq
      <2> QED BY <2>1, <2>2
<1>5. \A j \in DOMAIN first : j \in DOMAIN whole /\ whole[j] = first[j]
      BY <1>1, <1>2, <1>3, Zenon DEF Joins
<1>6. ack # << >> => Len(first) + 1 \in DOMAIN whole /\ whole[Len(first) + 1] = ack[1]
      <2>1. ack # << >> => Len(first) + 1 \in DOMAIN one /\ one[Len(first) + 1] = ack[1]
            BY <1>1, <1>4, Zenon DEF Joins
      <2>2. \A k \in DOMAIN one : k \in DOMAIN whole /\ whole[k] = one[k]
            BY <1>2, <1>3, Zenon DEF Joins
      <2> QED BY <2>1, <2>2, Zenon
<1>7. \A k \in DOMAIN one :
          \/ k \in DOMAIN first /\ one[k] = first[k]
          \/ k = Len(first) + 1 /\ ack # << >> /\ one[k] = ack[1]
      BY <1>1, <1>4, Zenon DEF Joins
<1>8. \A k \in DOMAIN two : \/ k \in DOMAIN one /\ two[k] = one[k]
                            \/ \E j \in DOMAIN answer : two[k] = answer[j]
      BY <1>2, Zenon DEF Joins
<1>9. \A k \in DOMAIN whole : \/ k \in DOMAIN two /\ whole[k] = two[k]
                              \/ \E j \in DOMAIN rest : whole[k] = rest[j]
      BY <1>3, Zenon DEF Joins
<1>10. \A k \in DOMAIN whole :
           \/ k \in DOMAIN first /\ whole[k] = first[k]
           \/ k = Len(first) + 1 /\ ack # << >> /\ whole[k] = ack[1]
           \/ \E j \in DOMAIN answer : whole[k] = answer[j]
           \/ \E j \in DOMAIN rest : whole[k] = rest[j]
      BY <1>7, <1>8, <1>9
<1> QED BY <1>3, <1>5, <1>6, <1>10, Zenon DEF Parts

\* Flattening loses nothing.
LEMMA FlattenHolds ==
    ASSUME NEW S, NEW seqs \in Seq(Seq(S)), NEW i \in 1 .. Len(seqs), NEW k \in 1 .. Len(seqs[i])
    PROVE  \E j \in DOMAIN FlattenSeq(seqs) : FlattenSeq(seqs)[j] = seqs[i][k]
<1> DEFINE x == seqs[i][k]
           n == Len(seqs)
<1>1. PICK flat \in [0 .. n -> Seq(S)] :
          /\ \A j \in 1 .. n : flat[j] = flat[j - 1] \o seqs[j]
          /\ FlattenSeq(seqs) = flat[n]
      BY FlattenIs
<1> DEFINE Holds == {h \in 0 .. n : \E j \in DOMAIN flat[h] : flat[h][j] = x}
<1>2. n \in Nat /\ \A j \in 1 .. n : seqs[j] \in Seq(S) /\ j - 1 \in 0 .. n /\ flat[j - 1] \in Seq(S)
      <2>1. n \in Nat
            BY LenProperties
      <2>2. \A j \in 1 .. n : seqs[j] \in Seq(S)
            BY ElementOfSeq
      <2>3. \A j \in 1 .. n : j - 1 \in 0 .. n
            BY <2>1
      <2> QED BY <2>1, <2>2, <2>3
<1>3. i \in Holds
      <2> HIDE DEF x
      <2>1. flat[i] = flat[i - 1] \o seqs[i] /\ seqs[i] \in Seq(S) /\ flat[i - 1] \in Seq(S)
            BY <1>1, <1>2
      <2>2. k \in DOMAIN seqs[i]
            BY <2>1
      <2>3. /\ Len(flat[i - 1]) + k \in DOMAIN flat[i]
            /\ flat[i][Len(flat[i - 1]) + k] = seqs[i][k]
            <3>1. Joins(flat[i - 1], seqs[i], flat[i])
                  BY <2>1, Joined, Zenon
            <3> QED BY <2>2, <3>1, Zenon DEF Joins
      <2>4. i \in 0 .. n
            BY <1>2
      <2> QED BY <2>3, <2>4 DEF x
<1>4. ASSUME NEW h \in i .. n - 1, h \in Holds PROVE h + 1 \in Holds
      <2>1. h + 1 \in 1 .. n /\ (h + 1) - 1 = h /\ h + 1 \in 0 .. n
            BY <1>2
      <2>2. flat[h + 1] = flat[h] \o seqs[h + 1] /\ flat[h] \in Seq(S) /\ seqs[h + 1] \in Seq(S)
            BY <1>1, <1>2, <2>1
      <2>3. PICK j \in DOMAIN flat[h] : flat[h][j] = x
            BY <1>4
      <2>4. j \in DOMAIN flat[h + 1] /\ flat[h + 1][j] = flat[h][j]
            <3>1. Joins(flat[h], seqs[h + 1], flat[h + 1])
                  BY <2>2, Joined, Zenon
            <3> QED BY <2>3, <3>1, Zenon DEF Joins
      <2> QED BY <2>1, <2>3, <2>4
<1>5. i .. n \subseteq Holds
      <2>1. i \in Int /\ n \in Int
            BY <1>2
      <2> HIDE DEF Holds, n
      <2>2. \A h \in i .. n - 1 : h \in Holds => h + 1 \in Holds
            BY <1>4
      <2> QED BY <1>3, <2>1, <2>2, Climbs, Zenon
<1>6. n \in Holds
      <2>1. n \in i .. n
            BY <1>2
      <2> HIDE DEF Holds
      <2> QED BY <1>5, <2>1
<1> QED BY <1>1, <1>6

\* eui_send of an object sends at least a packet of its id.
LEMMA SendsId ==
    ASSUME NEW link, link \notin Mute \cup {NoLink}, NEW obj, Reachable(obj), obj.ptr # Null,
           NEW mem, Typed(mem), NEW internal \in Bit
    PROVE  LET sent == EuiSend(link, obj, internal, mem)
           IN  1 \in 1 .. Len(sent) /\ sent[1].message.id = obj.id
<1> DEFINE range == ValidateOffsetRange(0, Size(obj), obj.type, Size(obj))
           announced == LittleEndian(range.start) \o LittleEndian(range.end)
           first == Encode(link, "data_range", Simple(internal, TYPE_OFFSET_METADATA, obj.id, announced))
<1>1. obj.id \in Seq(Byte) /\ obj.type \in Bits4 /\ Len(obj.id) \in 1..15
      BY DEF Reachable, Objects
<1>2. Size(obj) \in Word /\ Contents(obj, mem) \in Seq(Byte)
      BY SizeIs
<1>3. ASSUME NEW type \in Bits4, NEW data \in Seq(Byte), NEW ptr, ptr # Null
      PROVE  \E p : /\ Encode(link, ptr, Simple(internal, type, obj.id, data)) = <<p>>
                    /\ p.message.id = obj.id
      <2> DEFINE m == Simple(internal, type, obj.id, data)
                 cut == [m EXCEPT !.id = SubSeq(@, 1, Len(@) % 16)]
      <2>0. Encode(link, ptr, m) = <<[link |-> link, message |-> cut]>>
            <3> HIDE DEF m
            <3> QED BY <1>3 DEF Encode
      <2>1. m.id = obj.id /\ DOMAIN m = {"internal", "response", "acknum", "type", "offset", "offset_in", "id", "data"}
            BY DEF Simple
      <2> HIDE DEF m
      <2>2. cut.id = SubSeq(m.id, 1, Len(m.id) % 16)
            BY <2>1
      <2>3. cut.id = obj.id
            BY <1>1, <2>1, <2>2, IdUncut
      <2> HIDE DEF cut
      <2>4. Encode(link, ptr, m) = <<[link |-> link, message |-> cut]>>
            BY <2>0
      <2> QED BY <2>3, <2>4 DEF m
<1>4. CASE Size(obj) <= PAYLOAD_SIZE_MAX
      <2>1. EuiSend(link, obj, internal, mem)
                = Encode(link, obj.ptr, Simple(internal, obj.type, obj.id, Contents(obj, mem)))
            BY <1>4 DEF EuiSend
      <2>2. PICK p : /\ EuiSend(link, obj, internal, mem) = <<p>>
                     /\ p.message.id = obj.id
            BY <1>1, <1>2, <1>3, <2>1
      <2> QED BY <2>2
<1>5. CASE ~(Size(obj) <= PAYLOAD_SIZE_MAX)
      <2>1. EuiSend(link, obj, internal, mem) = EuiSendRange(link, obj, internal, 0, Size(obj), mem)
            BY <1>5 DEF EuiSend
      <2>2. \E slices : EuiSendRange(link, obj, internal, 0, Size(obj), mem) = first \o slices
            BY DEF EuiSendRange
      <2>3. PICK slices : EuiSend(link, obj, internal, mem) = first \o slices
            BY <2>1, <2>2
      <2>4. announced \in Seq(Byte) /\ TYPE_OFFSET_METADATA \in Bits4 /\ "data_range" # Null
            <3>1. 0 \in Word
                  BY WordDef
            <3>2. range.start \in Word /\ range.end \in Word
                  BY <1>2, <3>1, RangeType
            <3> HIDE DEF range
            <3>3. LittleEndian(range.start) \in Seq(Byte) /\ LittleEndian(range.end) \in Seq(Byte)
                  BY <3>2, LittleEndianType
            <3>4. announced \in Seq(Byte)
                  BY <3>3, ConcatProperties, Zenon
            <3>5. TYPE_OFFSET_METADATA \in Bits4
                  BY BitsDef DEF TYPE_OFFSET_METADATA
            <3> QED BY <3>4, <3>5 DEF Null
      <2> HIDE DEF announced
      <2>5. PICK p : first = <<p>> /\ p.message.id = obj.id
            BY <1>3, <2>4
      <2> QED BY <2>3, <2>5
<1> QED BY <1>4, <1>5
-----------------------------------------------------------------------------
(* What an acknowledgement says                                                *)

\* A callback sends every variable it names, if there is an output to send it on.
LEMMA FunctionSends ==
    ASSUME Tracked, NEW mem, Typed(mem), NEW link, link \notin Mute \cup {NoLink},
           NEW ptr \in DOMAIN Functions, NEW id \in ToSet(Functions[ptr].sends),
           FindMessageObject(dev_tracked, id) # << >>,
           FindMessageObject(dev_tracked, id)[1].ptr # Null
    PROVE  LET output == RunFunction(link, ptr, dev_tracked, mem).output
           IN  \E j \in DOMAIN output : output[j].message.id = id
<1> DEFINE code   == Functions[ptr]
           after  == [v \in DOMAIN mem |-> IF v \in DOMAIN code.stores THEN code.stores[v] ELSE mem[v]]
           named  == [k \in DOMAIN code.sends |-> FindMessageObject(dev_tracked, code.sends[k])]
           packets == [k \in DOMAIN named |->
                          IF named[k] = << >> THEN << >> ELSE EuiSend(link, named[k][1], 0, after)]
<1>1. RunFunction(link, ptr, dev_tracked, mem).output = FlattenSeq(packets)
      <2>1. RunFunction(link, ptr, dev_tracked, mem)
                = Effect(EUI_ACTION_OK, FlattenSeq(packets), <<ptr>>, after)
            BY Zenon DEF RunFunction
      <2> HIDE DEF packets, after
      <2> QED BY <2>1 DEF Effect
<1>2. /\ \A v \in DOMAIN code.stores : Fits(v, code.stores[v])
      /\ code.sends \in Seq(Seq(Byte))
      BY FunctionsAssumption
<1>3. Typed(after)
      BY <1>2 DEF Typed
<1>4. \A k \in DOMAIN code.sends :
          named[k] # << >> => Reachable(named[k][1]) /\ named[k][1].id = code.sends[k]
      <2>1. dev_tracked = Namespace(0)
            BY DEF Namespace
      <2> QED BY <2>1, FoundIsReachable DEF Tracked
<1>5. PICK k \in DOMAIN code.sends : code.sends[k] = id
      BY DEF ToSet
<1> HIDE DEF after, code
<1>6. packets \in Seq(Seq(Sent(link))) /\ Len(packets) = Len(code.sends)
      <2>1. ASSUME NEW j \in DOMAIN code.sends PROVE packets[j] \in Seq(Sent(link))
            <3>1. packets[j] = IF named[j] = << >> THEN << >> ELSE EuiSend(link, named[j][1], 0, after)
                  OBVIOUS
            <3>2. 0 \in Bit
                  BY BitsDef
            <3>3. named[j] # << >> => Reachable(named[j][1])
                  BY <1>4
            <3> HIDE DEF packets, named
            <3>4. CASE named[j] = << >>
                  BY <3>1, <3>4
            <3>5. CASE named[j] # << >>
                  BY <1>3, <3>1, <3>2, <3>3, <3>5, SendSent
            <3> QED BY <3>4, <3>5
      <2>2. packets = [j \in DOMAIN code.sends |-> packets[j]]
            OBVIOUS
      <2> HIDE DEF packets
      <2> QED BY <1>2, <2>1, <2>2, Mapped, Zenon
<1>7. 1 \in 1 .. Len(packets[k]) /\ packets[k][1].message.id = id
      <2>1. named[k] # << >> /\ named[k] = FindMessageObject(dev_tracked, id)
            BY <1>5
      <2>2. packets[k] = EuiSend(link, named[k][1], 0, after)
            BY <2>1
      <2>3. Reachable(named[k][1]) /\ named[k][1].id = id /\ named[k][1].ptr # Null
            BY <1>4, <1>5, <2>1
      <2>4. 0 \in Bit
            BY BitsDef
      <2> HIDE DEF named, packets
      <2> QED BY <1>3, <2>2, <2>3, <2>4, SendsId
<1>8. k \in 1 .. Len(packets)
      BY <1>2, <1>6
<1> HIDE DEF packets
<1>9. \E j \in DOMAIN FlattenSeq(packets) : FlattenSeq(packets)[j] = packets[k][1]
      <2>1. packets \in Seq(Seq(Sent(link))) /\ k \in 1 .. Len(packets) /\ 1 \in 1 .. Len(packets[k])
            BY <1>6, <1>7, <1>8, Zenon
      <2> QED BY <2>1, FlattenHolds
<1> QED BY <1>1, <1>7, <1>9

\* a request that asked for an acknowledgement is done
Done(link, auto, m, obj, action) ==
    /\ m.type = obj.type /\ m.type # TYPE_CALLBACK =>
           \A n \in DOMAIN m.data :
               /\ m.offset_in + n \in DOMAIN action.memory[obj.ptr]
               /\ action.memory[obj.ptr][m.offset_in + n] = m.data[n]
    /\ m.type = TYPE_CALLBACK /\ obj.ptr \in DOMAIN Functions =>
           /\ action.called = <<obj.ptr>>
           /\ \A v \in DOMAIN Functions[obj.ptr].stores :
                  action.memory[v] = Functions[obj.ptr].stores[v]
           /\ auto = link =>
                 \A id \in ToSet(Functions[obj.ptr].sends) :
                     /\ FindMessageObject(dev_tracked, id) # << >>
                     /\ FindMessageObject(dev_tracked, id)[1].ptr # Null
                     => \E j \in DOMAIN action.output : action.output[j].message.id = id

\* If it succeeded.
LEMMA DoneIs ==
    ASSUME Tracked, Typed(memory), NEW link, link \notin Mute \cup {NoLink}, NEW auto,
           SumsHold, NEW m \in Inbound, m.acknum # 0, m.response = 1, NEW counted \in Counts(m),
           NEW obj, Reachable(obj), obj.ptr # Null,
           HandlePacketAction(auto, m, counted, obj, dev_tracked, memory).status = EUI_ACTION_OK
    PROVE  Done(link, auto, m, obj, HandlePacketAction(auto, m, counted, obj, dev_tracked, memory))
<1> DEFINE action == HandlePacketAction(auto, m, counted, obj, dev_tracked, memory)
<1>1. /\ EUI_ACTION_OK # EUI_ACTION_TYPE_MISMATCH_ERROR /\ EUI_ACTION_OK # EUI_ACTION_WRITE_ERROR
      /\ TYPE_CALLBACK # TYPE_OFFSET_METADATA
      BY DEF EUI_ACTION_OK, EUI_ACTION_TYPE_MISMATCH_ERROR, EUI_ACTION_WRITE_ERROR,
             TYPE_CALLBACK, TYPE_OFFSET_METADATA
<1>2. ASSUME m.type = obj.type, m.type # TYPE_CALLBACK, NEW n \in DOMAIN m.data
      PROVE  /\ m.offset_in + n \in DOMAIN action.memory[obj.ptr]
             /\ action.memory[obj.ptr][m.offset_in + n] = m.data[n]
      <2> DEFINE stored == Store(memory[obj.ptr], m.offset_in, m.data)
      <2>1. counted
            <3>1. m.data # << >>
                  BY <1>2
            <3>2. counted = TRUE \/ counted = (m.data # << >>)
                  BY DEF Counts
            <3> QED BY <3>1, <3>2, Zenon
      <2>2. CASE MayWrite(m, obj)
            <3>1. action = Effect(EUI_ACTION_OK, << >>, << >>, [memory EXCEPT ![obj.ptr] = stored])
                  BY <1>2, <2>1, <2>2 DEF HandlePacketAction
            <3>2. /\ obj.ptr \in DOMAIN Memory /\ Fits(obj.ptr, memory[obj.ptr])
                  /\ DOMAIN memory = DOMAIN Memory
                  BY <1>2 DEF Reachable, Typed
            <3>3. m.offset_in + Len(m.data) <= Len(memory[obj.ptr])
                  BY <1>2, <2>2, <3>2 DEF MayWrite, SumsHold, Size, Fits
            <3>4. m.offset_in + n \in DOMAIN stored /\ stored[m.offset_in + n] = m.data[n]
                  BY <3>2, <3>3, StoreFits
            <3> HIDE DEF stored, action
            <3>5. action.memory[obj.ptr] = stored
                  BY <3>1, <3>2 DEF Effect
            <3> QED BY <3>4, <3>5
      <2>3. CASE ~MayWrite(m, obj)
            <3>1. action.status = EUI_ACTION_WRITE_ERROR
                  BY <1>2, <2>1, <2>3 DEF HandlePacketAction, Effect
            <3> QED BY <1>1, <3>1
      <2> QED BY <2>2, <2>3
<1>3. ASSUME m.type = TYPE_CALLBACK, obj.ptr \in DOMAIN Functions
      PROVE  action = RunFunction(auto, obj.ptr, dev_tracked, memory)
      <2>1. obj.type = TYPE_CALLBACK
            <3>1. CASE obj.type # m.type
                  <4>1. action.status = EUI_ACTION_TYPE_MISMATCH_ERROR
                        BY <1>1, <1>3, <3>1 DEF HandlePacketAction, Effect
                  <4> QED BY <1>1, <4>1
            <3> QED BY <1>3, <3>1
      <2>2. action = RunCallback(auto, obj.ptr, dev_tracked, memory)
            BY <1>3, <2>1 DEF HandlePacketAction
      <2>3. obj.ptr \in Callbacks
            BY <1>3 DEF Callbacks
      <2> QED BY <1>3, <2>2, <2>3, CallbackIs
<1>4. ASSUME m.type = TYPE_CALLBACK, obj.ptr \in DOMAIN Functions
      PROVE  /\ action.called = <<obj.ptr>>
             /\ \A v \in DOMAIN Functions[obj.ptr].stores :
                    action.memory[v] = Functions[obj.ptr].stores[v]
      BY <1>3, <1>4, FunctionIs
<1>5. ASSUME m.type = TYPE_CALLBACK, obj.ptr \in DOMAIN Functions, auto = link,
             NEW id \in ToSet(Functions[obj.ptr].sends),
             FindMessageObject(dev_tracked, id) # << >>, FindMessageObject(dev_tracked, id)[1].ptr # Null
      PROVE  \E j \in DOMAIN action.output : action.output[j].message.id = id
      <2>1. action = RunFunction(link, obj.ptr, dev_tracked, memory)
            BY <1>3, <1>5
      <2> HIDE DEF action
      <2> QED BY <1>5, <2>1, FunctionSends
<1> HIDE DEF action
<1>6. Done(link, auto, m, obj, action)
      BY <1>2, <1>4, <1>5 DEF Done
<1> QED BY <1>6 DEF action
-----------------------------------------------------------------------------
(* The invariant                                                               *)

\* the packets of the links that can send, and those that fit in a buffer
Packets == [link : Links \ Mute, message : Message]
FittingPackets == [link : Links \ Mute, message : Framable]

LEMMA FittingArePackets == FittingPackets \subseteq Packets
BY DEF FittingPackets, Packets, Framable

TypeInv ==
    /\ Typed(memory) /\ Tracked
    /\ registered \in BOOLEAN
    /\ interface_last \in Links \cup {NoLink}
    /\ identified \in 0..MaxIdentified
    /\ call.output \in Seq(FittingPackets)
    /\ call.status \in {<< >>} \cup {<<bits>> : bits \in ErrorBits}

\* what the call was, besides its type
Truthful == AnswersOnRequestLink /\ (SumsHold => AckedMeansDone)

\* a constant of the program
LEMMA SumsStay == SumsHold' <=> SumsHold
BY DEF SumsHold, Sum

\* and true wherever int has 32 bits
LEMMA WideSums == ASSUME IntBits = 32 PROVE SumsHold
BY DEF SumsHold, Sum

LEMMA SentIs ==
    ASSUME NEW link \in Links \cup {NoLink}, NEW out \in Seq(Sent(link))
    PROVE  /\ out \in Seq(FittingPackets)
           /\ \A k \in DOMAIN out : out[k].link = link /\ out[k].message.acknum = 0
<1>1. Sent(link) \subseteq FittingPackets
      BY DEF Sent, FittingPackets
<1>2. \A p \in Sent(link) : p.link = link /\ p.message.acknum = 0
      BY DEF Sent
<1>3. \A k \in DOMAIN out : out[k] \in Sent(link)
      OBVIOUS
<1> QED BY <1>1, <1>2, <1>3

LEMMA OnLinkIs ==
    ASSUME NEW link \in Links, NEW out \in Seq(OnLink(link))
    PROVE  /\ out \in Seq(FittingPackets)
           /\ \A k \in DOMAIN out : out[k].link = link
<1>1. OnLink(link) \subseteq FittingPackets
      BY DEF OnLink, FittingPackets
<1>2. \A p \in OnLink(link) : p.link = link
      BY DEF OnLink
<1>3. \A k \in DOMAIN out : out[k] \in OnLink(link)
      OBVIOUS
<1> QED BY <1>1, <1>2, <1>3

\* A call without an acknowledgement says nothing that could be false.
LEMMA PlainTruthful ==
    ASSUME \A k \in DOMAIN call'.output : call'.output[k].message.acknum = 0,
           call'.op = "eui_parse" /\ call'.message # << >> =>
               \A k \in DOMAIN call'.output : call'.output[k].link = call'.link
    PROVE  Truthful'
<1>1. \A k \in DOMAIN Answers' : Answers'[k].acknum = 0
      BY DEF Answers
<1>2. AckedMeansDone'
      BY <1>1 DEF AckedMeansDone
<1>3. AnswersOnRequestLink'
      BY DEF AnswersOnRequestLink
<1> QED BY <1>2, <1>3 DEF Truthful

\* what FailureChangesNothing says of a step
FailureOnce ==
    call'.notified = <<"EUI_CB_TRACKED">> /\ call'.status[1].action # EUI_ACTION_OK =>
        /\ memory' = memory /\ call'.called = << >>
        /\ \A k \in DOMAIN call'.output : call'.output[k].message.acknum = 0

\* of the packets a request makes the library write only the one after the callback's
\* acknowledges it
Acked(link, first, ack, whole) ==
    /\ whole \in Seq(FittingPackets) /\ \A k \in DOMAIN whole : whole[k].link = link
    /\ \A j \in DOMAIN first : j \in DOMAIN whole /\ whole[j] = first[j]
    /\ \A k \in DOMAIN whole : whole[k].message.acknum # 0 => ack # << >> /\ k = Len(first) + 1

LEMMA OneAck ==
    ASSUME NEW link \in Links, NEW first \in Seq(Sent(link)), NEW ack, NEW answer \in Seq(Sent(link)),
           NEW rest \in Seq(Sent(link)), ack = << >> \/ \E p \in OnLink(link) : ack = <<p>>,
           NEW whole, whole = ((first \o ack) \o answer) \o rest
    PROVE  Acked(link, first, ack, whole)
<1> DEFINE S == OnLink(link)
<1>1. first \in Seq(S) /\ answer \in Seq(S) /\ rest \in Seq(S)
      BY SentOnLink
<1>2. ack \in Seq(S) /\ Len(ack) <= 1
      <2>1. CASE ack = << >>
            BY <2>1
      <2>2. CASE ack # << >>
            <3>1. PICK p \in S : ack = <<p>>
                  BY <2>2
            <3> HIDE DEF S
            <3> QED BY <3>1
      <2> QED BY <2>1, <2>2
<1>3. whole \in Seq(S) /\ Parts(first, ack, answer, rest, whole)
      <2> HIDE DEF S
      <2> QED BY <1>1, <1>2, PartsIn, Zenon
<1>4. /\ \A j \in DOMAIN first : first[j].message.acknum = 0
      /\ \A j \in DOMAIN answer : answer[j].message.acknum = 0
      /\ \A j \in DOMAIN rest : rest[j].message.acknum = 0
      BY SentIs
<1>5. whole \in Seq(FittingPackets) /\ \A k \in DOMAIN whole : whole[k].link = link
      BY <1>3, OnLinkIs
<1>6. ASSUME NEW k \in DOMAIN whole, whole[k].message.acknum # 0
      PROVE  ack # << >> /\ k = Len(first) + 1
      <2>1. \/ k \in DOMAIN first /\ whole[k] = first[k]
            \/ k = Len(first) + 1 /\ ack # << >>
            \/ \E j \in DOMAIN answer : whole[k] = answer[j]
            \/ \E j \in DOMAIN rest : whole[k] = rest[j]
            BY <1>3, Zenon DEF Parts
      <2> QED BY <1>4, <1>6, <2>1
<1>7. \A j \in DOMAIN first : j \in DOMAIN whole /\ whole[j] = first[j]
      BY <1>3, Zenon DEF Parts
<1> QED BY <1>5, <1>6, <1>7, Zenon DEF Acked

\* A packet that names an object: whatever it asks for.
LEMMA HandledStep ==
    ASSUME TypeInv, NEW link \in Links, NEW m \in Inbound, NEW counted \in Counts(m),
           EuiParseOk(link, m, counted),
           FindMessageObject(Namespace(m.internal), m.id) # << >>
    PROVE  TypeInv' /\ Truthful' /\ FailureOnce
<1> DEFINE found  == FindMessageObject(Namespace(m.internal), m.id)
           obj    == found[1]
           auto   == AutoInterface(link)
           action == HandlePacketAction(auto, m, counted, obj, dev_tracked, memory)
           ack    == IF Acknowledges(action) THEN HandlePacketAck(link, m, obj) ELSE << >>
<1>0. Tracked /\ Typed(memory)
      BY DEF TypeInv
<1>1. /\ memory' = action.memory
      /\ \E answer \in Seq(Sent(link)), rest \in Seq(Sent(link)) :
            call'.output = ((action.output \o ack) \o answer) \o rest
      /\ call'.op = "eui_parse" /\ call'.link = link /\ call'.message = <<m>>
      /\ call'.called = action.called /\ call'.notified = <<"EUI_CB_TRACKED">>
      /\ call'.status \in {<<bits>> : bits \in [action : {action.status}, ack : {0, 1}, query : 0..3]}
      BY <1>0, HandledIs, Zenon
<1>2. PICK answer \in Seq(Sent(link)), rest \in Seq(Sent(link)) :
          call'.output = ((action.output \o ack) \o answer) \o rest
      BY <1>1, Zenon
<1>3. Reachable(obj)
      BY <1>0, FoundIsReachable DEF Tracked
<1>4. /\ action.status \in 0..3 /\ Typed(action.memory) /\ action.output \in Seq(Sent(link))
      /\ action.status # EUI_ACTION_OK =>
            action.memory = memory /\ action.called = << >> /\ action.output = << >>
      <2> HIDE DEF obj
      <2> QED BY <1>0, <1>3, ActionIs, AutoIs
<1>5. /\ ack # << >> => /\ action.status = EUI_ACTION_OK /\ m.acknum # 0 /\ m.response = 1
                        /\ link \notin Mute \cup {NoLink} /\ obj.ptr # Null
      /\ ack = << >> \/ \E p \in OnLink(link) : ack = <<p>>
      <2> HIDE DEF obj, action
      <2>1. CASE Acknowledges(action)
            <3>1. ack = HandlePacketAck(link, m, obj) /\ action.status = EUI_ACTION_OK
                  BY <2>1 DEF Acknowledges
            <3> HIDE DEF ack
            <3>2. Answered(link, m, obj, ack)
                  BY <1>3, <3>1, AckIs, Zenon
            <3> QED BY <3>1, <3>2 DEF Answered
      <2>2. CASE ~Acknowledges(action)
            BY <2>2
      <2> QED BY <2>1, <2>2
<1>6. /\ interface_last' = link
      /\ dev_tracked' = dev_tracked /\ registered' = registered /\ identified' = identified
      BY Zenon DEF EuiParseOk
<1>7. Target' = found /\ Answers' = [k \in DOMAIN call'.output |-> call'.output[k].message]
      <2>1. call'.message # << >> /\ call'.message[1] = m
            <3>1. call'.message = <<m>>
                  BY <1>1, Zenon
            <3> QED BY <3>1
      <2>2. Target' = FindMessageObject(Namespace(m.internal), m.id)
            BY <1>6, <2>1 DEF Target, Namespace
      <2> QED BY <2>2 DEF Answers
<1>8. auto = IF registered THEN link ELSE NoLink
      BY DEF AutoInterface
<1> HIDE DEF found, auto
<1>9. SumsHold /\ ack # << >> => Done(link, auto, m, obj, action)
      <2> HIDE DEF ack, obj
      <2> QED BY <1>0, <1>3, <1>5, DoneIs
<1> HIDE DEF ack, action
<1>10. Acked(link, action.output, ack, call'.output)
      BY <1>2, <1>4, <1>5, OneAck, Zenon
<1>11. TypeInv'
      <2>1. call'.status \in {<<bits>> : bits \in ErrorBits}
            <3>1. [action : {action.status}, ack : {0, 1}, query : 0..3] \subseteq ErrorBits
                  BY <1>4 DEF ErrorBits
            <3> QED BY <1>1, <3>1
      <2> QED BY <1>1, <1>4, <1>6, <1>10, <2>1 DEF TypeInv, Tracked, Acked
<1>12. AnswersOnRequestLink'
      BY <1>1, <1>10 DEF AnswersOnRequestLink, Acked
<1>13. ASSUME SumsHold PROVE AckedMeansDone'
      <2>1. ASSUME NEW k \in DOMAIN Answers', Answers'[k].acknum # 0
            PROVE  /\ ack # << >> /\ k = Len(action.output) + 1 /\ DOMAIN Answers' = DOMAIN call'.output
                   /\ \A j \in DOMAIN action.output : j \in 1 .. k - 1 /\ Answers'[j] = action.output[j].message
            <3>1. k \in DOMAIN call'.output /\ call'.output[k].message.acknum # 0
                  BY <1>7, <2>1
            <3>2. k = Len(action.output) + 1 /\ ack # << >>
                  BY <1>10, <3>1 DEF Acked
            <3>3. DOMAIN action.output = 1 .. Len(action.output) /\ Len(action.output) \in Nat
                  BY <1>4
            <3> QED BY <1>7, <1>10, <3>2, <3>3 DEF Acked
      <2>2. call'.message[1] = m /\ Target'[1] = obj
            BY <1>1, <1>7
      <2> SUFFICES ASSUME NEW k \in DOMAIN Answers', Answers'[k].acknum # 0
                   PROVE  /\ m.type = obj.type /\ m.type # TYPE_CALLBACK =>
                                 \A n \in DOMAIN m.data :
                                     /\ m.offset_in + n \in DOMAIN memory'[obj.ptr]
                                     /\ memory'[obj.ptr][m.offset_in + n] = m.data[n]
                          /\ m.type = TYPE_CALLBACK /\ obj.ptr \in DOMAIN Functions =>
                                 /\ call'.called = <<obj.ptr>>
                                 /\ \A v \in DOMAIN Functions[obj.ptr].stores :
                                        memory'[v] = Functions[obj.ptr].stores[v]
                                 /\ \A id \in ToSet(Functions[obj.ptr].sends) :
                                        /\ FindMessageObject(dev_tracked', id) # << >> /\ registered'
                                        /\ FindMessageObject(dev_tracked', id)[1].ptr # Null
                                        => \E j \in 1 .. k - 1 : Answers'[j].id = id
            BY <2>2, Zenon DEF AckedMeansDone
      <2>3. ack # << >> /\ \A j \in DOMAIN action.output : j \in 1 .. k - 1 /\ Answers'[j] = action.output[j].message
            BY <2>1
      <2>4. registered => auto = link
            BY <1>8
      <2> HIDE DEF obj
      <2>5. m.type = obj.type /\ m.type # TYPE_CALLBACK =>
                \A n \in DOMAIN m.data :
                    /\ m.offset_in + n \in DOMAIN memory'[obj.ptr]
                    /\ memory'[obj.ptr][m.offset_in + n] = m.data[n]
            BY <1>1, <1>9, <1>13, <2>3 DEF Done
      <2>6. ASSUME m.type = TYPE_CALLBACK, obj.ptr \in DOMAIN Functions
            PROVE  /\ call'.called = <<obj.ptr>>
                   /\ \A v \in DOMAIN Functions[obj.ptr].stores :
                          memory'[v] = Functions[obj.ptr].stores[v]
            BY <1>1, <1>9, <1>13, <2>3, <2>6 DEF Done
      <2>7. ASSUME m.type = TYPE_CALLBACK, obj.ptr \in DOMAIN Functions,
                   NEW id \in ToSet(Functions[obj.ptr].sends),
                   FindMessageObject(dev_tracked', id) # << >>, registered',
                   FindMessageObject(dev_tracked', id)[1].ptr # Null
            PROVE  \E j \in 1 .. k - 1 : Answers'[j].id = id
            <3>1. \E j \in DOMAIN action.output : action.output[j].message.id = id
                  BY <1>6, <1>9, <1>13, <2>3, <2>4, <2>7 DEF Done
            <3> QED BY <2>3, <3>1
      <2> QED BY <2>5, <2>6, <2>7
<1>14. FailureOnce
      <2> SUFFICES ASSUME call'.status[1].action # EUI_ACTION_OK
                   PROVE  /\ memory' = memory /\ call'.called = << >>
                          /\ \A k \in DOMAIN call'.output : call'.output[k].message.acknum = 0
            BY DEF FailureOnce
      <2>1. action.status # EUI_ACTION_OK
            BY <1>1
      <2>2. memory' = memory /\ call'.called = << >> /\ ack = << >>
            BY <1>1, <1>4, <1>5, <2>1
      <2> QED BY <1>10, <2>2 DEF Acked
<1> QED BY <1>11, <1>12, <1>13, <1>14, SumsStay DEF Truthful
\* A call whose packets are no acknowledgements.
LEMMA SaysNothing ==
    ASSUME NEW link \in Links \cup {NoLink}, call'.output \in Seq(Sent(link)),
           call'.op = "eui_parse" /\ call'.message # << >> => Sent(link) \subseteq Sent(call'.link)
    PROVE  call'.output \in Seq(FittingPackets) /\ Truthful'
<1>1. /\ call'.output \in Seq(FittingPackets)
      /\ \A k \in DOMAIN call'.output : call'.output[k].link = link /\ call'.output[k].message.acknum = 0
      BY SentIs
<1>2. call'.op = "eui_parse" /\ call'.message # << >> =>
          \A k \in DOMAIN call'.output : call'.output[k].link = call'.link
      <2>1. ASSUME NEW k \in DOMAIN call'.output, Sent(link) \subseteq Sent(call'.link)
            PROVE  call'.output[k].link = call'.link
            <3>1. call'.output[k] \in Sent(call'.link)
                  BY <2>1
            <3> QED BY <3>1 DEF Sent
      <2> QED BY <2>1
<1> QED BY <1>1, <1>2, PlainTruthful

\* A packet that names nothing.
LEMMA UnknownStep ==
    ASSUME TypeInv, NEW link \in Links, NEW m \in Inbound, NEW counted \in Counts(m),
           EuiParseOk(link, m, counted),
           FindMessageObject(Namespace(m.internal), m.id) = << >>
    PROVE  TypeInv' /\ Truthful' /\ FailureOnce
<1>1. /\ interface_last' = link /\ memory' = memory
      /\ dev_tracked' = dev_tracked /\ registered' = registered /\ identified' = identified
      BY Zenon DEF EuiParseOk
<1>2. PICK bits \in Garbage :
          call' = [Call("eui_parse", link, <<m>>, Report(AutoInterface(link), "EUI_CB_UNTRACKED", memory))
                   EXCEPT !.notified = <<"EUI_CB_UNTRACKED">>, !.status = <<bits>>]
      BY Zenon DEF EuiParseOk
<1>3. /\ call'.output = Report(AutoInterface(link), "EUI_CB_UNTRACKED", memory)
      /\ call'.link = link /\ call'.notified = <<"EUI_CB_UNTRACKED">> /\ call'.status = <<bits>>
      BY <1>2 DEF Call
<1>4. /\ AutoInterface(link) \in Links \cup {NoLink} /\ Sent(AutoInterface(link)) \subseteq Sent(link)
      BY AutoIs DEF Sent
<1>5. call'.output \in Seq(Sent(AutoInterface(link)))
      BY <1>3, ReportSent DEF TypeInv
<1>6. call'.output \in Seq(FittingPackets) /\ Truthful'
      BY <1>3, <1>4, <1>5, SaysNothing
<1>7. TypeInv'
      BY <1>1, <1>3, <1>6, GarbageAssumption DEF TypeInv, Tracked
<1>8. FailureOnce
      BY <1>3 DEF FailureOnce
<1> QED BY <1>6, <1>7, <1>8

\* A packet that does not check.
LEMMA ErrorStep ==
    ASSUME TypeInv, NEW link, EuiParseError(link)
    PROVE  TypeInv' /\ Truthful' /\ FailureOnce
<1> DEFINE auto == AutoInterface(interface_last)
<1>1. /\ interface_last' = interface_last /\ memory' = memory
      /\ dev_tracked' = dev_tracked /\ registered' = registered /\ identified' = identified
      BY DEF EuiParseError
<1>2. PICK bits \in Garbage :
          call' = [Call("eui_parse", link, << >>, Report(auto, "EUI_CB_PARSE_FAIL", memory))
                   EXCEPT !.notified = <<"EUI_CB_PARSE_FAIL">>, !.status = <<bits>>]
      BY Zenon DEF EuiParseError
<1>3. /\ call'.output = Report(auto, "EUI_CB_PARSE_FAIL", memory) /\ call'.message = << >>
      /\ call'.notified = <<"EUI_CB_PARSE_FAIL">> /\ call'.status = <<bits>>
      BY <1>2 DEF Call
<1>4. auto \in Links \cup {NoLink}
      BY AutoIs DEF TypeInv
<1> HIDE DEF auto
<1>5. call'.output \in Seq(Sent(auto))
      BY <1>3, ReportSent DEF TypeInv
<1>6. call'.output \in Seq(FittingPackets) /\ Truthful'
      BY <1>3, <1>4, <1>5, SaysNothing
<1>7. TypeInv'
      BY <1>1, <1>3, <1>6, GarbageAssumption DEF TypeInv, Tracked
<1>8. FailureOnce
      BY <1>3 DEF FailureOnce
<1> QED BY <1>6, <1>7, <1>8

\* The calls that send.
LEMMA SendStep ==
    ASSUME TypeInv, NEW op, op # "eui_parse", NEW link \in Links \cup {NoLink}, NEW found,
           found # << >> => Reachable(found[1]), Send(op, link, found)
    PROVE  TypeInv' /\ Truthful' /\ FailureOnce
<1>1. /\ interface_last' = interface_last /\ memory' = memory
      /\ dev_tracked' = dev_tracked /\ registered' = registered /\ identified' = identified
      /\ call' = Call(op, link, << >>, IF found = << >> THEN << >> ELSE EuiSend(link, found[1], 0, memory))
      BY Zenon DEF Send
<1>2. /\ call'.output = IF found = << >> THEN << >> ELSE EuiSend(link, found[1], 0, memory)
      /\ call'.op = op /\ call'.notified = << >> /\ call'.status = << >>
      BY <1>1 DEF Call
<1>3. call'.output \in Seq(Sent(link))
      <2>1. CASE found = << >>
            BY <1>2, <2>1
      <2>2. CASE found # << >>
            <3>1. 0 \in Bit
                  BY BitsDef
            <3> QED BY <1>2, <2>2, <3>1, SendSent DEF TypeInv
      <2> QED BY <2>1, <2>2
<1>4. call'.output \in Seq(FittingPackets) /\ Truthful'
      BY <1>2, <1>3, SaysNothing
<1>5. TypeInv'
      <2>1. /\ interface_last' = interface_last /\ memory' = memory
            /\ dev_tracked' = dev_tracked /\ registered' = registered /\ identified' = identified
            BY <1>1
      <2>2. call'.status = << >>
            BY <1>2
      <2> QED BY <1>4, <2>1, <2>2 DEF TypeInv, Tracked
<1>6. FailureOnce
      <2>1. call'.notified = << >>
            BY <1>2
      <2> QED BY <2>1 DEF FailureOnce
<1> QED BY <1>4, <1>5, <1>6

\* A call that sends nothing.
LEMMA SilentStep ==
    ASSUME TypeInv, NEW op, NEW link, call' = Call(op, link, << >>, << >>),
           Typed(memory)', Tracked', registered' \in BOOLEAN, interface_last' \in Links \cup {NoLink},
           identified' \in 0..MaxIdentified
    PROVE  TypeInv' /\ Truthful' /\ FailureOnce
<1>1. call'.output = << >> /\ call'.message = << >> /\ call'.notified = << >> /\ call'.status = << >>
      BY DEF Call
<1>2. << >> \in Seq(FittingPackets) /\ DOMAIN << >> = {}
      OBVIOUS
<1>3. Truthful'
      BY <1>1, <1>2, PlainTruthful
<1>4. TypeInv'
      BY <1>1, <1>2 DEF TypeInv
<1>5. FailureOnce
      BY <1>1 DEF FailureOnce
<1> QED BY <1>3, <1>4, <1>5

LEMMA ApplicationStep ==
    ASSUME TypeInv, Application PROVE TypeInv' /\ Truthful' /\ FailureOnce
<1>1. \A id : FindMessageObject(dev_tracked, id) # << >> => Reachable(FindMessageObject(dev_tracked, id)[1])
      <2>1. dev_tracked = Namespace(0)
            BY DEF Namespace
      <2> QED BY <2>1, FoundIsReachable DEF TypeInv, Tracked
<1>2. \A obj \in Untracked : <<obj>>[1] = obj /\ Reachable(obj)
      BY ObjectsAssumption, KnownIsReachable
<1>3. AutoInterface(interface_last) \in Links \cup {NoLink}
      BY DEF TypeInv, AutoInterface
<1>4. ASSUME NEW id, EuiSendTracked(id) PROVE TypeInv' /\ Truthful' /\ FailureOnce
      BY <1>1, <1>3, <1>4, SendStep DEF EuiSendTracked
<1>5. ASSUME NEW id, NEW link \in Links, EuiSendTrackedOn(id, link)
      PROVE  TypeInv' /\ Truthful' /\ FailureOnce
      BY <1>1, <1>5, SendStep DEF EuiSendTrackedOn
<1>6. ASSUME NEW obj \in Untracked, EuiSendUntracked(obj) PROVE TypeInv' /\ Truthful' /\ FailureOnce
      BY <1>2, <1>3, <1>6, SendStep DEF EuiSendUntracked
<1>7. ASSUME NEW obj \in Untracked, NEW link \in Links, EuiSendUntrackedOn(obj, link)
      PROVE  TypeInv' /\ Truthful' /\ FailureOnce
      BY <1>2, <1>7, SendStep DEF EuiSendUntrackedOn
<1>8. ASSUME NEW update \in Updates, AppStore(update[1], update[2])
      PROVE  TypeInv' /\ Truthful' /\ FailureOnce
      <2>1. /\ memory' = [memory EXCEPT ![update[1]] = update[2]]
            /\ call' = Call("none", NoLink, << >>, << >>)
            /\ dev_tracked' = dev_tracked /\ registered' = registered
            /\ interface_last' = interface_last /\ identified' = identified
            BY <1>8 DEF AppStore
      <2>2. Typed(memory)'
            BY <2>1, MemoryAssumption DEF TypeInv, Typed
      <2> QED BY <2>1, <2>2, SilentStep DEF TypeInv, Tracked
<1> QED BY <1>4, <1>5, <1>6, <1>7, <1>8 DEF Application

\* eui_setup_identifier writes two bytes.
LEMMA IdentifierIs ==
    ASSUME TypeInv, NEW uuid \in Uuids, EuiSetupIdentifier(uuid)
    PROVE  Typed(memory)' /\ identified' \in 0..MaxIdentified
<1> DEFINE n    == Len(uuid)
           base == Address(memory["board_identifier"], 1)
           next == [k \in 1 .. n |-> [c \in Word |-> Crc16(uuid[k], c)]]
           Body(g) == [k \in 0 .. n |-> IF k = 0 THEN base ELSE Crc16(uuid[k], g[k - 1])]
           crc  == CHOOSE g : g = Body(g)
           bytes == IF uuid = << >> THEN <<0, 0>> ELSE LittleEndian(crc[n])
<1>1. /\ identified < MaxIdentified /\ identified' = identified + 1
      /\ memory' = [memory EXCEPT !["board_identifier"] = bytes]
      BY Zenon DEF EuiSetupIdentifier
<1>2. uuid \in Seq(Byte) /\ MaxIdentified \in Nat
      BY IdentifierAssumption
<1>3. n \in Nat /\ \A k \in 1 .. n : uuid[k] \in Byte
      BY <1>2
<1>4. "board_identifier" \in DOMAIN Memory /\ Len(Memory["board_identifier"]) = 2
      BY LibraryVariables
<1>5. base \in Word
      <2>1. memory["board_identifier"] \in Seq(Byte)
            BY <1>4 DEF TypeInv, Typed, Fits
      <2> QED BY <2>1, AddressIsWord
<1> HIDE DEF base, n
<1>6. next \in [1 .. n -> [Word -> Word]]
      BY <1>3, CrcType
<1>7. PICK f \in [0 .. n -> Word] : Follows(f, n, base, next)
      <2> HIDE DEF next
      <2> QED BY <1>3, <1>5, <1>6, Recursion, Zenon
<1>8. f = Body(f)
      <2>1. ASSUME NEW k \in 0 .. n PROVE f[k] = IF k = 0 THEN base ELSE Crc16(uuid[k], f[k - 1])
            <3>1. CASE k = 0
                  BY <1>7, <3>1 DEF Follows
            <3>2. CASE k # 0
                  <4>1. k \in 1 .. n /\ k - 1 \in 0 .. n
                        BY <1>3, <3>2
                  <4>2. f[k] = next[k][f[k - 1]] /\ f[k - 1] \in Word
                        BY <1>7, <4>1 DEF Follows
                  <4> QED BY <3>2, <4>1, <4>2
            <3> QED BY <3>1, <3>2
      <2> QED BY <2>1
<1>9. crc = Body(crc)
      <2> HIDE DEF Body
      <2> QED BY <1>8, Zenon
<1> HIDE DEF crc
<1>10. crc[n] \in Word
      <2>1. 0 \in 0 .. n /\ n \in 0 .. n /\ \A k \in 1 .. n : k \in 0 .. n /\ k # 0
            BY <1>3
      <2>2. crc[0] = base /\ \A k \in 1 .. n : crc[k] = Crc16(uuid[k], crc[k - 1])
            BY <1>9, <2>1
      <2>3. crc[0] \in Word /\ \A k \in 1 .. n : crc[k - 1] \in Word => crc[k] \in Word
            BY <1>3, <1>5, <2>2, CrcType
      <2>4. \A k \in 0 .. n : crc[k] \in Word
            BY <1>3, <2>3, Stays, Zenon
      <2> QED BY <2>1, <2>4
<1>11. Fits("board_identifier", bytes)
      <2>1. 0 \in Byte
            BY ByteDef
      <2>2. <<0, 0>> \in Seq(Byte) /\ Len(<<0, 0>>) = 2
            BY <2>1
      <2>3. LittleEndian(crc[n]) \in Seq(Byte) /\ Len(LittleEndian(crc[n])) = 2
            BY <1>10, LittleEndianType
      <2> QED BY <1>4, <2>2, <2>3 DEF Fits
<1> HIDE DEF bytes
<1>12. Typed(memory)'
      BY <1>1, <1>4, <1>11 DEF TypeInv, Typed
<1> QED BY <1>1, <1>2, <1>12 DEF TypeInv

LEMMA SetupStep ==
    ASSUME TypeInv, Setup PROVE TypeInv' /\ Truthful' /\ FailureOnce
<1>1. Head(Interfaces) \in Links
      <2>1. Interfaces \in Seq(Links) /\ Interfaces # << >>
            BY LinksAssumption
      <2> QED BY <2>1
<1>2. CASE EuiSetupInterfaces \/ EuiClearInterfaces
      <2>1. /\ call' = Call("eui_setup_interfaces", NoLink, << >>, << >>)
            /\ memory' = memory /\ dev_tracked' = dev_tracked /\ identified' = identified
            /\ registered' \in BOOLEAN /\ interface_last' \in Links \cup {NoLink}
            BY <1>1, <1>2 DEF EuiSetupInterfaces, EuiClearInterfaces
      <2> QED BY <2>1, SilentStep DEF TypeInv, Tracked
<1>3. ASSUME NEW array \in Arrays \cup {<< >>}, EuiSetupTracked(array)
      PROVE  TypeInv' /\ Truthful' /\ FailureOnce
      <2>1. /\ call' = Call("eui_setup_tracked", NoLink, << >>, << >>) /\ dev_tracked' = array
            /\ memory' = memory /\ registered' = registered
            /\ interface_last' = interface_last /\ identified' = identified
            BY <1>3 DEF EuiSetupTracked
      <2> QED BY <2>1, SilentStep DEF TypeInv, Tracked
<1>4. ASSUME NEW uuid \in Uuids, EuiSetupIdentifier(uuid)
      PROVE  TypeInv' /\ Truthful' /\ FailureOnce
      <2>1. Typed(memory)' /\ identified' \in 0..MaxIdentified
            BY <1>4, IdentifierIs
      <2>2. /\ call' = Call("eui_setup_identifier", NoLink, << >>, << >>) /\ dev_tracked' = dev_tracked
            /\ registered' = registered /\ interface_last' = interface_last
            BY <1>4, Zenon DEF EuiSetupIdentifier
      <2> QED BY <2>1, <2>2, SilentStep DEF TypeInv, Tracked
<1> QED BY <1>2, <1>3, <1>4 DEF Setup

LEMMA InitTyped == Init => TypeInv /\ Truthful
<1> SUFFICES ASSUME Init PROVE TypeInv /\ Truthful
      OBVIOUS
<1>1. call = Call("none", NoLink, << >>, << >>) /\ memory = Memory
      BY DEF Init
<1>2. call.op = "none" /\ call.output = << >> /\ call.status = << >>
      BY <1>1 DEF Call
<1>3. << >> \in Seq(FittingPackets) /\ DOMAIN << >> = {}
      OBVIOUS
<1>4. 0 \in 0..MaxIdentified
      BY IdentifierAssumption
<1>5. TypeInv
      BY <1>1, <1>2, <1>3, <1>4, MemoryTyped DEF Init, TypeInv, Tracked
<1>6. AnswersOnRequestLink
      BY <1>2 DEF AnswersOnRequestLink
<1>7. AckedMeansDone
      <2>1. DOMAIN Answers = {}
            BY <1>2, <1>3 DEF Answers
      <2> QED BY <2>1 DEF AckedMeansDone
<1> QED BY <1>5, <1>6, <1>7 DEF Truthful

LEMMA StepTyped ==
    TypeInv /\ Truthful /\ [Next]_vars => TypeInv' /\ Truthful' /\ [FailureOnce]_vars
<1> SUFFICES ASSUME TypeInv, Truthful, [Next]_vars PROVE TypeInv' /\ Truthful' /\ [FailureOnce]_vars
      OBVIOUS
<1>1. CASE Inputs
      <2>1. ASSUME NEW link \in Links, NEW m \in Inbound, NEW counted \in Counts(m),
        EuiParseOk(link, m, counted)
            PROVE  TypeInv' /\ Truthful' /\ FailureOnce
            BY <2>1, HandledStep, UnknownStep
      <2>2. ASSUME NEW link \in Links, EuiParseError(link)
            PROVE  TypeInv' /\ Truthful' /\ FailureOnce
            BY <2>2, ErrorStep
      <2> QED BY <1>1, <2>1, <2>2 DEF Inputs
<1>2. CASE Application
      BY <1>2, ApplicationStep
<1>3. CASE Setup
      BY <1>3, SetupStep
<1>4. CASE UNCHANGED vars
      <2>1. TypeInv'
            BY <1>4 DEF vars, TypeInv, Tracked, Typed
      <2>2. Answers' = Answers /\ Target' = Target
            BY <1>4 DEF vars, Answers, Target, Namespace
      <2>3. AnswersOnRequestLink'
            BY <1>4 DEF vars, Truthful, AnswersOnRequestLink
      <2>4. SumsHold => AckedMeansDone'
            <3>1. /\ call' = call /\ memory' = memory /\ dev_tracked' = dev_tracked
                  /\ registered' = registered
                  BY <1>4 DEF vars
            <3> QED BY <2>2, <3>1 DEF Truthful, AckedMeansDone
      <2> QED BY <1>4, <2>1, <2>3, <2>4, SumsStay DEF Truthful
<1> QED BY <1>1, <1>2, <1>3, <1>4 DEF Next

LEMMA Typing == Spec => [](TypeInv /\ Truthful)
BY InitTyped, StepTyped, PTL DEF Spec

LEMMA TypeInvSays == TypeInv => TypeOK
<1> SUFFICES ASSUME TypeInv PROVE TypeOK
      OBVIOUS
<1>1. \A k \in DOMAIN call.output :
          call.output[k].link \in Links /\ call.output[k].message \in Message
      <2>1. call.output \in Seq(FittingPackets)
            BY DEF TypeInv
      <2>2. \A k \in DOMAIN call.output : call.output[k] \in FittingPackets
            BY <2>1
      <2> QED BY <2>2 DEF FittingPackets, Framable
<1>2. \A v \in DOMAIN Memory : memory[v] \in Seq(Byte) /\ Len(memory[v]) = Len(Memory[v])
      BY DEF TypeInv, Typed, Fits
<1> QED BY <1>1, <1>2 DEF TypeInv, TypeOK, Tracked

\* Whatever packets arrive and whatever the application calls, every variable keeps its size
\* and what goes out are packets the encoder takes, on links that can send: electricui.c.
THEOREM TypesHold == Spec => []TypeOK
BY Typing, TypeInvSays, PTL

\* Everything a call of eui_parse sends for a packet goes out on the link the packet came in
\* on, the callbacks' and interface_cb's packets included: auto_interface.
THEOREM AnswersGoBack == Spec => []AnswersOnRequestLink
<1>1. Truthful => AnswersOnRequestLink
      BY DEF Truthful
<1> QED BY <1>1, Typing, PTL

\* An acknowledgement is sent only when what was asked for is done, after everything the
\* callback sent: eui_parse, handle_packet_ack.  Like OnlyAddressed it needs that the sums
\* of the bounds check do not wrap.
THEOREM AcksAreTrue == ASSUME SumsHold PROVE Spec => []AckedMeansDone
<1>1. Truthful => AckedMeansDone
      BY DEF Truthful
<1> QED BY <1>1, Typing, PTL

\* A request that is reported to have failed has had no effect and is not acknowledged:
\* handle_packet_action, eui_parse.
THEOREM FailuresAreWhole == Spec => FailureChangesNothing
<1>1. Spec => [][FailureOnce]_vars
      BY InitTyped, StepTyped, PTL DEF Spec
<1> QED BY <1>1 DEF FailureChangesNothing, FailureOnce
-----------------------------------------------------------------------------
(* What a peer's copy of a variable holds                                      *)

\* Bytes are numbers.
LEMMA BytesAreInts == ASSUME NEW bytes \in Seq(Byte) PROVE bytes \in Seq(Int)
<1>1. Byte \subseteq Int
      BY ByteDef
<1> QED BY <1>1, SeqMonotonic

\* A copy stays a sequence of numbers.
LEMMA PatchedType ==
    ASSUME NEW copy \in Seq(Int), NEW internal, NEW id, NEW m \in Message
    PROVE  Patched(copy, internal, id, m) \in Seq(Int)
<1>1. m.data \in Seq(Byte) /\ m.offset_in \in Word
      BY DEF Message
<1>2. m.data \in Seq(Int)
      BY <1>1, BytesAreInts
<1>3. Store(copy, m.offset_in, m.data) \in Seq(Int)
      <2> DEFINE stored == [n \in 1 .. Len(copy) |->
                               IF n - m.offset_in \in DOMAIN m.data THEN m.data[n - m.offset_in] ELSE copy[n]]
      <2>1. Store(copy, m.offset_in, m.data) = stored
            BY DEF Store
      <2>2. \A n \in 1 .. Len(copy) : stored[n] \in Int
            <3> SUFFICES ASSUME NEW n \in 1 .. Len(copy) PROVE stored[n] \in Int
                  OBVIOUS
            <3>1. copy[n] \in Int
                  OBVIOUS
            <3>2. n - m.offset_in \in DOMAIN m.data => m.data[n - m.offset_in] \in Int
                  BY <1>2
            <3> QED BY <3>1, <3>2
      <2> QED BY <2>1, <2>2
<1> QED BY <1>2, <1>3 DEF Patched

\* the copy after each of the packets
Copies(copy, internal, id, out, after) ==
    /\ after \in [0 .. Len(out) -> Seq(Int)]
    /\ after[0] = copy
    /\ \A k \in 1 .. Len(out) : after[k] = Patched(after[k - 1], internal, id, out[k].message)

LEMMA RebuiltIs ==
    ASSUME NEW copy \in Seq(Int), NEW internal, NEW id, NEW out \in Seq(Packets)
    PROVE  \E after : /\ Copies(copy, internal, id, out, after)
                      /\ Rebuilt(copy, internal, id, out) = after[Len(out)]
<1> DEFINE n == Len(out)
           T == Seq(Int)
           patch(c, k) == Patched(c, internal, id, out[k].message)
           next == [k \in 1 .. n |-> [c \in T |-> patch(c, k)]]
           Body(g) == [k \in 0 .. n |-> IF k = 0 THEN copy ELSE patch(g[k - 1], k)]
           after == CHOOSE g : g = Body(g)
<1>1. n \in Nat
      OBVIOUS
<1>2. Rebuilt(copy, internal, id, out) = after[n]
      BY Zenon DEF Rebuilt
<1>3. \A k \in 1 .. n : out[k].message \in Message
      <2>1. \A k \in 1 .. n : out[k] \in Packets
            BY ElementOfSeq
      <2> QED BY <2>1 DEF Packets
<1>4. ASSUME NEW k \in 1 .. n, NEW c \in T PROVE patch(c, k) \in T
      <2> HIDE DEF n
      <2> QED BY <1>3, PatchedType
<1> HIDE DEF n, patch
<1>5. next \in [1 .. n -> [T -> T]]
      BY <1>4
<1>6. PICK f \in [0 .. n -> T] : Follows(f, n, copy, next)
      <2> HIDE DEF T, next
      <2>1. copy \in T
            BY DEF T
      <2> QED BY <1>1, <1>5, <2>1, Recursion, Zenon
<1>7. f = Body(f)
      <2>1. ASSUME NEW k \in 0 .. n PROVE f[k] = IF k = 0 THEN copy ELSE patch(f[k - 1], k)
            <3>1. CASE k = 0
                  BY <1>6, <3>1 DEF Follows
            <3>2. CASE k # 0
                  <4>1. k \in 1 .. n /\ k - 1 \in 0 .. n
                        BY <1>1, <3>2
                  <4>2. f[k] = next[k][f[k - 1]] /\ f[k - 1] \in T
                        BY <1>6, <4>1 DEF Follows
                  <4>3. next[k][f[k - 1]] = patch(f[k - 1], k)
                        BY <4>1, <4>2
                  <4> HIDE DEF next
                  <4> QED BY <3>2, <4>2, <4>3
            <3> QED BY <3>1, <3>2
      <2> QED BY <2>1
<1>8. after = Body(after)
      <2> HIDE DEF Body
      <2> QED BY <1>7, Zenon
<1> HIDE DEF after
<1>9. after[0] = copy /\ \A k \in 1 .. n : after[k] = patch(after[k - 1], k)
      <2>1. 0 \in 0 .. n /\ 1 .. n \subseteq 0 .. n /\ \A k \in 1 .. n : k # 0
            BY <1>1
      <2>2. \A k \in 0 .. n : after[k] = IF k = 0 THEN copy ELSE patch(after[k - 1], k)
            BY <1>8
      <2> QED BY <2>1, <2>2
<1>10. after \in [0 .. n -> T]
      <2> HIDE DEF T
      <2>1. copy \in T
            BY DEF T
      <2>2. after[0] \in T /\ \A k \in 1 .. n : after[k - 1] \in T => after[k] \in T
            BY <1>4, <1>9, <2>1
      <2>3. \A k \in 0 .. n : after[k] \in T
            BY <1>1, <2>2, Stays, Zenon
      <2>4. after = [k \in 0 .. n |-> after[k]]
            BY <1>8
      <2> QED BY <2>3, <2>4
<1>11. Copies(copy, internal, id, out, after)
      BY <1>9, <1>10 DEF Copies, patch, n
<1> QED BY <1>2, <1>11, Zenon DEF n

\* No packet changes nothing, one what it says.
LEMMA RebuiltNothing ==
    ASSUME NEW copy \in Seq(Int), NEW internal, NEW id PROVE Rebuilt(copy, internal, id, << >>) = copy
<1>1. << >> \in Seq(Packets) /\ Len(<< >>) = 0
      OBVIOUS
<1>2. PICK after : /\ Copies(copy, internal, id, << >>, after)
                   /\ Rebuilt(copy, internal, id, << >>) = after[Len(<< >>)]
      BY <1>1, RebuiltIs, Zenon
<1>3. after[0] = copy
      BY <1>2 DEF Copies
<1> QED BY <1>1, <1>2, <1>3

LEMMA RebuiltOne ==
    ASSUME NEW copy \in Seq(Int), NEW internal, NEW id, NEW p \in Packets
    PROVE  Rebuilt(copy, internal, id, <<p>>) = Patched(copy, internal, id, p.message)
<1>1. <<p>> \in Seq(Packets) /\ Len(<<p>>) = 1 /\ <<p>>[1] = p
      OBVIOUS
<1>2. PICK after : /\ Copies(copy, internal, id, <<p>>, after)
                   /\ Rebuilt(copy, internal, id, <<p>>) = after[1]
      BY <1>1, RebuiltIs
<1>3. after[1] = Patched(after[0], internal, id, p.message) /\ after[0] = copy
      BY <1>1, <1>2 DEF Copies
<1> QED BY <1>2, <1>3

\* What is rebuilt is a copy.
LEMMA RebuiltType ==
    ASSUME NEW copy \in Seq(Int), NEW internal, NEW id, NEW out \in Seq(Packets)
    PROVE  Rebuilt(copy, internal, id, out) \in Seq(Int)
<1>1. Len(out) \in 0 .. Len(out)
      OBVIOUS
<1>2. PICK after : /\ Copies(copy, internal, id, out, after)
                   /\ Rebuilt(copy, internal, id, out) = after[Len(out)]
      BY RebuiltIs
<1> QED BY <1>1, <1>2 DEF Copies

\* Packets after packets.
InTurn(copy, internal, id, a, b, both) ==
    Rebuilt(copy, internal, id, both) = Rebuilt(Rebuilt(copy, internal, id, a), internal, id, b)

LEMMA RebuiltJoin ==
    ASSUME NEW copy \in Seq(Int), NEW internal, NEW id, NEW a \in Seq(Packets), NEW b \in Seq(Packets),
           NEW both, both = a \o b
    PROVE  InTurn(copy, internal, id, a, b, both)
<1> DEFINE n == Len(a)
           m == Len(b)
           middle == Rebuilt(copy, internal, id, a)
<1>1. n \in Nat /\ m \in Nat
      OBVIOUS
<1>2. both \in Seq(Packets) /\ Len(both) = n + m
      BY ConcatProperties
<1>3. /\ \A k \in 1 .. n : k \in 1 .. n + m /\ both[k] = a[k]
      /\ \A k \in 1 .. m : n + k \in 1 .. n + m /\ both[n + k] = b[k]
      <2>1. Joins(a, b, both)
            BY Joined, Zenon
      <2>2. DOMAIN a = 1 .. n /\ DOMAIN b = 1 .. m /\ DOMAIN both = 1 .. n + m
            BY <1>2, LenProperties
      <2> QED BY <2>1, <2>2 DEF Joins
<1>4. PICK f : Copies(copy, internal, id, a, f) /\ middle = f[n]
      BY RebuiltIs
<1>5. middle \in Seq(Int)
      BY RebuiltType
<1> HIDE DEF middle
<1>6. PICK g : Copies(middle, internal, id, b, g) /\ Rebuilt(middle, internal, id, b) = g[m]
      BY <1>5, RebuiltIs, ZenonT(40)
<1>7. PICK h : Copies(copy, internal, id, both, h) /\ Rebuilt(copy, internal, id, both) = h[n + m]
      <2>1. PICK h : /\ Copies(copy, internal, id, both, h)
                     /\ Rebuilt(copy, internal, id, both) = h[Len(both)]
            BY <1>2, RebuiltIs, ZenonT(40)
      <2> QED BY <1>2, <2>1, Zenon
<1> HIDE DEF n, m
<1>8. \A k \in 0 .. n : h[k] = f[k]
      <2>1. h[0] = f[0]
            BY <1>4, <1>7 DEF Copies
      <2>2. ASSUME NEW k \in 1 .. n, h[k - 1] = f[k - 1] PROVE h[k] = f[k]
            <3>1. h[k] = Patched(h[k - 1], internal, id, both[k].message)
                  BY <1>2, <1>3, <1>7 DEF Copies
            <3>2. f[k] = Patched(f[k - 1], internal, id, a[k].message)
                  BY <1>4 DEF Copies, n
            <3> QED BY <1>3, <2>2, <3>1, <3>2
      <2>3. \A k \in 1 .. n : h[k - 1] = f[k - 1] => h[k] = f[k]
            BY <2>2
      <2>4. n \in Nat
            BY <1>1
      <2>5. GoAlike(n, h, f)
            BY <2>1, <2>3 DEF GoAlike
      <2>6. Alike(n, h, f)
            BY <2>4, <2>5, Determined, Zenon
      <2> QED BY <2>6 DEF Alike
<1> DEFINE r == [k \in 0 .. m |-> h[n + k]]
<1>9. \A k \in 0 .. m : r[k] = g[k]
      <2>1. r[0] = g[0]
            <3>1. n + 0 = n /\ n \in 0 .. n /\ 0 \in 0 .. m
                  BY <1>1
            <3> QED BY <1>4, <1>6, <1>8, <3>1 DEF Copies
      <2>2. ASSUME NEW k \in 1 .. m, r[k - 1] = g[k - 1] PROVE r[k] = g[k]
            <3>1. /\ n + k \in 1 .. n + m /\ (n + k) - 1 = n + (k - 1) /\ k - 1 \in 0 .. m /\ k \in 0 .. m
                  BY <1>1
            <3>2. h[n + k] = Patched(h[(n + k) - 1], internal, id, both[n + k].message)
                  BY <1>2, <1>7, <3>1 DEF Copies
            <3>3. g[k] = Patched(g[k - 1], internal, id, b[k].message)
                  BY <1>6 DEF Copies, m
            <3>4. r[k] = h[n + k] /\ r[k - 1] = h[n + (k - 1)]
                  BY <3>1
            <3> QED BY <1>3, <2>2, <3>1, <3>2, <3>3, <3>4
      <2> HIDE DEF r
      <2>3. GoAlike(m, r, g)
            BY <2>1, <2>2 DEF GoAlike
      <2>4. Alike(m, r, g)
            BY <1>1, <2>3, Determined, Zenon
      <2> QED BY <2>4 DEF Alike
<1>10. h[n + m] = g[m]
      <2>1. m \in 0 .. m
            BY <1>1
      <2> QED BY <1>9, <2>1
<1> QED BY <1>6, <1>7, <1>10 DEF InTurn, middle, m

\* Packets of other names do not count.
Foreign(internal, id, out) ==
    \A k \in DOMAIN out : out[k].message.internal # internal \/ out[k].message.id # id

Unmoved(copy, internal, id, out) == Rebuilt(copy, internal, id, out) = copy

LEMMA RebuiltOther ==
    ASSUME NEW copy \in Seq(Int), NEW internal, NEW id, NEW out \in Seq(Packets), Foreign(internal, id, out)
    PROVE  Unmoved(copy, internal, id, out)
<1>1. PICK after : /\ Copies(copy, internal, id, out, after)
                   /\ Rebuilt(copy, internal, id, out) = after[Len(out)]
      BY RebuiltIs
<1> DEFINE same == [k \in 0 .. Len(out) |-> copy]
<1>2. Len(out) \in Nat /\ DOMAIN out = 1 .. Len(out)
      OBVIOUS
<1>3. after[0] = same[0]
      BY <1>1, <1>2 DEF Copies
<1>4. ASSUME NEW k \in 1 .. Len(out), after[k - 1] = same[k - 1] PROVE after[k] = same[k]
      <2>1. k \in 0 .. Len(out) /\ k - 1 \in 0 .. Len(out)
            BY <1>2
      <2>2. after[k] = Patched(copy, internal, id, out[k].message)
            BY <1>1, <1>4, <2>1 DEF Copies
      <2> QED BY <1>2, <2>1, <2>2 DEF Foreign, Patched
<1>5. \A k \in 0 .. Len(out) : after[k] = same[k]
      <2> HIDE DEF same
      <2>1. GoAlike(Len(out), after, same)
            BY <1>3, <1>4 DEF GoAlike
      <2>2. Alike(Len(out), after, same)
            BY <1>2, <2>1, Determined, Zenon
      <2> QED BY <2>2 DEF Alike
<1> QED BY <1>1, <1>2, <1>5 DEF Unmoved
-----------------------------------------------------------------------------
(* Sending a variable brings a copy of it up to date                            *)

\* the packet carries the bytes of the value it addresses, those from + 1 to upto at least
Carries(m, internal, id, value, from, upto) ==
    /\ m \in Message /\ m.internal = internal /\ m.id = id /\ m.response = 0 /\ m.offset = 1
    /\ m.type # TYPE_OFFSET_METADATA
    /\ \A j \in DOMAIN m.data : m.offset_in + j \in DOMAIN value /\ m.data[j] = value[m.offset_in + j]
    /\ \A n \in DOMAIN value : from < n /\ n <= upto => n - m.offset_in \in DOMAIN m.data

\* the copy agrees with the value beyond the first so many bytes
Agrees(copy, value, first) ==
    /\ copy \in Seq(Int) /\ Len(copy) = Len(value)
    /\ \A n \in DOMAIN value : first < n => copy[n] = value[n]

\* One slice makes it agree on the bytes it carries as well.
LEMMA SliceAgrees ==
    ASSUME NEW value \in Seq(Byte), NEW from \in Int, NEW upto \in Int, NEW copy,
           Agrees(copy, value, upto), NEW internal, NEW id, NEW m,
           Carries(m, internal, id, value, from, upto)
    PROVE  Agrees(Patched(copy, internal, id, m), value, from)
<1> DEFINE new == Store(copy, m.offset_in, m.data)
<1>1. Patched(copy, internal, id, m) = new
      BY DEF Patched, Carries
<1>2. copy \in Seq(Int) /\ DOMAIN copy = 1 .. Len(value) /\ DOMAIN value = 1 .. Len(value)
      BY DEF Agrees
<1>3. Patched(copy, internal, id, m) \in Seq(Int)
      BY <1>2, PatchedType DEF Carries
<1>4. m.offset_in \in Int /\ \A j \in DOMAIN m.data : j \in Int
      <2>1. m.offset_in \in Word /\ m.data \in Seq(Byte)
            BY DEF Carries, Message
      <2> QED BY <2>1, WordDef
<1>5. DOMAIN new = 1 .. Len(value)
      BY <1>2 DEF Store
<1>6. ASSUME NEW n \in DOMAIN value, from < n PROVE new[n] = value[n]
      <2>1. new[n] = IF n - m.offset_in \in DOMAIN m.data THEN m.data[n - m.offset_in] ELSE copy[n]
            BY <1>2 DEF Store
      <2>2. CASE n - m.offset_in \in DOMAIN m.data
            <3>1. m.data[n - m.offset_in] = value[m.offset_in + (n - m.offset_in)]
                  BY <2>2 DEF Carries
            <3>2. m.offset_in + (n - m.offset_in) = n
                  BY <1>2, <1>4
            <3> QED BY <2>1, <2>2, <3>1, <3>2
      <2>3. CASE n - m.offset_in \notin DOMAIN m.data
            <3>1. ~(n <= upto)
                  BY <1>6, <2>3 DEF Carries
            <3>2. upto < n
                  BY <1>2, <3>1
            <3> QED BY <2>1, <2>3, <3>2 DEF Agrees
      <2> QED BY <2>2, <2>3
<1> HIDE DEF new
<1>7. Len(new) = Len(value)
      <2>1. new \in Seq(Int) /\ Len(value) \in Nat
            BY <1>1, <1>3
      <2> QED BY <1>5, <2>1
<1> QED BY <1>1, <1>3, <1>6, <1>7 DEF Agrees

\* One packet for each slice of the value; left[k] bytes are still to be sent after k of them.
CarryAll(packets, internal, id, value, n, left) ==
    /\ value \in Seq(Byte) /\ n \in Nat /\ left \in [0 .. n -> Int]
    /\ left[0] = Len(value) /\ left[n] <= 0
    /\ packets \in Seq(Seq(Packets)) /\ Len(packets) = n
    /\ \A k \in 1 .. n : /\ packets[k] = <<packets[k][1]>>
                         /\ Carries(packets[k][1].message, internal, id, value, left[k], left[k - 1])

\* All slices make it the value.
LEMMA SlicesRebuild ==
    ASSUME NEW value, NEW copy \in Seq(Int), Len(copy) = Len(value),
           NEW internal, NEW id, NEW n, NEW left, NEW packets, CarryAll(packets, internal, id, value, n, left)
    PROVE  Rebuilt(copy, internal, id, FlattenSeq(packets)) = value
<1> SUFFICES ASSUME value \in Seq(Byte), n \in Nat, left \in [0 .. n -> Int],
                    left[0] = Len(value), left[n] <= 0, packets \in Seq(Seq(Packets)), Len(packets) = n,
                    \A k \in 1 .. n : /\ packets[k] = <<packets[k][1]>>
                                      /\ Carries(packets[k][1].message, internal, id, value, left[k], left[k - 1])
             PROVE  Rebuilt(copy, internal, id, FlattenSeq(packets)) = value
      BY DEF CarryAll
<1>1. PICK flat \in [0 .. n -> Seq(Packets)] :
              /\ flat[0] = << >>
              /\ \A i \in 1 .. n : flat[i] = flat[i - 1] \o packets[i]
              /\ FlattenSeq(packets) = flat[n]
      BY FlattenIs
<1> DEFINE after(i) == Rebuilt(copy, internal, id, flat[i])
           S == {i \in 0 .. n : Agrees(after(i), value, left[i])}
<1>2. 0 \in S
      <2>1. after(0) = copy
            BY <1>1, RebuiltNothing
      <2> HIDE DEF after
      <2>2. \A k \in DOMAIN value : ~(left[0] < k)
            OBVIOUS
      <2> QED BY <2>1, <2>2 DEF Agrees
<1>3. ASSUME NEW i \in 0 .. n - 1, i \in S PROVE i + 1 \in S
      <2> DEFINE k == i + 1
                 p == packets[k][1]
      <2>1. k \in 1 .. n /\ k - 1 = i /\ i \in 0 .. n
            OBVIOUS
      <2> HIDE DEF k
      <2>2. packets[k] = <<p>> /\ Carries(p.message, internal, id, value, left[k], left[i])
            BY <2>1
      <2>3. packets[k] \in Seq(Packets)
            BY <2>1, ElementOfSeq
      <2>4. p \in Packets
            BY <2>2, <2>3, SMTT(30)
      <2> HIDE DEF p
      <2>5. flat[i] \in Seq(Packets) /\ flat[k] = flat[i] \o <<p>> /\ <<p>> \in Seq(Packets)
            <3>1. flat[k] = flat[k - 1] \o packets[k]
                  BY <1>1, <2>1
            <3>2. flat[i] \in Seq(Packets)
                  BY <2>1
            <3>3. <<p>> \in Seq(Packets)
                  BY <2>4
            <3> QED BY <2>1, <2>2, <3>1, <3>2, <3>3, Zenon
      <2>6. after(k) = Rebuilt(after(i), internal, id, <<p>>)
            <3>1. InTurn(copy, internal, id, flat[i], <<p>>, flat[k])
                  BY <2>5, RebuiltJoin, Zenon
            <3> QED BY <3>1 DEF InTurn
      <2>7. after(i) \in Seq(Int)
            BY <2>5, RebuiltType
      <2>8. Agrees(after(i), value, left[i])
            BY <1>3
      <2> HIDE DEF after
      <2>9. after(k) = Patched(after(i), internal, id, p.message)
            BY <2>4, <2>6, <2>7, RebuiltOne
      <2>10. left[k] \in Int /\ left[i] \in Int /\ k \in 0 .. n
            BY <2>1
      <2>11. Agrees(after(k), value, left[k])
            BY <2>2, <2>8, <2>9, <2>10, SliceAgrees
      <2> QED BY <2>10, <2>11 DEF k
<1>4. n \in S
      <2> HIDE DEF S
      <2>1. 0 \in Int /\ n \in Int /\ (0 <= n => 0 \in S)
            BY <1>2
      <2>2. 0 .. n \subseteq S
            BY <1>3, <2>1, Climbs, Zenon
      <2> QED BY <2>2
<1>5. Agrees(after(n), value, left[n])
      BY <1>4
<1> HIDE DEF after
<1>6. after(n) = value
      <2>1. after(n) \in Seq(Int) /\ Len(after(n)) = Len(value)
            BY <1>5 DEF Agrees
      <2>2. left[n] \in Int
            OBVIOUS
      <2>3. ASSUME NEW j \in 1 .. Len(value) PROVE after(n)[j] = value[j]
            <3>1. j \in DOMAIN value /\ left[n] < j
                  BY <2>2
            <3> QED BY <1>5, <3>1 DEF Agrees
      <2>4. value \in Seq(Int)
            BY BytesAreInts
      <2>5. \A j \in 1 .. Len(after(n)) : after(n)[j] = value[j]
            BY <2>1, <2>3
      <2> QED BY <2>1, <2>4, <2>5, SeqEqual
<1> QED BY <1>1, <1>6 DEF after
\* what is left to send of a variable after so many slices, the last bytes first
Leaves(size, n, left) ==
    /\ n \in Nat /\ left \in [0 .. n -> Int] /\ left[0] = size /\ left[n] <= 0
    /\ DOMAIN Slices(0, size) = 1 .. n
    /\ \A k \in 1 .. n :
          /\ Slices(0, size)[k].end = left[k - 1]
          /\ Slices(0, size)[k].start = IF left[k] < 0 THEN 0 ELSE left[k]

\* The slices of a whole variable leave nothing.
LEMMA SlicesLeaveNothing ==
    ASSUME NEW size \in Word PROVE \E n, left : Leaves(size, n, left)
<1> DEFINE P == PAYLOAD_SIZE_MAX
           count == IF size > 0 THEN (size - 0 + P - 1) \div P ELSE 0
           upto(k) == size - (k - 1) * P
           left == [k \in 0 .. count |-> size - k * P]
<1>1. size \in Int /\ 0 <= size /\ P \in Int /\ 1 <= P
      BY WordDef, PayloadAssumption
<1>2. Slices(0, size) =
          [k \in 1 .. count |-> [start |-> upto(k) - Lesser(P, upto(k) - 0), end |-> upto(k)]]
      BY DEF Slices
<1> HIDE DEF P
<1>3. count \in Nat
      <2>1. CASE size > 0
            <3>1. size - 0 + P - 1 \in Int /\ 0 <= size - 0 + P - 1
                  BY <1>1, <2>1
            <3>2. (size - 0 + P - 1) \div P \in Nat
                  <4> DEFINE x == size - 0 + P - 1
                  <4> HIDE DEF x
                  <4>1. x \div P \in Nat
                        BY <1>1, <3>1 DEF x
                  <4> QED BY <4>1 DEF x
            <3> QED BY <2>1, <3>2
      <2>2. CASE ~(size > 0)
            BY <2>2
      <2> QED BY <2>1, <2>2
<1>4. size <= count * P
      <2>1. CASE size > 0
            <3> DEFINE x == size - 0 + P - 1
            <3>1. count = x \div P /\ x \in Int
                  BY <1>1, <2>1
            <3> HIDE DEF x, count
            <3>2. x < (count + 1) * P
                  BY <1>1, <3>1
            <3>3. (count + 1) * P = count * P + P /\ count * P \in Int
                  BY <1>1, <1>3
            <3> QED BY <1>1, <3>2, <3>3 DEF x
      <2>2. CASE ~(size > 0)
            BY <1>1, <2>2
      <2> QED BY <2>1, <2>2
<1> HIDE DEF count
<1>5. \A k \in 0 .. count : k * P \in Int
      BY <1>1, <1>3
<1>6. left \in [0 .. count -> Int] /\ left[0] = size /\ left[count] <= 0
      <2>1. left \in [0 .. count -> Int]
            BY <1>1, <1>5
      <2>2. 0 \in 0 .. count /\ count \in 0 .. count /\ 0 * P = 0
            BY <1>1, <1>3
      <2>3. left[0] = size - 0 /\ left[count] = size - count * P
            BY <2>2
      <2> QED BY <1>1, <1>3, <1>4, <1>5, <2>1, <2>3
<1>7. ASSUME NEW k \in 1 .. count
      PROVE  /\ Slices(0, size)[k].end = left[k - 1]
             /\ Slices(0, size)[k].start = IF left[k] < 0 THEN 0 ELSE left[k]
      <2>1. k - 1 \in 0 .. count /\ k \in 0 .. count
            BY <1>3
      <2>2. left[k - 1] = upto(k) /\ left[k] = size - k * P
            BY <2>1
      <2>3. k * P = (k - 1) * P + P /\ (k - 1) * P \in Int
            BY <1>1, <1>3
      <2>4. upto(k) \in Int /\ left[k] = upto(k) - P
            BY <1>1, <2>2, <2>3
      <2>5. Slices(0, size)[k] = [start |-> upto(k) - Lesser(P, upto(k) - 0), end |-> upto(k)]
            BY <1>2
      <2> HIDE DEF upto, left
      <2>6. upto(k) - Lesser(P, upto(k) - 0) = IF left[k] < 0 THEN 0 ELSE left[k]
            BY <1>1, <2>4 DEF Lesser
      <2> QED BY <2>2, <2>5, <2>6
<1>8. DOMAIN Slices(0, size) = 1 .. count
      BY <1>2
<1> HIDE DEF left
<1>9. Leaves(size, count, left)
      BY <1>3, <1>6, <1>7, <1>8 DEF Leaves
<1> QED BY <1>9

\* the objects whose value a peer can be sent
Showable(obj) == Reachable(obj) /\ obj.type # TYPE_CALLBACK

\* the links a packet can be written to
Open == Links \ Mute

\* The announcement of a range is no value.
LEMMA AnnouncementKeeps ==
    ASSUME NEW copy \in Seq(Int), NEW internal \in Bit, NEW named, NEW link \in Open,
           NEW id \in Seq(Byte), Len(id) \in 1..15, NEW data \in Seq(Byte),
           NEW out, out = Encode(link, "data_range", Simple(internal, TYPE_OFFSET_METADATA, id, data))
    PROVE  out \in Seq(Packets) /\ Unmoved(copy, internal, named, out)
<1> DEFINE m == Simple(internal, TYPE_OFFSET_METADATA, id, data)
           p == [link |-> link, message |-> m]
<1>1. m \in Message /\ m.id = id /\ m.type = TYPE_OFFSET_METADATA
      <2>1. TYPE_OFFSET_METADATA \in Bits4
            BY BitsDef DEF TYPE_OFFSET_METADATA
      <2> QED BY <2>1, SimpleIs DEF Simple
<1>2. link \notin Mute \cup {NoLink} /\ "data_range" # Null
      BY LinksAssumption DEF Open, Null
<1> HIDE DEF m
<1>3. out = <<p>>
      <2>1. Len(m.id) \in 1 .. 15
            BY <1>1
      <2> QED BY <1>1, <1>2, <2>1, EncodeWhole DEF m
<1>4. p \in Packets
      BY <1>1 DEF Packets, Open
<1>5. p.message = m
      OBVIOUS
<1> HIDE DEF p
<1>6. Rebuilt(copy, internal, named, <<p>>) = Patched(copy, internal, named, m)
      BY <1>4, <1>5, RebuiltOne
<1>7. Patched(copy, internal, named, m) = copy
      BY <1>1 DEF Patched
<1>8. <<p>> \in Seq(Packets)
      BY <1>4
<1> QED BY <1>3, <1>6, <1>7, <1>8, Zenon DEF Unmoved

\* A variable of any size.
LEMMA RangeRebuilds ==
    ASSUME NEW link \in Open, NEW obj, Showable(obj), NEW mem, Typed(mem), NEW internal \in Bit,
           NEW copy \in Seq(Int), Len(copy) = Size(obj)
    PROVE  Rebuilt(copy, internal, obj.id, EuiSendRange(link, obj, internal, 0, Size(obj), mem))
               = Contents(obj, mem)
<1> DEFINE size   == Size(obj)
           range  == ValidateOffsetRange(0, size, obj.type, size)
           slices == Slices(0, size)
           value == Contents(obj, mem)
           announce == Encode(link, "data_range",
                              Simple(internal, TYPE_OFFSET_METADATA, obj.id,
                                     LittleEndian(range.start) \o LittleEndian(range.end)))
           part(k) == SubSeq(value, slices[k].start + 1, slices[k].end)
           message(k) == [Simple(internal, obj.type, obj.id, part(k))
                          EXCEPT !.offset = 1, !.offset_in = slices[k].start]
           packets == [k \in DOMAIN slices |-> Encode(link, obj.ptr, message(k))]
<1>1. EuiSendRange(link, obj, internal, 0, Size(obj), mem) = announce \o FlattenSeq(packets)
      BY DEF EuiSendRange
<1>2. /\ obj.id \in Seq(Byte) /\ obj.type \in Bits4 /\ Len(obj.id) \in 1..15
      /\ obj.type # TYPE_OFFSET_METADATA /\ obj.ptr # Null
      BY NullIsNone DEF Reachable, Objects, Showable
<1>3. size \in Word /\ value \in Seq(Byte) /\ Len(value) = size /\ 0 \in Word
      BY SizeIs, WordDef DEF Showable
<1>4. announce \in Seq(Packets) /\ Rebuilt(copy, internal, obj.id, announce) = copy
      <2>1. range.start \in Word /\ range.end \in Word
            <3> HIDE DEF size
            <3> QED BY <1>3, RangeType
      <2> HIDE DEF range
      <2>2. LittleEndian(range.start) \o LittleEndian(range.end) \in Seq(Byte)
            BY <2>1, LittleEndianType
      <2>3. announce = Encode(link, "data_range",
                              Simple(internal, TYPE_OFFSET_METADATA, obj.id,
                                     LittleEndian(range.start) \o LittleEndian(range.end)))
            OBVIOUS
      <2> HIDE DEF announce
      <2> DEFINE data == LittleEndian(range.start) \o LittleEndian(range.end)
      <2>4. data \in Seq(Byte) /\ announce = Encode(link, "data_range", Simple(internal, TYPE_OFFSET_METADATA, obj.id, data))
            BY <2>2, <2>3
      <2> HIDE DEF data
      <2>5. announce \in Seq(Packets) /\ Unmoved(copy, internal, obj.id, announce)
            BY <1>2, <2>4, AnnouncementKeeps, Zenon
      <2> QED BY <2>5 DEF Unmoved
<1>5. PICK n, left : Leaves(size, n, left)
      BY <1>3, SlicesLeaveNothing
<1>6. n \in Nat /\ left \in [0 .. n -> Int] /\ left[0] = size /\ left[n] <= 0 /\ DOMAIN slices = 1 .. n
      BY <1>5 DEF Leaves
<1>7. ASSUME NEW k \in 1 .. n
      PROVE  /\ packets[k] \in Seq(Packets) /\ packets[k] = <<packets[k][1]>>
             /\ Carries(packets[k][1].message, internal, obj.id, value, left[k], left[k - 1])
      <2> DEFINE from == slices[k].start
                 upto == slices[k].end
                 m == message(k)
                 p == [link |-> link, message |-> m]
      <2>1. /\ from \in Word /\ upto \in Word /\ from < upto /\ upto <= size
            BY <1>3, <1>6, SliceWithin
      <2>2. /\ upto = left[k - 1] /\ from = IF left[k] < 0 THEN 0 ELSE left[k]
            BY <1>5 DEF Leaves
      <2>3. /\ from \in Int /\ upto \in Int /\ 0 <= from /\ upto <= Len(value) /\ left[k] \in Int
            /\ left[k] <= from
            <3>1. k \in 0 .. n
                  BY <1>6
            <3>2. left[k] \in Int
                  BY <1>6, <3>1
            <3>3. from \in Int /\ upto \in Int /\ 0 <= from /\ upto <= Len(value)
                  BY <1>3, <2>1, WordDef
            <3> HIDE DEF from, upto
            <3> QED BY <2>2, <3>2, <3>3
      <2>4. m = [Simple(internal, obj.type, obj.id, SubSeq(value, from + 1, upto))
                 EXCEPT !.offset = 1, !.offset_in = from]
            OBVIOUS
      <2>5. packets[k] = Encode(link, obj.ptr, m)
            BY <1>6
      <2> HIDE DEF m, from, upto, packets, value, size, slices
      <2> DEFINE data == SubSeq(value, from + 1, upto)
      <2>6. /\ data \in Seq(Byte) /\ DOMAIN data = 1 .. upto - from
            /\ \A j \in 1 .. upto - from : data[j] = value[from + j]
            <3>1. from + 1 \in 1 .. Len(value) + 1 /\ upto \in from .. Len(value)
                  BY <1>3, <2>1, <2>3
            <3> QED BY <1>3, <2>1, <2>3, <3>1
      <2> HIDE DEF data
      <2>7. /\ m \in Message /\ m.internal = internal /\ m.id = obj.id /\ m.response = 0
            /\ m.offset = 1 /\ m.type = obj.type /\ m.offset_in = from /\ m.data = data
            <3> DEFINE s == Simple(internal, obj.type, obj.id, data)
            <3>1. s \in Message /\ s.internal = internal /\ s.id = obj.id /\ s.response = 0
                  /\ s.type = obj.type /\ s.data = data
                  BY <1>2, <2>6, SimpleIs DEF Simple
            <3>2. 1 \in Bit
                  BY BitsDef
            <3>3. m = [s EXCEPT !.offset = 1, !.offset_in = from]
                  BY <2>4 DEF data
            <3> HIDE DEF s
            <3> QED BY <2>1, <3>1, <3>2, <3>3 DEF Message
      <2>8. packets[k] = <<p>>
            <3>1. link \notin Mute \cup {NoLink}
                  BY LinksAssumption DEF Open
            <3>2. Len(m.id) \in 1 .. 15
                  BY <1>2, <2>7
            <3>3. m \in Message
                  BY <2>7
            <3> QED BY <1>2, <2>5, <3>1, <3>2, <3>3, EncodeWhole
      <2>9. p \in Packets
            BY <2>7 DEF Packets, Open
      <2>10. Carries(m, internal, obj.id, value, left[k], left[k - 1])
            <3>1. DOMAIN value = 1 .. Len(value) /\ Len(value) \in Nat
                  BY <1>3
            <3>2. \A j \in DOMAIN m.data : m.offset_in + j \in DOMAIN value /\ m.data[j] = value[m.offset_in + j]
                  BY <2>3, <2>6, <2>7, <3>1
            <3>3. \A j \in DOMAIN value : left[k] < j /\ j <= left[k - 1] => j - m.offset_in \in DOMAIN m.data
                  <4> SUFFICES ASSUME NEW j \in 1 .. Len(value), left[k] < j, j <= upto
                               PROVE  j - from \in 1 .. upto - from
                        BY <2>2, <2>6, <2>7, <3>1
                  <4>1. from < j
                        BY <2>2, <2>3, <3>1
                  <4> QED BY <2>3, <4>1
            <3> QED BY <1>2, <2>7, <3>2, <3>3 DEF Carries
      <2> QED BY <2>8, <2>9, <2>10
<1>8. packets \in Seq(Seq(Packets)) /\ Len(packets) = n
      <2> HIDE DEF slices
      <2>1. packets = [k \in 1 .. n |-> packets[k]]
            BY <1>6
      <2>2. \A k \in 1 .. n : packets[k] \in Seq(Packets)
            BY <1>7
      <2> HIDE DEF packets
      <2> QED BY <1>6, <2>1, <2>2, SMTT(30)
<1> HIDE DEF packets, announce, value, size, slices
<1>9. Rebuilt(copy, internal, obj.id, FlattenSeq(packets)) = value
      <2>1. Len(copy) = Len(value)
            BY <1>3 DEF size
      <2>2. left[0] = Len(value)
            BY <1>3, <1>6
      <2>3. value \in Seq(Byte) /\ copy \in Seq(Int) /\ n \in Nat /\ left \in [0 .. n -> Int] /\ left[n] <= 0
            BY <1>3, <1>6
      <2>4. \A k \in 1 .. n : /\ packets[k] = <<packets[k][1]>>
                             /\ Carries(packets[k][1].message, internal, obj.id, value, left[k], left[k - 1])
            BY <1>7
      <2>5. CarryAll(packets, internal, obj.id, value, n, left)
            BY <1>8, <2>2, <2>3, <2>4 DEF CarryAll
      <2> QED BY <2>1, <2>3, <2>5, SlicesRebuild
<1>10. FlattenSeq(packets) \in Seq(Packets)
      BY <1>8, FlattenSent
<1> DEFINE whole == EuiSendRange(link, obj, internal, 0, Size(obj), mem)
<1>11. whole = announce \o FlattenSeq(packets)
      BY <1>1
<1> HIDE DEF whole
<1>12. Rebuilt(copy, internal, obj.id, whole)
           = Rebuilt(Rebuilt(copy, internal, obj.id, announce), internal, obj.id, FlattenSeq(packets))
      <2>1. InTurn(copy, internal, obj.id, announce, FlattenSeq(packets), whole)
            BY <1>4, <1>10, <1>11, RebuiltJoin, Zenon
      <2> QED BY <2>1 DEF InTurn
<1> QED BY <1>4, <1>9, <1>12, Zenon DEF size, value, whole

\* eui_send brings the copy of whoever receives it up to date.
LEMMA SendRebuilds ==
    ASSUME NEW link \in Open, NEW obj, Showable(obj), NEW mem, Typed(mem), NEW internal \in Bit,
           NEW copy \in Seq(Int), Len(copy) = Size(obj)
    PROVE  Rebuilt(copy, internal, obj.id, EuiSend(link, obj, internal, mem)) = Contents(obj, mem)
<1>1. CASE Size(obj) <= PAYLOAD_SIZE_MAX
      <2> DEFINE m == Simple(internal, obj.type, obj.id, Contents(obj, mem))
                 p == [link |-> link, message |-> m]
      <2>1. /\ obj.id \in Seq(Byte) /\ obj.type \in Bits4 /\ Len(obj.id) \in 1..15
            /\ obj.type # TYPE_OFFSET_METADATA /\ obj.ptr # Null
            BY NullIsNone DEF Reachable, Objects, Showable
      <2>2. Contents(obj, mem) \in Seq(Byte)
            BY SizeIs DEF Showable
      <2>3. m \in Message
            BY <2>1, <2>2, SimpleIs
      <2>4. /\ m.id = obj.id /\ m.internal = internal /\ m.type = obj.type /\ m.response = 0
            /\ m.offset = 0 /\ m.data = Contents(obj, mem)
            BY DEF Simple
      <2>5. EuiSend(link, obj, internal, mem) = Encode(link, obj.ptr, m)
            BY <1>1 DEF EuiSend
      <2> HIDE DEF m
      <2>6. Encode(link, obj.ptr, m) = <<p>>
            <3>1. link \notin Mute \cup {NoLink}
                  BY LinksAssumption DEF Open
            <3>2. Len(m.id) \in 1 .. 15
                  BY <2>1, <2>4
            <3> QED BY <2>1, <2>3, <3>1, <3>2, EncodeWhole
      <2>7. p \in Packets /\ p.message = m
            BY <2>3 DEF Packets, Open
      <2> HIDE DEF p
      <2>8. Rebuilt(copy, internal, obj.id, <<p>>) = Patched(copy, internal, obj.id, m)
            BY <2>7, RebuiltOne
      <2>9. Patched(copy, internal, obj.id, m) = Contents(obj, mem)
            BY <2>1, <2>4 DEF Patched
      <2> QED BY <2>5, <2>6, <2>8, <2>9
<1>2. CASE ~(Size(obj) <= PAYLOAD_SIZE_MAX)
      BY <1>2, RangeRebuilds DEF EuiSend
<1> QED BY <1>1, <1>2
\* After the given objects were sent the copy is the value, if it was or if the object is
\* one of them.
Shown(copy, obj, value, objects, out) ==
    /\ out \in Seq(Packets)
    /\ copy = value \/ (\E k \in DOMAIN objects : objects[k] = obj) =>
           Rebuilt(copy, 0, obj.id, out) = value

LEMMA ListRebuilds ==
    ASSUME NEW link \in Open, NEW objects \in Seq(Objects), \A k \in DOMAIN objects : Reachable(objects[k]),
           NEW mem, Typed(mem), NEW obj, Showable(obj),
           \A k \in DOMAIN objects : objects[k].id = obj.id => objects[k] = obj,
           NEW copy \in Seq(Int), Len(copy) = Size(obj),
           NEW out, out = FlattenSeq([k \in DOMAIN objects |-> EuiSend(link, objects[k], 0, mem)])
    PROVE  Shown(copy, obj, Contents(obj, mem), objects, out)
<1> DEFINE sends == [k \in DOMAIN objects |-> EuiSend(link, objects[k], 0, mem)]
           n == Len(objects)
           value == Contents(obj, mem)
<1>1. n \in Nat /\ DOMAIN objects = 1 .. n
      OBVIOUS
<1>2. 0 \in Bit
      BY BitsDef
<1>3. Sent(link) \subseteq Packets
      BY DEF Sent, Packets, Open, Framable
<1>4. ASSUME NEW k \in 1 .. n PROVE sends[k] = EuiSend(link, objects[k], 0, mem) /\ sends[k] \in Seq(Packets)
      <2>1. sends[k] = EuiSend(link, objects[k], 0, mem)
            BY <1>1
      <2>2. EuiSend(link, objects[k], 0, mem) \in Seq(Sent(link))
            BY <1>1, <1>2, SendSent
      <2> HIDE DEF sends
      <2> QED BY <1>3, <2>1, <2>2
<1>5. sends \in Seq(Seq(Packets)) /\ Len(sends) = n
      <2>1. sends = [k \in DOMAIN objects |-> sends[k]]
            OBVIOUS
      <2>2. \A k \in DOMAIN objects : sends[k] \in Seq(Packets)
            BY <1>1, <1>4
      <2> HIDE DEF sends
      <2> QED BY <2>1, <2>2, Mapped
<1>6. out = FlattenSeq(sends)
      OBVIOUS
<1>7. value \in Seq(Byte) /\ Len(value) = Size(obj)
      BY SizeIs DEF Showable
<1> HIDE DEF sends, n, value
<1>8. PICK flat \in [0 .. n -> Seq(Packets)] :
              /\ flat[0] = << >>
              /\ \A i \in 1 .. n : flat[i] = flat[i - 1] \o sends[i]
              /\ FlattenSeq(sends) = flat[n]
      BY <1>5, FlattenIs
<1> DEFINE after(i) == Rebuilt(copy, 0, obj.id, flat[i])
           Good(i) == /\ after(i) \in Seq(Int) /\ Len(after(i)) = Size(obj)
                      /\ copy = value \/ (\E k \in 1 .. i : objects[k] = obj) => after(i) = value
           S == {i \in 0 .. n : Good(i)}
<1>9. 0 \in S
      <2>1. after(0) = copy
            BY <1>8, RebuiltNothing
      <2> HIDE DEF after
      <2> QED BY <1>1, <2>1
<1>10. ASSUME NEW i \in 0 .. n - 1, i \in S PROVE i + 1 \in S
      <2> DEFINE k == i + 1
                 one == EuiSend(link, objects[k], 0, mem)
      <2>1. k \in 1 .. n /\ k - 1 = i /\ i \in 0 .. n /\ k \in 0 .. n /\ \A j \in 1 .. k : j \in 1 .. i \/ j = k
            BY <1>1
      <2>2. Good(i)
            BY <1>10
      <2> HIDE DEF k
      <2>3. flat[i] \in Seq(Packets) /\ flat[k] = flat[i] \o one /\ one \in Seq(Packets)
            BY <1>4, <1>8, <2>1
      <2>4. objects[k] = obj \/ objects[k].id # obj.id
            BY <1>1, <2>1
      <2>5. Reachable(objects[k])
            BY <1>1, <2>1
      <2>6. one \in Seq(Named(link, 0, objects[k].id))
            BY <1>2, <2>5, SendNamed
      <2>7. after(i) \in Seq(Int) /\ Len(after(i)) = Size(obj)
            BY <2>2
      <2>8. objects[k] = obj => Rebuilt(after(i), 0, obj.id, one) = value
            BY <1>2, <2>7, SendRebuilds DEF value
      <2>9. ASSUME objects[k].id # obj.id PROVE Rebuilt(after(i), 0, obj.id, one) = after(i)
            <3> HIDE DEF one, after
            <3>1. \A j \in DOMAIN one : one[j] \in Named(link, 0, objects[k].id)
                  BY <2>6
            <3>2. Foreign(0, obj.id, one)
                  BY <2>9, <3>1 DEF Named, Foreign
            <3>3. Unmoved(after(i), 0, obj.id, one)
                  BY <2>3, <2>7, <3>2, RebuiltOther, Zenon
            <3> QED BY <3>3 DEF Unmoved
      <2> HIDE DEF one
      <2>10. after(k) = Rebuilt(after(i), 0, obj.id, one)
            <3>1. InTurn(copy, 0, obj.id, flat[i], one, flat[k])
                  BY <2>3, RebuiltJoin, Zenon
            <3> QED BY <3>1 DEF InTurn
      <2>11. value \in Seq(Int)
            BY <1>7, BytesAreInts
      <2> HIDE DEF after
      <2>12. Good(k)
            <3>1. CASE objects[k] = obj
                  BY <1>7, <2>8, <2>10, <2>11, <3>1
            <3>2. CASE objects[k] # obj
                  <4>1. after(k) = after(i)
                        BY <2>4, <2>9, <2>10, <3>2
                  <4>2. (\E j \in 1 .. k : objects[j] = obj) => \E j \in 1 .. i : objects[j] = obj
                        BY <2>1, <3>2
                  <4> QED BY <2>2, <4>1, <4>2
            <3> QED BY <3>1, <3>2
      <2> HIDE DEF Good
      <2> QED BY <2>1, <2>12 DEF k
<1>11. Good(n)
      <2> HIDE DEF Good
      <2>1. 0 \in Int /\ n \in Int /\ (0 <= n => 0 \in S)
            BY <1>1, <1>9
      <2>2. \A i \in 0 .. n - 1 : i \in S => i + 1 \in S
            BY <1>10
      <2>3. 0 .. n \subseteq S
            <3> HIDE DEF S
            <3> QED BY <2>1, <2>2, Climbs, Zenon
      <2> QED BY <1>1, <2>3
<1>12. FlattenSeq(sends) \in Seq(Packets)
      BY <1>5, FlattenSent
<1> QED BY <1>1, <1>6, <1>8, <1>11, <1>12 DEF Shown, value

\* A link that is not there, or cannot send, changes no copy.
LEMMA ClosedKeeps ==
    ASSUME NEW copy \in Seq(Int), NEW internal, NEW id, NEW link, link \in Mute \cup {NoLink},
           NEW out \in Seq(Sent(link))
    PROVE  out \in Seq(Packets) /\ Rebuilt(copy, internal, id, out) = copy
<1>1. Sent(link) = {}
      BY DEF Sent
<1>2. out \in Seq({}) /\ {} \subseteq Packets
      BY <1>1
<1>3. out \in Seq(Packets) /\ DOMAIN out = {}
      BY <1>2
<1>4. Foreign(internal, id, out)
      BY <1>3 DEF Foreign
<1> QED BY <1>3, <1>4, RebuiltOther DEF Unmoved

\* What interface_cb sends leaves a copy that is current, if no other object it sends goes
\* by the same name.
LEMMA ReportKeeps ==
    ASSUME NEW auto \in Links \cup {NoLink}, NEW mem, Typed(mem), NEW obj, Showable(obj),
           NEW internal \in Bit, Unshared(internal, obj),
           NEW report, report = Report(auto, "EUI_CB_TRACKED", mem)
    PROVE  /\ report \in Seq(Packets)
           /\ Rebuilt(Contents(obj, mem), internal, obj.id, report) = Contents(obj, mem)
<1> DEFINE objects == Reports["EUI_CB_TRACKED"]
           value == Contents(obj, mem)
<1>1. value \in Seq(Int) /\ Len(value) = Size(obj)
      <2>1. value \in Seq(Byte) /\ Len(value) = Size(obj)
            BY SizeIs DEF Showable
      <2> HIDE DEF value
      <2> QED BY <2>1, BytesAreInts
<1>2. objects \in Seq(Objects) /\ \A k \in DOMAIN objects : Reachable(objects[k])
      BY ObjectsAssumption, KnownIsReachable DEF KnownAll
<1>3. report \in Seq(Sent(auto))
      BY ReportSent
<1> HIDE DEF value
<1>4. CASE auto \in Mute \cup {NoLink}
      BY <1>1, <1>3, <1>4, ClosedKeeps DEF value
<1>5. CASE auto \in Open /\ internal = 0
      <2>1. \A k \in DOMAIN objects : objects[k].id = obj.id => objects[k] = obj
            BY <1>5 DEF Unshared, ToSet
      <2>2. report = FlattenSeq([k \in DOMAIN objects |-> EuiSend(auto, objects[k], 0, mem)])
            BY DEF Report
      <2> HIDE DEF objects
      <2>3. Shown(value, obj, Contents(obj, mem), objects, report)
            BY <1>1, <1>2, <1>5, <2>1, <2>2, ListRebuilds
      <2> QED BY <1>5, <2>3 DEF Shown, value
<1>6. CASE auto \in Open /\ internal = 1
      <2>1. report = FlattenSeq([k \in DOMAIN objects |-> EuiSend(auto, objects[k], 0, mem)])
            BY DEF Report
      <2> DEFINE Others == {p \in Sent(auto) : p.message.internal = 0}
                 sends == [k \in DOMAIN objects |-> EuiSend(auto, objects[k], 0, mem)]
      <2> HIDE DEF objects
      <2>2. \A k \in DOMAIN objects : sends[k] \in Seq(Others)
            <3> SUFFICES ASSUME NEW k \in DOMAIN objects PROVE sends[k] \in Seq(Others)
                  OBVIOUS
            <3>1. 0 \in Bit
                  BY BitsDef
            <3>2. sends[k] \in Seq(Named(auto, 0, objects[k].id))
                  BY <1>2, <3>1, SendNamed
            <3>3. Named(auto, 0, objects[k].id) \subseteq Others
                  BY DEF Named
            <3> HIDE DEF sends, Others
            <3> QED BY <3>2, <3>3
      <2>3. sends = [k \in DOMAIN objects |-> sends[k]]
            OBVIOUS
      <2>4. sends \in Seq(Seq(Others))
            <3> HIDE DEF sends, Others
            <3> QED BY <1>2, <2>2, <2>3, Mapped
      <2>5. report \in Seq(Others)
            <3> HIDE DEF Others
            <3> QED BY <2>1, <2>4, FlattenSent
      <2>6. \A j \in DOMAIN report : report[j].message.internal # internal
            BY <1>6, <2>5
      <2>7. report \in Seq(Packets)
            <3>1. Others \subseteq Packets
                  BY <1>6 DEF Sent, Packets, Open, Framable
            <3> HIDE DEF Others
            <3> QED BY <2>5, <3>1
      <2>8. Foreign(internal, obj.id, report)
            BY <2>6 DEF Foreign
      <2> QED BY <1>1, <2>7, <2>8, RebuiltOther DEF value, Unmoved
<1>7. internal = 0 \/ internal = 1
      BY BitsDef
<1>8. auto \in Mute \cup {NoLink} \/ auto \in Open
      BY DEF Open
<1> QED BY <1>4, <1>5, <1>6, <1>7, <1>8
-----------------------------------------------------------------------------
(* What a peer knows after its packet was handled                              *)

\* a handler sends nothing of its own but what a callback sends
Calls(auto, m, obj, action) ==
    \/ action.called = << >> /\ action.output = << >>
    \/ /\ obj.type = TYPE_CALLBACK /\ (m.response = 1) = (m.acknum # 0)
       /\ obj.ptr \in Callbacks /\ obj.ptr # Null
       /\ action = RunCallback(auto, obj.ptr, dev_tracked, memory) /\ action.called = <<obj.ptr>>

LEMMA ActionCalls ==
    ASSUME Tracked, Typed(memory), NEW auto, NEW m \in Inbound, NEW counted \in Counts(m),
           NEW obj, Reachable(obj),
           NEW action, action = HandlePacketAction(auto, m, counted, obj, dev_tracked, memory)
    PROVE  Calls(auto, m, obj, action)
<1>1. ASSUME NEW status, NEW mem, action = Effect(status, << >>, << >>, mem)
      PROVE  Calls(auto, m, obj, action)
      BY <1>1 DEF Effect, Calls
<1>2. CASE obj.type # m.type
      <2>1. \E status : action = Effect(status, << >>, << >>, memory)
            BY <1>2 DEF HandlePacketAction
      <2> QED BY <1>1, <2>1
<1>3. CASE obj.type = m.type /\ obj.type = TYPE_CALLBACK
      <2>1. CASE (m.response = 1) = (m.acknum # 0) /\ obj.ptr # Null
            <3>1. action = RunCallback(auto, obj.ptr, dev_tracked, memory)
                  BY <1>3, <2>1 DEF HandlePacketAction
            <3>2. obj.ptr \in Callbacks
                  BY <1>3 DEF Reachable
            <3>3. action.called = <<obj.ptr>>
                  BY <2>1, <3>1, <3>2, CallbackIs
            <3> QED BY <1>3, <2>1, <3>1, <3>2, <3>3 DEF Calls
      <2>2. CASE ~((m.response = 1) = (m.acknum # 0) /\ obj.ptr # Null)
            <3>1. \E status : action = Effect(status, << >>, << >>, memory)
                  BY <1>3, <2>2 DEF HandlePacketAction
            <3> QED BY <1>1, <3>1
      <2> QED BY <2>1, <2>2
<1>4. CASE obj.type = m.type /\ obj.type # TYPE_CALLBACK
      <2>1. \E status, mem : action = Effect(status, << >>, << >>, mem)
            BY <1>4 DEF HandlePacketAction
      <2> QED BY <1>1, <2>1
<1> QED BY <1>2, <1>3, <1>4

\* what a call that handles a packet leaves
Handled(link, m, obj, action, ack, query, report) ==
    /\ memory' = action.memory /\ Typed(action.memory)
    /\ dev_tracked' = dev_tracked /\ registered' = registered
    /\ action.output \in Seq(Sent(link)) /\ query \in Seq(Sent(link)) /\ report \in Seq(Sent(link))
    /\ IF action.status = EUI_ACTION_OK THEN Answered(link, m, obj, ack) ELSE ack = << >>
    /\ call'.output = ((action.output \o ack) \o query) \o report
    /\ call'.link = link /\ call'.message = <<m>> /\ call'.called = action.called
    /\ call'.status[1].action = action.status
    /\ call'.status[1].query = QueryStatus(link, m, obj)
    /\ action.status = EUI_ACTION_OK =>
           call'.status[1].ack = IF m.acknum # 0 /\ m.response = 1 /\ CannotSend(link, obj)
                                 THEN EUI_OUTPUT_ERROR ELSE EUI_OUTPUT_OK
    /\ Target' = <<obj>> /\ Answers' = [k \in DOMAIN call'.output |-> call'.output[k].message]

LEMMA HandledWrites ==
    ASSUME TypeInv, NEW link \in Links, NEW m \in Inbound, NEW counted \in Counts(m),
           EuiParseOk(link, m, counted),
           FindMessageObject(Namespace(m.internal), m.id) # << >>,
           NEW obj, obj = FindMessageObject(Namespace(m.internal), m.id)[1],
           NEW action, action = HandlePacketAction(AutoInterface(link), m, counted, obj, dev_tracked, memory),
           NEW ack, ack = IF Acknowledges(action) THEN HandlePacketAck(link, m, obj) ELSE << >>,
           NEW query, query = HandlePacketQuery(link, m, obj, action.memory),
           NEW report, report = Report(AutoInterface(link), "EUI_CB_TRACKED", action.memory)
    PROVE  Handled(link, m, obj, action, ack, query, report)
<1> DEFINE Bits(bits) == [ action |-> action.status,
                           ack    |-> IF ~Acknowledges(action) THEN bits.ack
                                      ELSE IF m.acknum # 0 /\ m.response = 1 /\ CannotSend(link, obj)
                                      THEN EUI_OUTPUT_ERROR ELSE EUI_OUTPUT_OK,
                           query  |-> QueryStatus(link, m, obj) ]
<1>0. Tracked /\ Typed(memory)
      BY DEF TypeInv
<1>1. /\ memory' = action.memory
      /\ \E bits \in Garbage :
            call' = [Call("eui_parse", link, <<m>>, action.output \o ack \o query \o report)
                     EXCEPT !.called = action.called, !.notified = <<"EUI_CB_TRACKED">>,
                            !.status = <<Bits(bits)>>, !.behind = Behind(m, obj)]
      BY Zenon DEF EuiParseOk
<1>2. PICK bits \in Garbage :
          call' = [Call("eui_parse", link, <<m>>, action.output \o ack \o query \o report)
                   EXCEPT !.called = action.called, !.notified = <<"EUI_CB_TRACKED">>,
                          !.status = <<Bits(bits)>>, !.behind = Behind(m, obj)]
      BY <1>1
<1>3. dev_tracked' = dev_tracked /\ registered' = registered
      BY Zenon DEF EuiParseOk
<1>4. Reachable(obj)
      BY <1>0, FoundIsReachable DEF Tracked
<1>5. action.output \in Seq(Sent(link)) /\ Typed(action.memory)
      BY <1>0, <1>4, ActionIs, AutoIs
<1>6. query \in Seq(Sent(link))
      BY <1>0, <1>5, QuerySent
<1>7. report \in Seq(Sent(link))
      BY <1>5, ReportSent, AutoIs
<1>8. IF action.status = EUI_ACTION_OK THEN Answered(link, m, obj, ack) ELSE ack = << >>
      <2>1. CASE action.status = EUI_ACTION_OK
            <3>1. ack = HandlePacketAck(link, m, obj)
                  BY <2>1 DEF Acknowledges
            <3> QED BY <1>4, <2>1, <3>1, AckIs, Zenon
      <2>2. CASE action.status # EUI_ACTION_OK
            BY <2>2 DEF Acknowledges
      <2> QED BY <2>1, <2>2
<1> HIDE DEF Bits
<1>9. call'.output = ((action.output \o ack) \o query) \o report
      BY <1>2 DEF Call
<1>10. /\ call'.link = link /\ call'.message = <<m>> /\ call'.called = action.called
       /\ call'.status = <<Bits(bits)>>
      BY <1>2 DEF Call
<1>11. /\ call'.status[1].action = action.status
       /\ call'.status[1].query = QueryStatus(link, m, obj)
       /\ action.status = EUI_ACTION_OK =>
              call'.status[1].ack = IF m.acknum # 0 /\ m.response = 1 /\ CannotSend(link, obj)
                                    THEN EUI_OUTPUT_ERROR ELSE EUI_OUTPUT_OK
      <2>1. call'.status[1] = Bits(bits)
            BY <1>10
      <2> QED BY <2>1 DEF Bits, Acknowledges
<1>12. Target' = <<obj>> /\ Answers' = [k \in DOMAIN call'.output |-> call'.output[k].message]
      <2>1. call'.message # << >> /\ call'.message[1] = m
            BY <1>10
      <2>2. Target' = FindMessageObject(Namespace(m.internal), m.id)
            BY <1>3, <2>1 DEF Target, Namespace
      <2>3. FindMessageObject(Namespace(m.internal), m.id) = <<obj>>
            <3>1. \E x : FindMessageObject(Namespace(m.internal), m.id) = <<x>>
                  BY Zenon DEF FindMessageObject
            <3> QED BY <3>1
      <2> QED BY <2>2, <2>3 DEF Answers
<1> QED BY <1>1, <1>3, <1>5, <1>6, <1>7, <1>8, <1>9, <1>10, <1>11, <1>12, Zenon DEF Handled

\* A peer that queried a variable.
LEMMA QueryCurrent ==
    ASSUME TypeInv, NEW link \in Links, NEW m \in Inbound, NEW counted \in Counts(m),
           NEW obj, Reachable(obj),
           NEW action, action = HandlePacketAction(AutoInterface(link), m, counted, obj, dev_tracked, memory),
           NEW ack, NEW query, query = HandlePacketQuery(link, m, obj, action.memory),
           NEW report, report = Report(AutoInterface(link), "EUI_CB_TRACKED", action.memory),
           Handled(link, m, obj, action, ack, query, report)
    PROVE  QueryIsCurrent'
<1>1. Target' = <<obj>> /\ call'.message = <<m>> /\ call'.link = link /\ memory' = action.memory
      BY DEF Handled
<1>2. call'.message[1] = m /\ Target'[1] = obj /\ Target' # << >>
      BY <1>1
<1> DEFINE value == memory'[obj.ptr]
           blank == [n \in DOMAIN value |-> 256]
<1> SUFFICES ASSUME obj.type # TYPE_CALLBACK, link \notin Mute, Unshared(m.internal, obj)',
                    m.response = 1, m.acknum = 0, m.type # TYPE_OFFSET_METADATA
             PROVE  Rebuilt(blank, m.internal, obj.id, call'.output) = value
      BY <1>1, <1>2, Zenon DEF QueryIsCurrent
<1>3. Showable(obj) /\ link \in Open /\ m.internal \in Bit
      <2>1. m \in Message
            BY InboundAssumption DEF Sendable
      <2> QED BY <2>1 DEF Showable, Open, Message
<1>4. Unshared(m.internal, obj) /\ Typed(action.memory)
      BY DEF Handled, Unshared
<1>5. action.output = << >>
      <2>1. Calls(AutoInterface(link), m, obj, action)
            BY ActionCalls DEF TypeInv
      <2> QED BY <2>1 DEF Calls
<1>6. ack = << >>
      BY DEF Handled, Answered
<1>7. query = EuiSend(link, obj, m.internal, action.memory)
      BY DEF HandlePacketQuery
<1>8. value = Contents(obj, action.memory)
      BY <1>1 DEF Contents
<1>9. blank \in Seq(Int) /\ Len(blank) = Size(obj)
      <2>1. value \in Seq(Byte) /\ Len(value) = Size(obj)
            BY <1>3, <1>4, <1>8, SizeIs DEF Showable
      <2> HIDE DEF value
      <2>2. DOMAIN value = 1 .. Len(value) /\ Len(value) \in Nat
            BY <2>1
      <2> QED BY <2>1, <2>2
<1>10. query \in Seq(Packets)
      <2>1. Sent(link) \subseteq Packets
            BY <1>3 DEF Sent, Packets, Open, Framable
      <2>2. query \in Seq(Sent(link))
            BY DEF Handled
      <2> QED BY <2>1, <2>2
<1> HIDE DEF blank, value
<1>11. Rebuilt(blank, m.internal, obj.id, query) = value
      BY <1>3, <1>4, <1>7, <1>8, <1>9, SendRebuilds
<1>12. report \in Seq(Packets) /\ Rebuilt(value, m.internal, obj.id, report) = value
      <2>1. AutoInterface(link) \in Links \cup {NoLink}
            BY AutoIs
      <2>2. /\ report \in Seq(Packets)
            /\ Rebuilt(Contents(obj, action.memory), m.internal, obj.id, report) = Contents(obj, action.memory)
            <3> DEFINE mem == action.memory
            <3>1. Typed(mem) /\ report = Report(AutoInterface(link), "EUI_CB_TRACKED", mem)
                  BY <1>4, Zenon
            <3> HIDE DEF mem
            <3>2. report \in Seq(Packets) /\ Rebuilt(Contents(obj, mem), m.internal, obj.id, report) = Contents(obj, mem)
                  BY <1>3, <1>4, <2>1, <3>1, ReportKeeps
            <3> QED BY <3>2 DEF mem
      <2> QED BY <1>8, <2>2, Zenon
<1>13. call'.output = query \o report
      <2>1. call'.output = ((<< >> \o << >>) \o query) \o report
            BY <1>5, <1>6 DEF Handled
      <2>2. << >> \o << >> = << >> /\ << >> \o query = query
            BY <1>10
      <2> QED BY <2>1, <2>2
<1>14. Rebuilt(blank, m.internal, obj.id, call'.output)
           = Rebuilt(Rebuilt(blank, m.internal, obj.id, query), m.internal, obj.id, report)
      <2> DEFINE out == call'.output
      <2>1. out = query \o report
            BY <1>13
      <2> HIDE DEF out
      <2>2. InTurn(blank, m.internal, obj.id, query, report, out)
            BY <1>9, <1>10, <1>12, <2>1, RebuiltJoin, Zenon
      <2> QED BY <2>2 DEF InTurn, out
<1> QED BY <1>11, <1>12, <1>13, <1>14

\* An acknowledgement in the other namespace.
LEMMA AnswersApart ==
    ASSUME NEW link \in Open, NEW m, m.internal = 1, NEW obj, NEW ack, Answered(link, m, obj, ack)
    PROVE  ack \in Seq(Packets) /\ \A j \in DOMAIN ack : ack[j].message.internal # 0
<1>1. CASE ack = << >>
      BY <1>1
<1>2. CASE ack # << >>
      <2>1. PICK p \in OnLink(link) : ack = <<p>> /\ p.message.internal = 1
            BY <1>2 DEF Answered
      <2>2. p \in Packets
            BY DEF OnLink, Packets, Open, Framable
      <2>3. <<p>> \in Seq(Packets) /\ \A j \in DOMAIN <<p>> : <<p>>[j] = p
            BY <2>2
      <2> QED BY <2>1, <2>3
<1> QED BY <1>1, <1>2

\* A peer that asked for all values.
LEMMA HandshakeCurrent ==
    ASSUME TypeInv, NEW link \in Links, NEW m \in Inbound, NEW counted \in Counts(m),
           NEW obj, FindMessageObject(Namespace(m.internal), m.id) # << >>,
           obj = FindMessageObject(Namespace(m.internal), m.id)[1],
           NEW action, action = HandlePacketAction(AutoInterface(link), m, counted, obj, dev_tracked, memory),
           NEW ack, ack = IF Acknowledges(action) THEN HandlePacketAck(link, m, obj) ELSE << >>,
           NEW query, query = HandlePacketQuery(link, m, obj, action.memory),
           NEW report, report = Report(AutoInterface(link), "EUI_CB_TRACKED", action.memory),
           Handled(link, m, obj, action, ack, query, report)
    PROVE  HandshakeSendsValues'
<1>1. /\ call'.called = action.called /\ call'.link = link /\ memory' = action.memory
      /\ dev_tracked' = dev_tracked /\ registered' = registered
      BY DEF Handled
<1> SUFFICES ASSUME "send_tracked_variables" \in ToSet(action.called), registered, link \notin Mute,
                    NEW k \in DOMAIN dev_tracked,
                    dev_tracked[k].type # TYPE_CALLBACK, Unshared(0, dev_tracked[k])'
             PROVE  LET value == Contents(dev_tracked[k], memory')
                    IN  Rebuilt([n \in DOMAIN value |-> 256], 0, dev_tracked[k].id, call'.output) = value
      BY <1>1, Zenon DEF HandshakeSendsValues
<1> DEFINE other == dev_tracked[k]
           value == Contents(other, memory')
           blank == [n \in DOMAIN value |-> 256]
           first == SendTrackedVariables(link, dev_tracked, memory)
<1>2. Tracked /\ Typed(memory) /\ Reachable(obj)
      BY FoundIsReachable DEF TypeInv, Tracked
<1>3. AutoInterface(link) = link
      BY DEF AutoInterface
<1>4. /\ obj.type = TYPE_CALLBACK /\ (m.response = 1) = (m.acknum # 0)
      /\ obj.ptr = "send_tracked_variables"
      /\ action = RunCallback(link, obj.ptr, dev_tracked, memory)
      <2>1. Calls(link, m, obj, action)
            BY <1>2, <1>3, ActionCalls
      <2>2. action.called # << >>
            BY DEF ToSet
      <2>3. action.called = <<obj.ptr>> => obj.ptr = "send_tracked_variables"
            BY DEF ToSet
      <2> QED BY <2>1, <2>2, <2>3 DEF Calls
<1>5. action = Effect(EUI_ACTION_OK, first, <<obj.ptr>>, memory)
      BY <1>4 DEF RunCallback
<1>6. action.output = first /\ action.memory = memory
      <2> HIDE DEF first
      <2> QED BY <1>5 DEF Effect
<1>7. /\ dev_tracked \in Seq(Objects) /\ \A j \in DOMAIN dev_tracked : Known(dev_tracked[j])
      BY <1>2, TrackedIs DEF Tracked
<1>8. Showable(other) /\ link \in Open /\ Unshared(0, other)
      <2>1. Unshared(0, other)
            BY <1>1 DEF Unshared
      <2> QED BY <1>7, <2>1, KnownIsReachable DEF Showable, Open
<1>9. \A j \in DOMAIN dev_tracked : dev_tracked[j].id = other.id => dev_tracked[j] = other
      BY <1>8 DEF Unshared, ToSet
<1>10. blank \in Seq(Int) /\ Len(blank) = Size(other) /\ value = Contents(other, memory)
      <2>1. value \in Seq(Byte) /\ Len(value) = Size(other)
            BY <1>1, <1>2, <1>6, <1>8, SizeIs DEF Showable
      <2>2. value = Contents(other, memory)
            BY <1>1, <1>6
      <2> HIDE DEF value
      <2>3. DOMAIN value = 1 .. Len(value) /\ Len(value) \in Nat
            BY <2>1
      <2> QED BY <2>1, <2>2, <2>3
<1>11. first = FlattenSeq([j \in DOMAIN dev_tracked |-> EuiSend(link, dev_tracked[j], 0, memory)])
      BY DEF SendTrackedVariables
<1>12. \A j \in DOMAIN dev_tracked : Reachable(dev_tracked[j])
      BY <1>7, KnownIsReachable
<1> HIDE DEF first, blank, value
<1>13. Shown(blank, other, Contents(other, memory), dev_tracked, first)
      <2> HIDE DEF other
      <2> QED BY <1>2, <1>7, <1>8, <1>9, <1>10, <1>11, <1>12, ListRebuilds
<1>14. first \in Seq(Packets) /\ Rebuilt(blank, 0, other.id, first) = value
      BY <1>10, <1>13 DEF Shown
<1>15. value \in Seq(Int)
      BY <1>14, <1>10, RebuiltType
<1>16. ack \in Seq(Packets) /\ \A j \in DOMAIN ack : ack[j].message.internal # 0
      <2>1. m.internal = 1
            <3> SUFFICES ASSUME m.internal # 1 PROVE FALSE
                  OBVIOUS
            <3>1. Namespace(m.internal) = dev_tracked /\ DOMAIN dev_tracked \subseteq Nat
                  BY <1>7 DEF Namespace
            <3>2. PICK j \in DOMAIN dev_tracked : obj = dev_tracked[j]
                  BY <3>1, FoundIsListed
            <3>3. Known(obj)
                  BY <1>7, <3>2
            <3> QED BY <1>4, <3>3, FunctionsAssumption DEF Known, Null
      <2>2. action.status = EUI_ACTION_OK
            <3> HIDE DEF first
            <3> QED BY <1>5 DEF Effect
      <2>3. Answered(link, m, obj, ack)
            BY <2>2, Zenon DEF Handled
      <2> QED BY <1>8, <2>1, <2>3, AnswersApart
<1>17. query = << >>
      BY <1>4 DEF HandlePacketQuery
<1>18. report \in Seq(Packets) /\ Rebuilt(value, 0, other.id, report) = value
      <2>1. 0 \in Bit
            BY BitsDef
      <2> QED BY <1>2, <1>3, <1>6, <1>8, <1>10, <2>1, ReportKeeps
<1>19. Rebuilt(value, 0, other.id, ack) = value
      <2>1. Foreign(0, other.id, ack)
            BY <1>16 DEF Foreign
      <2> HIDE DEF other
      <2>2. Unmoved(value, 0, other.id, ack)
            BY <1>15, <1>16, <2>1, RebuiltOther, Zenon
      <2> QED BY <2>2 DEF Unmoved
<1>20. call'.output = (first \o ack) \o report
      <2>1. call'.output = ((first \o ack) \o << >>) \o report
            BY <1>6, <1>17 DEF Handled
      <2>2. (first \o ack) \o << >> = first \o ack
            <3>1. first \o ack \in Seq(Packets)
                  BY <1>14, <1>16, ConcatProperties
            <3> QED BY <3>1, ConcatEmptySeq
      <2> QED BY <2>1, <2>2
<1> DEFINE two == first \o ack
<1>21. two \in Seq(Packets) /\ two = first \o ack /\ call'.output = two \o report
      BY <1>14, <1>16, <1>20, ConcatProperties
<1> HIDE DEF two
<1>22. Rebuilt(blank, 0, other.id, two) = value
      <2>1. Rebuilt(blank, 0, other.id, two)
                = Rebuilt(Rebuilt(blank, 0, other.id, first), 0, other.id, ack)
            <3>1. InTurn(blank, 0, other.id, first, ack, two)
                  BY <1>10, <1>14, <1>16, <1>21, RebuiltJoin, Zenon
            <3> QED BY <3>1 DEF InTurn
      <2> QED BY <1>14, <1>19, <2>1, Zenon
<1>23. Rebuilt(blank, 0, other.id, call'.output) = value
      <2>1. Rebuilt(blank, 0, other.id, call'.output)
                = Rebuilt(Rebuilt(blank, 0, other.id, two), 0, other.id, report)
            <3> DEFINE out == call'.output
            <3>1. out = two \o report
                  BY <1>21
            <3> HIDE DEF out
            <3>2. InTurn(blank, 0, other.id, two, report, out)
                  BY <1>10, <1>18, <1>21, <3>1, RebuiltJoin, Zenon
            <3> QED BY <3>2 DEF InTurn, out
      <2> QED BY <1>18, <1>22, <2>1, Zenon
<1> QED BY <1>23 DEF value, blank
\* Every packet that answers a query is among those sent.
Holds(part, whole) == \A j \in DOMAIN part : \E k \in DOMAIN whole : whole[k] = part[j]

LEMMA AnswerSent ==
    ASSUME NEW S, NEW first \in Seq(S), NEW ack \in Seq(S), NEW answer \in Seq(S), NEW rest \in Seq(S),
           NEW whole, whole = ((first \o ack) \o answer) \o rest
    PROVE  Holds(answer, whole)
<1> DEFINE one == first \o ack
           two == one \o answer
<1>1. one \in Seq(S) /\ two \in Seq(S)
      OBVIOUS
<1>2. two = one \o answer /\ whole = two \o rest
      OBVIOUS
<1> HIDE DEF one, two
<1>3. Joins(one, answer, two)
      BY <1>1, <1>2, Joined, Zenon
<1>4. Joins(two, rest, whole)
      BY <1>1, <1>2, Joined, Zenon
<1>5. \A j \in DOMAIN answer : \E k \in DOMAIN two : two[k] = answer[j]
      BY <1>3, Zenon DEF Joins
<1>6. \A k \in DOMAIN two : k \in DOMAIN whole /\ whole[k] = two[k]
      BY <1>4, Zenon DEF Joins
<1> QED BY <1>5, <1>6, Zenon DEF Holds

\* An object without a function sends nothing.
LEMMA NullSendsNothing ==
    ASSUME NEW link, NEW obj, Reachable(obj), obj.ptr = Null, NEW internal, NEW mem
    PROVE  EuiSend(link, obj, internal, mem) = << >> /\ obj.type = TYPE_CALLBACK
<1>1. obj.type = TYPE_CALLBACK
      BY NullIsNone DEF Reachable
<1>2. Size(obj) <= PAYLOAD_SIZE_MAX
      BY <1>1, PayloadAssumption DEF Size
<1>3. EuiSend(link, obj, internal, mem)
          = Encode(link, obj.ptr, Simple(internal, obj.type, obj.id, Contents(obj, mem)))
      BY <1>2 DEF EuiSend
<1> QED BY <1>1, <1>3 DEF Encode

\* What interface_cb sends goes by other names than an object without a function.
Unnamed(id, out) == \A j \in DOMAIN out : out[j].message.id # id

LEMMA ReportsOthers ==
    ASSUME NEW auto \in Links \cup {NoLink}, NEW mem, Typed(mem), NEW obj, Reachable(obj),
           obj.ptr = Null, Unshared(0, obj),
           NEW report, report = Report(auto, "EUI_CB_TRACKED", mem)
    PROVE  Unnamed(obj.id, report)
<1> DEFINE objects == Reports["EUI_CB_TRACKED"]
           Rest == {p \in Sent(auto) : p.message.id # obj.id}
           sends == [k \in DOMAIN objects |-> EuiSend(auto, objects[k], 0, mem)]
<1>1. objects \in Seq(Objects) /\ \A k \in DOMAIN objects : Reachable(objects[k])
      BY ObjectsAssumption, KnownIsReachable DEF KnownAll
<1>2. \A k \in DOMAIN objects : objects[k].id = obj.id => objects[k] = obj
      BY DEF Unshared, ToSet
<1>3. report = FlattenSeq([k \in DOMAIN objects |-> EuiSend(auto, objects[k], 0, mem)])
      BY DEF Report
<1> HIDE DEF objects
<1>4. \A k \in DOMAIN objects : sends[k] \in Seq(Rest)
      <2> SUFFICES ASSUME NEW k \in DOMAIN objects PROVE sends[k] \in Seq(Rest)
            OBVIOUS
      <2>1. CASE objects[k] = obj
            <3>1. sends[k] = << >>
                  BY <1>1, <2>1, NullSendsNothing
            <3> HIDE DEF sends, Rest
            <3> QED BY <3>1
      <2>2. CASE objects[k] # obj
            <3>1. 0 \in Bit
                  BY BitsDef
            <3>2. sends[k] \in Seq(Named(auto, 0, objects[k].id))
                  BY <1>1, <3>1, SendNamed
            <3>3. Named(auto, 0, objects[k].id) \subseteq Rest
                  BY <1>2, <2>2 DEF Named
            <3> HIDE DEF sends, Rest
            <3> QED BY <3>2, <3>3
      <2> QED BY <2>1, <2>2
<1>5. sends = [k \in DOMAIN objects |-> sends[k]]
      OBVIOUS
<1>6. sends \in Seq(Seq(Rest))
      <2> HIDE DEF sends, Rest
      <2> QED BY <1>1, <1>4, <1>5, Mapped
<1>7. report \in Seq(Rest)
      <2> HIDE DEF Rest
      <2> QED BY <1>3, <1>6, FlattenSent
<1> QED BY <1>7 DEF Unnamed
\* The status tells a peer's library whether its answer went out.
LEMMA StatusTrue ==
    ASSUME TypeInv, NEW link \in Links, NEW m \in Inbound, NEW counted \in Counts(m),
           NEW obj, Reachable(obj),
           m.internal = 1 => obj.ptr # Null,
           NEW action, action = HandlePacketAction(AutoInterface(link), m, counted, obj, dev_tracked, memory),
           NEW ack, NEW query, query = HandlePacketQuery(link, m, obj, action.memory),
           NEW report, report = Report(AutoInterface(link), "EUI_CB_TRACKED", action.memory),
           Handled(link, m, obj, action, ack, query, report)
    PROVE  StatusIsTrue'
<1> DEFINE out == call'.output
           Acks == {k \in DOMAIN out : out[k].message.acknum # 0}
           Shows == {k \in DOMAIN out : /\ out[k].message.internal = m.internal
                                        /\ out[k].message.id = obj.id
                                        /\ out[k].message.acknum = 0}
<1>1. /\ Target' = <<obj>> /\ call'.message = <<m>> /\ dev_tracked' = dev_tracked
      /\ Answers' = [k \in DOMAIN out |-> out[k].message]
      BY DEF Handled
<1>2. /\ action.output \in Seq(Sent(link)) /\ query \in Seq(Sent(link)) /\ report \in Seq(Sent(link))
      /\ out = ((action.output \o ack) \o query) \o report
      /\ Typed(action.memory)
      BY DEF Handled
<1>3. /\ call'.message[1] = m /\ Target'[1] = obj /\ DOMAIN Answers' = DOMAIN out
      /\ \A k \in DOMAIN out : Answers'[k] = out[k].message
      BY <1>1
<1>4. link # NoLink
      BY LinksAssumption
<1>5. ack = << >> \/ \E p \in OnLink(link) : ack = <<p>> /\ p.message.acknum = m.acknum /\ m.acknum # 0
      BY Zenon DEF Handled, Answered
<1> HIDE DEF out
<1>6. Acked(link, action.output, ack, out)
      <2>1. ack = << >> \/ \E p \in OnLink(link) : ack = <<p>>
            BY <1>5
      <2> QED BY <1>2, <2>1, OneAck, Zenon
<1>7. ack \in Seq(OnLink(link)) /\ Len(ack) <= 1
      <2>1. ASSUME NEW p \in OnLink(link) PROVE <<p>> \in Seq(OnLink(link)) /\ Len(<<p>>) <= 1
            OBVIOUS
      <2>2. << >> \in Seq(OnLink(link)) /\ Len(<< >>) <= 1
            OBVIOUS
      <2>3. ack = << >> \/ \E p \in OnLink(link) : ack = <<p>>
            BY <1>5
      <2> QED BY <2>1, <2>2, <2>3
<1>8. /\ action.output \in Seq(OnLink(link)) /\ query \in Seq(OnLink(link)) /\ report \in Seq(OnLink(link))
      BY <1>2, SentOnLink
<1>9. Parts(action.output, ack, query, report, out)
      BY <1>2, <1>7, <1>8, PartsIn, Zenon
<1>10. Holds(query, out)
      BY <1>2, <1>7, <1>8, AnswerSent, Zenon
<1>11. ASSUME m.response = 1, m.acknum # 0, call'.status[1].action = EUI_ACTION_OK
       PROVE  (call'.status[1].ack = EUI_OUTPUT_OK) = (Acks # {})
      <2>1. action.status = EUI_ACTION_OK
            BY <1>11 DEF Handled
      <2>2. Answered(link, m, obj, ack)
            BY <2>1, Zenon DEF Handled
      <2>3. call'.status[1].ack = IF CannotSend(link, obj) THEN EUI_OUTPUT_ERROR ELSE EUI_OUTPUT_OK
            BY <1>11, <2>1 DEF Handled
      <2>4. CASE CannotSend(link, obj)
            <3>1. ack = << >>
                  BY <2>2, <2>4 DEF Answered, CannotSend
            <3>2. Acks = {}
                  BY <1>6, <3>1 DEF Acked
            <3> QED BY <2>3, <2>4, <3>2 DEF EUI_OUTPUT_ERROR, EUI_OUTPUT_OK
      <2>5. CASE ~CannotSend(link, obj)
            <3>0. link \notin Mute \cup {NoLink} /\ obj.ptr # Null /\ m.response # 0
                  BY <1>4, <1>11, <2>5 DEF CannotSend
            <3>1. ack # << >>
                  <4>1. PICK p : ack = <<p>>
                        BY <1>11, <2>2, <3>0, Zenon DEF Answered
                  <4> QED BY <4>1
            <3>2. ack[1].message.acknum # 0
                  BY <1>5, <3>1
            <3>3. Len(action.output) + 1 \in Acks
                  BY <1>9, <3>1, <3>2 DEF Parts
            <3> QED BY <2>3, <2>5, <3>3
      <2> QED BY <2>4, <2>5
<1>12. ASSUME m.response = 1, m.acknum = 0, m.type # TYPE_OFFSET_METADATA, Unshared(m.internal, obj)
       PROVE  (call'.status[1].query = EUI_OUTPUT_OK) = (Shows # {})
      <2>1. call'.status[1].query = IF CannotSend(link, obj) THEN EUI_OUTPUT_ERROR ELSE EUI_OUTPUT_OK
            BY <1>12 DEF Handled, QueryStatus
      <2>2. query = EuiSend(link, obj, m.internal, action.memory)
            BY <1>12 DEF HandlePacketQuery
      <2>3. m.internal \in Bit
            BY InboundAssumption DEF Sendable, Message
      <2>4. CASE ~CannotSend(link, obj)
            <3>1. link \notin Mute \cup {NoLink} /\ obj.ptr # Null
                  BY <1>4, <2>4 DEF CannotSend
            <3>2. 1 \in 1 .. Len(query) /\ query[1].message.id = obj.id
                  BY <1>2, <2>2, <2>3, <3>1, SendsId
            <3>3. query \in Seq(Named(link, m.internal, obj.id))
                  BY <1>2, <2>2, <2>3, SendNamed
            <3>4. 1 \in DOMAIN query
                  BY <1>2, <3>2
            <3>5. query[1] \in Named(link, m.internal, obj.id)
                  BY <3>3, <3>4
            <3>6. query[1].message.internal = m.internal /\ query[1].message.acknum = 0
                  BY <3>5 DEF Named, Sent
            <3>7. PICK k \in DOMAIN out : out[k] = query[1]
                  BY <1>10, <3>4 DEF Holds
            <3>8. k \in Shows
                  BY <3>2, <3>6, <3>7
            <3> QED BY <2>1, <2>4, <3>8
      <2>5. CASE link \in Mute
            <3>1. ASSUME NEW k \in DOMAIN out PROVE FALSE
                  <4>1. out \in Seq(FittingPackets) /\ out[k].link = link
                        BY <1>6 DEF Acked
                  <4>2. out[k] \in FittingPackets
                        BY <4>1
                  <4> QED BY <2>5, <4>1, <4>2 DEF FittingPackets
            <3>2. DOMAIN out = {}
                  BY <3>1
            <3>3. CannotSend(link, obj)
                  BY <2>5 DEF CannotSend
            <3> QED BY <2>1, <3>2, <3>3 DEF EUI_OUTPUT_ERROR, EUI_OUTPUT_OK
      <2>6. CASE obj.ptr = Null
            <3>1. m.internal # 1
                  BY <2>6
            <3>2. action.output = << >>
                  <4>1. Calls(AutoInterface(link), m, obj, action)
                        BY ActionCalls DEF TypeInv
                  <4> QED BY <2>6, <4>1 DEF Calls
            <3>3. ack = << >>
                  BY <1>5, <1>12
            <3>4. query = << >>
                  BY <2>2, <2>6, NullSendsNothing
            <3>5. Unshared(0, obj)
                  BY <1>12, <3>1 DEF Unshared
            <3>6. \A j \in DOMAIN report : report[j].message.id # obj.id
                  <4>1. AutoInterface(link) \in Links \cup {NoLink}
                        BY AutoIs
                  <4>2. Unnamed(obj.id, report)
                        BY <1>2, <2>6, <3>5, <4>1, ReportsOthers, Zenon
                  <4> QED BY <4>2 DEF Unnamed
            <3>7. \A k \in DOMAIN out : \E j \in DOMAIN report : out[k] = report[j]
                  <4>1. DOMAIN action.output = {} /\ DOMAIN query = {}
                        BY <3>2, <3>4
                  <4> QED BY <1>9, <3>3, <4>1 DEF Parts
            <3>8. Shows = {}
                  BY <3>6, <3>7
            <3>9. CannotSend(link, obj)
                  BY <2>6 DEF CannotSend
            <3> QED BY <2>1, <3>8, <3>9 DEF EUI_OUTPUT_ERROR, EUI_OUTPUT_OK
      <2> QED BY <2>4, <2>5, <2>6 DEF CannotSend
<1>13. /\ {k \in DOMAIN Answers' : Answers'[k].acknum # 0} = Acks
       /\ {k \in DOMAIN Answers' : /\ Answers'[k].internal = m.internal /\ Answers'[k].id = obj.id
                                   /\ Answers'[k].acknum = 0} = Shows
      BY <1>3
<1>14. Unshared(m.internal, obj)' = Unshared(m.internal, obj)
      BY <1>1 DEF Unshared
<1> HIDE DEF Acks, Shows
<1> QED BY <1>3, <1>11, <1>12, <1>13, <1>14 DEF StatusIsTrue-----------------------------------------------------------------------------
(* What a peer knows after any call                                            *)

Current == StatusIsTrue /\ QueryIsCurrent /\ HandshakeSendsValues

\* A call that handles a packet.
LEMMA HandledCurrent ==
    ASSUME TypeInv, NEW link \in Links, NEW m \in Inbound, NEW counted \in Counts(m),
           EuiParseOk(link, m, counted),
           FindMessageObject(Namespace(m.internal), m.id) # << >>
    PROVE  Current'
<1> DEFINE obj    == FindMessageObject(Namespace(m.internal), m.id)[1]
           action == HandlePacketAction(AutoInterface(link), m, counted, obj, dev_tracked, memory)
           ack    == IF Acknowledges(action) THEN HandlePacketAck(link, m, obj) ELSE << >>
           query  == HandlePacketQuery(link, m, obj, action.memory)
           report == Report(AutoInterface(link), "EUI_CB_TRACKED", action.memory)
<1>1. /\ obj = FindMessageObject(Namespace(m.internal), m.id)[1]
      /\ action = HandlePacketAction(AutoInterface(link), m, counted, obj, dev_tracked, memory)
      /\ ack = IF Acknowledges(action) THEN HandlePacketAck(link, m, obj) ELSE << >>
      /\ query = HandlePacketQuery(link, m, obj, action.memory)
      /\ report = Report(AutoInterface(link), "EUI_CB_TRACKED", action.memory)
      OBVIOUS
<1>2. Reachable(obj)
      BY FoundIsReachable DEF TypeInv, Tracked
<1>3. m.internal = 1 => obj.ptr # Null
      <2> SUFFICES ASSUME m.internal = 1 PROVE obj.ptr # Null
            OBVIOUS
      <2>1. Namespace(m.internal) = internal_msg_store
            BY DEF Namespace
      <2>2. DOMAIN internal_msg_store \subseteq Nat
            BY InternalKnown
      <2>3. \E k \in DOMAIN internal_msg_store : obj = internal_msg_store[k]
            BY <2>1, <2>2, FoundIsListed
      <2> QED BY <2>3, InternalKnown
<1> HIDE DEF obj, action, ack, query, report
<1>4. Handled(link, m, obj, action, ack, query, report)
      BY <1>1, HandledWrites, Zenon
<1>5. StatusIsTrue'
      BY <1>1, <1>2, <1>3, <1>4, StatusTrue, Zenon
<1>6. QueryIsCurrent'
      BY <1>1, <1>2, <1>4, QueryCurrent, Zenon
<1>7. HandshakeSendsValues'
      BY <1>1, <1>4, HandshakeCurrent, Zenon
<1> QED BY <1>5, <1>6, <1>7 DEF Current

\* A call that handles none.
LEMMA QuietCurrent ==
    ASSUME call'.notified # <<"EUI_CB_TRACKED">>, call'.called = << >>, Target' = << >>
    PROVE  Current'
<1>1. StatusIsTrue'
      BY DEF StatusIsTrue
<1>2. QueryIsCurrent'
      BY DEF QueryIsCurrent
<1>3. "send_tracked_variables" \notin ToSet(call'.called)
      BY DEF ToSet
<1>4. HandshakeSendsValues'
      BY <1>3 DEF HandshakeSendsValues
<1> QED BY <1>1, <1>2, <1>4 DEF Current

LEMMA UnknownCurrent ==
    ASSUME NEW link \in Links, NEW m \in Inbound, NEW counted \in Counts(m),
           EuiParseOk(link, m, counted),
           FindMessageObject(Namespace(m.internal), m.id) = << >>
    PROVE  Current'
<1>1. PICK bits \in Garbage :
          call' = [Call("eui_parse", link, <<m>>, Report(AutoInterface(link), "EUI_CB_UNTRACKED", memory))
                   EXCEPT !.notified = <<"EUI_CB_UNTRACKED">>, !.status = <<bits>>]
      BY Zenon DEF EuiParseOk
<1>2. call'.notified = <<"EUI_CB_UNTRACKED">> /\ call'.called = << >> /\ call'.message = <<m>>
      BY <1>1 DEF Call
<1>3. dev_tracked' = dev_tracked
      BY Zenon DEF EuiParseOk
<1>4. call'.message # << >> /\ call'.message[1] = m
      BY <1>2
<1>5. Target' = FindMessageObject(Namespace(m.internal), m.id)
      BY <1>3, <1>4 DEF Target, Namespace
<1>6. call'.notified # <<"EUI_CB_TRACKED">>
      BY <1>2
<1> QED BY <1>2, <1>5, <1>6, QuietCurrent

LEMMA ErrorCurrent == ASSUME NEW link, EuiParseError(link) PROVE Current'
<1>1. PICK bits \in Garbage :
          call' = [Call("eui_parse", link, << >>, Report(AutoInterface(interface_last), "EUI_CB_PARSE_FAIL", memory))
                   EXCEPT !.notified = <<"EUI_CB_PARSE_FAIL">>, !.status = <<bits>>]
      BY Zenon DEF EuiParseError
<1>2. call'.notified = <<"EUI_CB_PARSE_FAIL">> /\ call'.called = << >> /\ call'.message = << >>
      BY <1>1 DEF Call
<1>3. Target' = << >> /\ call'.notified # <<"EUI_CB_TRACKED">>
      BY <1>2 DEF Target
<1> QED BY <1>2, <1>3, QuietCurrent

LEMMA CallCurrent ==
    ASSUME NEW op, NEW link, NEW out, call' = Call(op, link, << >>, out) PROVE Current'
<1>1. call'.notified = << >> /\ call'.called = << >> /\ call'.message = << >>
      BY DEF Call
<1>2. Target' = << >> /\ call'.notified # <<"EUI_CB_TRACKED">>
      BY <1>1 DEF Target
<1> QED BY <1>1, <1>2, QuietCurrent

LEMMA InitCurrent == Init => Current
<1> SUFFICES ASSUME Init PROVE Current
      OBVIOUS
<1>1. call.notified = << >> /\ call.called = << >> /\ call.message = << >>
      BY DEF Init, Call
<1>2. Target = << >> /\ "send_tracked_variables" \notin ToSet(call.called)
      BY <1>1 DEF Target, ToSet
<1> QED BY <1>1, <1>2 DEF Current, StatusIsTrue, QueryIsCurrent, HandshakeSendsValues

LEMMA StepCurrent == TypeInv /\ Current /\ [Next]_vars => Current'
<1> SUFFICES ASSUME TypeInv, Current, [Next]_vars PROVE Current'
      OBVIOUS
<1>1. CASE Inputs
      <2>1. ASSUME NEW link \in Links, NEW m \in Inbound, NEW counted \in Counts(m),
        EuiParseOk(link, m, counted) PROVE Current'
            BY <2>1, HandledCurrent, UnknownCurrent
      <2>2. ASSUME NEW link \in Links, EuiParseError(link) PROVE Current'
            BY <2>2, ErrorCurrent
      <2> QED BY <1>1, <2>1, <2>2 DEF Inputs
<1>2. CASE Application
      <2>1. ASSUME NEW op, NEW link, NEW found, Send(op, link, found) PROVE Current'
            BY <2>1, CallCurrent DEF Send
      <2>2. ASSUME NEW v, NEW value, AppStore(v, value) PROVE Current'
            BY <2>2, CallCurrent DEF AppStore
      <2> QED BY <1>2, <2>1, <2>2 DEF Application, EuiSendTracked, EuiSendTrackedOn, EuiSendUntracked,
                 EuiSendUntrackedOn
<1>3. CASE Setup
      <2>1. \E op : call' = Call(op, NoLink, << >>, << >>)
            BY <1>3, Zenon DEF Setup, EuiSetupInterfaces, EuiClearInterfaces, EuiSetupTracked, EuiSetupIdentifier
      <2> QED BY <2>1, CallCurrent
<1>4. CASE UNCHANGED vars
      <2>1. call' = call /\ memory' = memory /\ dev_tracked' = dev_tracked /\ registered' = registered
            BY <1>4 DEF vars
      <2>2. Answers' = Answers /\ Target' = Target /\ \A i, obj : Unshared(i, obj)' = Unshared(i, obj)
            BY <2>1 DEF Answers, Target, Namespace, Unshared
      <2>3. StatusIsTrue'
            BY <2>1, <2>2 DEF Current, StatusIsTrue
      <2>4. QueryIsCurrent'
            BY <2>1, <2>2 DEF Current, QueryIsCurrent
      <2>5. HandshakeSendsValues'
            BY <2>1, <2>2 DEF Current, HandshakeSendsValues
      <2> QED BY <2>3, <2>4, <2>5 DEF Current
<1> QED BY <1>1, <1>2, <1>3, <1>4 DEF Next

LEMMA StaysCurrent == Spec => []Current
<1>1. TypeInv /\ Truthful /\ Current /\ [Next]_vars => Current'
      BY StepCurrent
<1> QED BY <1>1, InitCurrent, Typing, PTL DEF Spec

\* What the library reports of a packet is true of what went out: an acknowledgement or an
\* answer it calls sent was sent, and none it calls lost: eui_parse, eui_errors_t.
THEOREM StatusesAreTrue == Spec => []StatusIsTrue
<1>1. Current => StatusIsTrue
      BY DEF Current
<1> QED BY <1>1, StaysCurrent, PTL

\* A peer that queries a variable of any size can put its current value together from what
\* is sent during the call: handle_packet_query, eui_send, eui_send_range, validate_offset_range.
THEOREM QueriesAreCurrent == Spec => []QueryIsCurrent
<1>1. Current => QueryIsCurrent
      BY DEF Current
<1> QED BY <1>1, StaysCurrent, PTL

\* A peer that calls the handshake's second function can put together the current value of
\* every tracked variable: send_tracked_variables.
THEOREM HandshakeTellsValues == Spec => []HandshakeSendsValues
<1>1. Current => HandshakeSendsValues
      BY DEF Current
<1> QED BY <1>1, StaysCurrent, PTL
-----------------------------------------------------------------------------
(* The handshake's first answer                                                *)

\* the lists and the number of variables are sent, and before and after them none of those
Announced(out, array) ==
    LET lists == IdLists(array)
        n     == Len(lists)
    IN  /\ 1 .. n + 1 \subseteq DOMAIN out
        /\ \A k \in 1 .. n : out[k].message = ListMessage(lists[k])
        /\ out[n + 1].message = CountMessage(Len(array))
        /\ \A k \in DOMAIN out \ (1 .. n + 1) : ~IsList(out[k].message) /\ ~IsCount(out[k].message)

\* what any call sends of it
Told ==
    /\ Ordinary(call.output) \/ Announced(call.output, dev_tracked)
    /\ "announce_dev_msg" \in ToSet(call.called) /\ registered /\ call.link \notin Mute =>
           Announced(call.output, dev_tracked)

\* What one call calls.
LEMMA OneCalled == ASSUME NEW x PROVE ToSet(<<x>>) = {x}
BY DEF ToSet

\* A call that handles a packet.
LEMMA HandledTold ==
    ASSUME TypeInv, NEW link \in Links, NEW m \in Inbound, NEW counted \in Counts(m),
           NEW obj, FindMessageObject(Namespace(m.internal), m.id) # << >>,
           obj = FindMessageObject(Namespace(m.internal), m.id)[1],
           NEW action, action = HandlePacketAction(AutoInterface(link), m, counted, obj, dev_tracked, memory),
           NEW ack, ack = IF Acknowledges(action) THEN HandlePacketAck(link, m, obj) ELSE << >>,
           NEW query, query = HandlePacketQuery(link, m, obj, action.memory),
           NEW report, report = Report(AutoInterface(link), "EUI_CB_TRACKED", action.memory),
           Handled(link, m, obj, action, ack, query, report)
    PROVE  Told'
<1> DEFINE out   == call'.output
           first == action.output
           auto  == AutoInterface(link)
<1>1. /\ call'.called = action.called /\ call'.link = link /\ Typed(action.memory)
      /\ dev_tracked' = dev_tracked /\ registered' = registered
      BY Zenon DEF Handled
<1>parts. first \in Seq(Sent(link)) /\ query \in Seq(Sent(link)) /\ report \in Seq(Sent(link))
      BY Zenon DEF Handled
<1>whole. out = ((first \o ack) \o query) \o report
      BY Zenon DEF Handled
<1>2. Tracked /\ Typed(memory) /\ Reachable(obj)
      BY FoundIsReachable DEF TypeInv, Tracked
<1>3. KnownAll(dev_tracked)
      BY <1>2, TrackedIs DEF Tracked, KnownAll
<1>4. auto = IF registered THEN link ELSE NoLink
      BY DEF AutoInterface
<1>5. Ordinary(query) /\ Ordinary(report)
      <2>1. Ordinary(query)
            BY <1>1, <1>2, QuerySent
      <2>2. Ordinary(report)
            BY <1>1, ReportSent
      <2> QED BY <2>1, <2>2
<1>6. ack = << >> \/ \E p \in OnLink(link) : /\ ack = <<p>>
                                             /\ ~IsList(p.message) /\ ~IsCount(p.message)
      <2>1. PlainName(m.internal, obj.id)
            BY InternalNames
      <2>2. CASE Answered(link, m, obj, ack)
            BY <2>1, <2>2 DEF Answered, PlainName, IsList, IsCount
      <2>3. CASE ack = << >>
            BY <2>3
      <2> QED BY <2>2, <2>3 DEF Handled
<1>7. Calls(auto, m, obj, action)
      BY <1>2, ActionCalls
<1> HIDE DEF out, first, auto
<1>8. ack \in Seq(OnLink(link)) /\ Len(ack) <= 1 /\ Ordinary(ack)
      <2>1. << >> \in Seq(OnLink(link)) /\ Len(<< >>) <= 1
            OBVIOUS
      <2>2. Ordinary(<< >>)
            BY DEF Ordinary
      <2>3. ASSUME NEW p \in OnLink(link)
            PROVE  <<p>> \in Seq(OnLink(link)) /\ Len(<<p>>) <= 1 /\ \A j \in DOMAIN <<p>> : <<p>>[j] = p
            OBVIOUS
      <2>4. ASSUME NEW p \in OnLink(link), ~IsList(p.message), ~IsCount(p.message) PROVE Ordinary(<<p>>)
            BY <2>3, <2>4, Zenon DEF Ordinary
      <2> QED BY <1>6, <2>1, <2>2, <2>3, <2>4, Zenon
<1>9. first \in Seq(OnLink(link)) /\ query \in Seq(OnLink(link)) /\ report \in Seq(OnLink(link))
      BY <1>parts, SentOnLink
<1>10. Parts(first, ack, query, report, out)
      BY <1>whole, <1>8, <1>9, PartsIn, Zenon
<1>11. ASSUME NEW k \in DOMAIN out, k \notin DOMAIN first \/ Ordinary(first)
       PROVE  ~IsList(out[k].message) /\ ~IsCount(out[k].message)
      <2>1. \/ k \in DOMAIN first /\ out[k] = first[k]
            \/ k = Len(first) + 1 /\ ack # << >> /\ out[k] = ack[1]
            \/ \E j \in DOMAIN query : out[k] = query[j]
            \/ \E j \in DOMAIN report : out[k] = report[j]
            BY <1>10, Zenon DEF Parts
      <2>2. ack # << >> => 1 \in DOMAIN ack
            BY <1>8
      <2>3. \E some \in {first, ack, query, report} : Ordinary(some) /\ \E j \in DOMAIN some : out[k] = some[j]
            BY <1>5, <1>8, <1>11, <2>1, <2>2, Zenon
      <2> QED BY <2>3, Zenon DEF Ordinary
<1>12. Ordinary(first) => Ordinary(out)
      BY <1>11 DEF Ordinary
<1>13. CASE /\ action = RunCallback(auto, obj.ptr, dev_tracked, memory) /\ action.called = <<obj.ptr>>
            /\ obj.ptr = "announce_dev_msg"
      <2>1. first = AnnounceDevMsg(auto, dev_tracked)
            <3>1. obj.ptr \in Callbacks /\ obj.ptr # Null
                  BY <1>13 DEF Callbacks, Null
            <3>2. action.output = AnnounceDevMsg(auto, dev_tracked)
                  BY <1>2, <1>13, <3>1, CallbackIs
            <3> QED BY <3>2 DEF first
      <2>2. CASE registered /\ link \notin Mute
            <3> DEFINE lists == IdLists(dev_tracked)
                       n     == Len(lists)
            <3>1. auto = link /\ link \notin Mute \cup {NoLink}
                  BY <1>4, <2>2, LinksAssumption
            <3>2. /\ DOMAIN first = 1 .. n + 1
                  /\ \A k \in 1 .. n : first[k].message = ListMessage(lists[k])
                  /\ first[n + 1].message = CountMessage(Len(dev_tracked))
                  BY <1>3, <2>1, <3>1, AnnounceIs
            <3>3. n \in Nat
                  BY <1>3, ListsPacked
            <3> HIDE DEF lists, n
            <3>4. \A k \in 1 .. n + 1 : k \in DOMAIN out /\ out[k] = first[k]
                  BY <1>10, <3>2, Zenon DEF Parts
            <3>5. \A k \in 1 .. n : k \in 1 .. n + 1
                  BY <3>3
            <3>6. \A k \in DOMAIN out \ (1 .. n + 1) : ~IsList(out[k].message) /\ ~IsCount(out[k].message)
                  BY <1>11, <3>2
            <3>7. n + 1 \in 1 .. n + 1
                  BY <3>3
            <3>8. Announced(out, dev_tracked)
                  BY <3>2, <3>4, <3>5, <3>6, <3>7 DEF Announced, lists, n
            <3> QED BY <1>1, <3>8 DEF Told, out
      <2>3. CASE ~(registered /\ link \notin Mute)
            <3>1. auto \in Mute \cup {NoLink}
                  BY <1>4, <2>3
            <3>2. first \in Seq({})
                  BY <1>3, <2>1, <3>1, AnnounceSent DEF Sent
            <3>3. Ordinary(first)
                  BY <3>2 DEF Ordinary
            <3> QED BY <1>1, <1>12, <2>3, <3>3 DEF Told, out
      <2> QED BY <2>2, <2>3
<1>14. CASE ~(/\ action = RunCallback(auto, obj.ptr, dev_tracked, memory) /\ action.called = <<obj.ptr>>
              /\ obj.ptr = "announce_dev_msg")
      <2>1. Ordinary(first) /\ "announce_dev_msg" \notin ToSet(action.called)
            <3>1. CASE action.called = << >> /\ action.output = << >>
                  BY <3>1 DEF Ordinary, ToSet, first
            <3>2. CASE /\ obj.ptr \in Callbacks /\ obj.ptr # Null
                       /\ action = RunCallback(auto, obj.ptr, dev_tracked, memory) /\ action.called = <<obj.ptr>>
                  <4>1. obj.ptr # "announce_dev_msg"
                        BY <1>14, <3>2
                  <4>2. Ordinary(action.output)
                        BY <1>2, <3>2, <4>1, CallbackIs
                  <4>3. ToSet(action.called) = {obj.ptr}
                        BY <3>2, OneCalled, Zenon
                  <4> QED BY <4>1, <4>2, <4>3 DEF first
            <3> QED BY <1>7, <3>1, <3>2 DEF Calls
      <2> QED BY <1>1, <1>12, <2>1 DEF Told, out
<1> QED BY <1>13, <1>14

\* A call that handles none.
LEMMA QuietTold ==
    ASSUME Ordinary(call'.output), call'.called = << >> PROVE Told'
<1>1. "announce_dev_msg" \notin ToSet(call'.called)
      BY DEF ToSet
<1> QED BY <1>1 DEF Told

LEMMA StepTold == TypeInv /\ Told /\ [Next]_vars => Told'
<1> SUFFICES ASSUME TypeInv, Told, [Next]_vars PROVE Told'
      OBVIOUS
<1>1. Typed(memory) /\ Tracked
      BY DEF TypeInv
<1>2. ASSUME NEW link \in Links, NEW m \in Inbound, NEW counted \in Counts(m),
        EuiParseOk(link, m, counted) PROVE Told'
      <2>1. CASE FindMessageObject(Namespace(m.internal), m.id) # << >>
            <3> DEFINE obj    == FindMessageObject(Namespace(m.internal), m.id)[1]
                       action == HandlePacketAction(AutoInterface(link), m, counted, obj, dev_tracked, memory)
                       ack    == IF Acknowledges(action) THEN HandlePacketAck(link, m, obj) ELSE << >>
                       query  == HandlePacketQuery(link, m, obj, action.memory)
                       report == Report(AutoInterface(link), "EUI_CB_TRACKED", action.memory)
            <3>1. /\ obj = FindMessageObject(Namespace(m.internal), m.id)[1]
                  /\ action = HandlePacketAction(AutoInterface(link), m, counted, obj, dev_tracked, memory)
                  /\ ack = IF Acknowledges(action) THEN HandlePacketAck(link, m, obj) ELSE << >>
                  /\ query = HandlePacketQuery(link, m, obj, action.memory)
                  /\ report = Report(AutoInterface(link), "EUI_CB_TRACKED", action.memory)
                  OBVIOUS
            <3> HIDE DEF obj, action, ack, query, report
            <3>2. Handled(link, m, obj, action, ack, query, report)
                  BY <1>2, <2>1, <3>1, HandledWrites, Zenon
            <3> QED BY <2>1, <3>1, <3>2, HandledTold, Zenon
      <2>2. CASE FindMessageObject(Namespace(m.internal), m.id) = << >>
            <3>1. PICK bits \in Garbage :
                      call' = [Call("eui_parse", link, <<m>>, Report(AutoInterface(link), "EUI_CB_UNTRACKED", memory))
                               EXCEPT !.notified = <<"EUI_CB_UNTRACKED">>, !.status = <<bits>>]
                  BY <1>2, <2>2, Zenon DEF EuiParseOk
            <3>2. call'.output = Report(AutoInterface(link), "EUI_CB_UNTRACKED", memory) /\ call'.called = << >>
                  BY <3>1 DEF Call
            <3>3. Ordinary(Report(AutoInterface(link), "EUI_CB_UNTRACKED", memory))
                  BY <1>1, ReportSent
            <3> QED BY <3>2, <3>3, QuietTold
      <2> QED BY <2>1, <2>2
<1>3. ASSUME NEW link \in Links, EuiParseError(link) PROVE Told'
      <2> DEFINE sent == Report(AutoInterface(interface_last), "EUI_CB_PARSE_FAIL", memory)
      <2>1. PICK bits \in Garbage :
                call' = [Call("eui_parse", link, << >>, sent)
                         EXCEPT !.notified = <<"EUI_CB_PARSE_FAIL">>, !.status = <<bits>>]
            BY <1>3, Zenon DEF EuiParseError
      <2>2. Ordinary(sent)
            BY <1>1, ReportSent
      <2> HIDE DEF sent
      <2>3. call'.output = sent /\ call'.called = << >>
            BY <2>1 DEF Call
      <2> QED BY <2>2, <2>3, QuietTold
<1>4. ASSUME NEW op, NEW link, NEW out, Ordinary(out), call' = Call(op, link, << >>, out) PROVE Told'
      <2>1. call'.output = out /\ call'.called = << >>
            BY <1>4 DEF Call
      <2> QED BY <1>4, <2>1, QuietTold
<1>5. Ordinary(<< >>)
      BY DEF Ordinary
<1>6. ASSUME NEW op, NEW link, NEW found, Send(op, link, found), found # << >> => Reachable(found[1])
      PROVE  Told'
      <2> DEFINE out == IF found = << >> THEN << >> ELSE EuiSend(link, found[1], 0, memory)
      <2>1. Ordinary(out)
            <3>1. CASE found = << >>
                  BY <1>5, <3>1
            <3>2. CASE found # << >>
                  <4>1. EuiSend(link, found[1], 0, memory) \in Seq(Plain(link))
                        BY <1>1, <1>6, <3>2, SendPlain
                  <4>2. Ordinary(EuiSend(link, found[1], 0, memory))
                        BY <4>1, PlainSent, Zenon
                  <4> QED BY <3>2, <4>2
            <3> QED BY <3>1, <3>2
      <2>2. call' = Call(op, link, << >>, out)
            BY <1>6, Zenon DEF Send
      <2> HIDE DEF out
      <2> QED BY <1>4, <2>1, <2>2
<1>7. CASE Application
      <2>1. \A id : FindMessageObject(dev_tracked, id) # << >> => Reachable(FindMessageObject(dev_tracked, id)[1])
            <3>1. dev_tracked = Namespace(0)
                  BY DEF Namespace
            <3> QED BY <1>1, <3>1, FoundIsReachable DEF Tracked
      <2>2. \A obj \in Untracked : <<obj>>[1] = obj /\ Reachable(obj)
            BY ObjectsAssumption, KnownIsReachable
      <2>3. ASSUME NEW id, EuiSendTracked(id) PROVE Told'
            BY <1>6, <2>1, <2>3 DEF EuiSendTracked
      <2>4. ASSUME NEW id, NEW link, EuiSendTrackedOn(id, link) PROVE Told'
            BY <1>6, <2>1, <2>4 DEF EuiSendTrackedOn
      <2>5. ASSUME NEW obj \in Untracked, EuiSendUntracked(obj) PROVE Told'
            BY <1>6, <2>2, <2>5 DEF EuiSendUntracked
      <2>6. ASSUME NEW obj \in Untracked, NEW link, EuiSendUntrackedOn(obj, link) PROVE Told'
            BY <1>6, <2>2, <2>6 DEF EuiSendUntrackedOn
      <2>7. ASSUME NEW v, NEW value, AppStore(v, value) PROVE Told'
            BY <1>4, <1>5, <2>7 DEF AppStore
      <2> QED BY <1>7, <2>3, <2>4, <2>5, <2>6, <2>7 DEF Application
<1>8. CASE Setup
      <2>1. \E op : call' = Call(op, NoLink, << >>, << >>)
            BY <1>8, Zenon DEF Setup, EuiSetupInterfaces, EuiClearInterfaces, EuiSetupTracked, EuiSetupIdentifier
      <2> QED BY <1>4, <1>5, <2>1
<1>9. CASE UNCHANGED vars
      BY <1>9 DEF vars, Told
<1> QED BY <1>2, <1>3, <1>7, <1>8, <1>9 DEF Next, Inputs

LEMMA StaysTold == Spec => []Told
<1>1. Init => Told
      BY DEF Init, Call, Told, Ordinary, ToSet
<1>2. TypeInv /\ Truthful /\ Told /\ [Next]_vars => Told'
      BY StepTold
<1> QED BY <1>1, <1>2, Typing, PTL DEF Spec

\* Which of the packets of a call are the lists, and which is the number.
Tells(out, lists, size) ==
    /\ Len(lists) \in Nat /\ lists \in Seq(Seq(Byte)) /\ Filled(lists)
    /\ \A k \in 1 .. Len(lists) + 1 : k \in DOMAIN out
    /\ \A k \in DOMAIN out : IsList(out[k].message) <=> k \in 1 .. Len(lists)
    /\ \A k \in DOMAIN out : IsCount(out[k].message) <=> k = Len(lists) + 1
    /\ \A k \in 1 .. Len(lists) : out[k].message.data = lists[k]
    /\ out[Len(lists) + 1].message.data = <<size % 256>>

LEMMA AnnouncedSays ==
    ASSUME NEW array, KnownAll(array), NEW out, Announced(out, array)
    PROVE  Tells(out, IdLists(array), Len(array))
<1> DEFINE lists == IdLists(array)
           n     == Len(lists)
<1>1. lists \in Seq(Seq(Byte)) /\ Filled(lists)
      BY ListsPacked
<1>2. /\ \A k \in 1 .. n + 1 : k \in DOMAIN out
      /\ \A k \in 1 .. n : out[k].message = ListMessage(lists[k])
      /\ out[n + 1].message = CountMessage(Len(array))
      /\ \A k \in DOMAIN out : k \notin 1 .. n + 1 => ~IsList(out[k].message) /\ ~IsCount(out[k].message)
      BY DEF Announced
<1> HIDE DEF lists
<1>3. n \in Nat /\ \A k \in 1 .. n : lists[k] \in Seq(Byte) /\ Len(lists[k]) <= 64
      BY <1>1 DEF Filled
<1> HIDE DEF n
<1>4. EUI_INTERNAL_AM_LIST # EUI_INTERNAL_AM_END
      <2>1. \A i, j : <<i>> = <<j>> => i = j
            OBVIOUS
      <2> QED BY <2>1 DEF EUI_INTERNAL_AM_LIST, EUI_INTERNAL_AM_END
<1>5. ASSUME NEW k \in 1 .. n
      PROVE  /\ IsList(out[k].message) /\ ~IsCount(out[k].message)
             /\ out[k].message.data = lists[k]
      <2> DEFINE m == ListMessage(lists[k])
      <2>1. m.internal = 1 /\ m.id = EUI_INTERNAL_AM_LIST /\ m.data = lists[k]
            BY <1>3, ListMessageIs
      <2>2. out[k].message = m
            BY <1>2
      <2> HIDE DEF m
      <2> QED BY <1>4, <2>1, <2>2 DEF IsList, IsCount
<1>6. /\ IsCount(out[n + 1].message) /\ ~IsList(out[n + 1].message)
      /\ out[n + 1].message.data = <<Len(array) % 256>>
      <2> DEFINE m == CountMessage(Len(array))
      <2>1. Len(array) \in Nat
            BY DEF KnownAll
      <2>2. m.internal = 1 /\ m.id = EUI_INTERNAL_AM_END /\ m.data = <<Len(array) % 256>>
            BY <2>1, CountMessageIs
      <2>3. out[n + 1].message = m
            BY <1>2
      <2> HIDE DEF m
      <2> QED BY <1>4, <2>2, <2>3 DEF IsList, IsCount
<1>7. \A k : k \in 1 .. n + 1 <=> k \in 1 .. n \/ k = n + 1
      BY <1>3
<1>8. n + 1 \notin 1 .. n
      BY <1>3
<1>9. ASSUME NEW k \in DOMAIN out
      PROVE  (IsList(out[k].message) <=> k \in 1 .. n) /\ (IsCount(out[k].message) <=> k = n + 1)
      <2>1. CASE k \in 1 .. n
            BY <1>5, <1>8, <2>1
      <2>2. CASE k = n + 1
            BY <1>6, <1>8, <2>2
      <2>3. CASE k \notin 1 .. n + 1
            BY <1>2, <1>7, <2>3
      <2> QED BY <1>7, <2>1, <2>2, <2>3
<1> QED BY <1>1, <1>2, <1>3, <1>5, <1>6, <1>9 DEF lists, n, Tells

LEMMA ToldLists == TypeInv /\ Told => HandshakeListsAll
<1> SUFFICES ASSUME TypeInv, Told, "announce_dev_msg" \in ToSet(call.called), registered, call.link \notin Mute
             PROVE  LET lists  == {k \in DOMAIN Answers : IsList(Answers[k])}
                        counts == {k \in DOMAIN Answers : IsCount(Answers[k])}
                    IN  /\ FlattenSeq([k \in DOMAIN Answers |-> IF k \in lists THEN Answers[k].data ELSE << >>])
                               = FlattenSeq([k \in DOMAIN dev_tracked |-> Append(dev_tracked[k].id, 0)])
                        /\ \E n \in counts : /\ counts = {n} /\ \A k \in lists : k < n
                                             /\ Answers[n].data = <<Len(dev_tracked)>>
      BY Zenon DEF HandshakeListsAll
<1> DEFINE out   == call.output
           lists == IdLists(dev_tracked)
           n     == Len(lists)
           data  == [k \in DOMAIN Answers |->
                        IF k \in {j \in DOMAIN Answers : IsList(Answers[j])} THEN Answers[k].data ELSE << >>]
<1>1. KnownAll(dev_tracked) /\ Len(dev_tracked) <= 255
      <2>1. CASE dev_tracked = << >>
            BY <2>1 DEF KnownAll
      <2>2. CASE dev_tracked \in Arrays
            BY <2>2, ObjectsAssumption
      <2> QED BY <2>1, <2>2 DEF TypeInv, Tracked
<1>2. Announced(out, dev_tracked)
      BY DEF Told
<1>3. out \in Seq(FittingPackets)
      BY DEF TypeInv
<1>4. DOMAIN Answers = DOMAIN out /\ \A k \in DOMAIN out : Answers[k] = out[k].message
      BY DEF Answers
<1> HIDE DEF out
<1>5. /\ n \in Nat /\ lists \in Seq(Seq(Byte))
      /\ \A k \in 1 .. n + 1 : k \in DOMAIN out
      /\ \A k \in DOMAIN out : IsList(out[k].message) <=> k \in 1 .. n
      /\ \A k \in DOMAIN out : IsCount(out[k].message) <=> k = n + 1
      /\ \A k \in 1 .. n : out[k].message.data = lists[k]
      /\ out[n + 1].message.data = <<Len(dev_tracked) % 256>>
      <2>1. Tells(out, lists, Len(dev_tracked))
            BY <1>1, <1>2, AnnouncedSays
      <2> HIDE DEF lists
      <2> QED BY <2>1 DEF Tells
<1>6. FlattenSeq(lists) = FlattenSeq([k \in DOMAIN dev_tracked |-> Append(dev_tracked[k].id, 0)])
      BY <1>1, ListsPacked
<1>7. \A k \in 1 .. n : k \in 1 .. n + 1
      BY <1>5
<1>8. n + 1 \in 1 .. n + 1 /\ \A k \in 1 .. n : k < n + 1
      BY <1>5
<1>9. DOMAIN lists = 1 .. n
      BY <1>5
<1> HIDE DEF lists, n
<1>10. data = [k \in DOMAIN out |-> data[k]]
       BY <1>4
<1>11. \A k \in DOMAIN out : data[k] = IF k \in 1 .. n THEN lists[k] ELSE << >>
       <2>1. {j \in DOMAIN Answers : IsList(Answers[j])} = {j \in DOMAIN out : j \in 1 .. n}
             <3>1. \A j \in DOMAIN out : IsList(Answers[j]) <=> j \in 1 .. n
                   BY <1>4, <1>5, Zenon
             <3> QED BY <1>4, <3>1, Zenon
       <2>2. \A k \in DOMAIN out : data[k] = IF k \in 1 .. n THEN Answers[k].data ELSE << >>
             BY <1>4, <2>1
       <2>3. \A k \in 1 .. n : Answers[k].data = lists[k]
             BY <1>4, <1>5, <1>7, Zenon
       <2> QED BY <2>2, <2>3
<1> HIDE DEF data
<1>12. \A k \in DOMAIN out : data[k] \in Seq(Byte)
       <2>1. \A k \in 1 .. n : lists[k] \in Seq(Byte)
             BY <1>5, <1>9
       <2>2. << >> \in Seq(Byte)
             OBVIOUS
       <2> QED BY <1>11, <2>1, <2>2
<1>13. data \in Seq(Seq(Byte)) /\ Len(data) = Len(out)
       BY <1>3, <1>10, <1>12, Mapped, Zenon
<1>14. DOMAIN out = 1 .. Len(out) /\ Len(out) \in Nat
       BY <1>3
<1>15. n \in 0 .. Len(data)
       <2>1. n + 1 \in 1 .. Len(out)
             BY <1>5, <1>8, <1>14
       <2> QED BY <1>5, <1>13, <1>14, <2>1
<1>16. First(data, n) = lists
       <2>1. \A k \in 1 .. n : data[k] = lists[k]
             BY <1>5, <1>7, <1>11
       <2>2. lists = [k \in 1 .. n |-> lists[k]]
             BY <1>5, <1>9
       <2> QED BY <2>1, <2>2 DEF First
<1>17. FlattenSeq(data) = FlattenSeq(lists)
       <2>1. \A i \in n + 1 .. Len(data) : data[i] = << >>
             <3> SUFFICES ASSUME NEW i \in n + 1 .. Len(data) PROVE data[i] = << >>
                   OBVIOUS
             <3>1. i \in DOMAIN out /\ i \notin 1 .. n
                   BY <1>5, <1>13, <1>14
             <3> QED BY <1>11, <3>1
       <2>2. FlattenSeq(data) = FlattenSeq(First(data, n))
             BY <1>13, <1>15, <2>1, FlattenTail
       <2> QED BY <1>16, <2>2
<1>18. {k \in DOMAIN Answers : IsCount(Answers[k])} = {n + 1}
       BY <1>4, <1>5, <1>8
<1>19. \A k \in {j \in DOMAIN Answers : IsList(Answers[j])} : k < n + 1
       BY <1>4, <1>5, <1>8
<1>20. Answers[n + 1].data = <<Len(dev_tracked)>>
       <2>1. Len(dev_tracked) % 256 = Len(dev_tracked)
             <3> DEFINE size == Len(dev_tracked)
             <3>1. size \in Nat /\ size <= 255
                   BY <1>1 DEF KnownAll
             <3> HIDE DEF size
             <3>2. size % 256 = size
                   BY <3>1
             <3> QED BY <3>2 DEF size
       <2> QED BY <1>4, <1>5, <1>8, <2>1
<1>21. FlattenSeq(data) = FlattenSeq([k \in DOMAIN dev_tracked |-> Append(dev_tracked[k].id, 0)])
       BY <1>6, <1>17
<1> QED BY <1>18, <1>19, <1>20, <1>21, Zenon DEF data

\* A packet of a payload that takes the lists is no longer than the buffer.
LEMMA SmallFits ==
    ASSUME PAYLOAD_SIZE_MAX >= 44, NEW m \in Framable
    PROVE  FramedLen(m) <= 1 + PACKET_BASE_SIZE + EUI_MAX_MSGID_SIZE + PAYLOAD_SIZE_MAX + 4
<1> DEFINE id   == Len(m.id)
           addr == m.offset
           data == Len(m.data)
<1>1. id \in Nat /\ addr \in Int /\ data \in Nat /\ PAYLOAD_SIZE_MAX \in Int
      BY PayloadAssumption, BitsDef DEF Framable, Message
<1>2. id + 2 * addr + data <= 21 + PAYLOAD_SIZE_MAX
      BY DEF Framable, Small
<1>3. FramedLen(m) = 2 + 3 + id + 2 * addr + data + 2 + 1
      BY DEF FramedLen
<1> HIDE DEF id, addr, data
<1> QED BY <1>1, <1>2, <1>3 DEF PACKET_BASE_SIZE, EUI_MAX_MSGID_SIZE

LEMMA ToldFits == PAYLOAD_SIZE_MAX >= 44 /\ TypeInv /\ Told => FitsBuffers
<1> SUFFICES ASSUME PAYLOAD_SIZE_MAX >= 44, TypeInv, Told PROVE FitsBuffers
      OBVIOUS
<1> DEFINE out   == call.output
           lists == IdLists(dev_tracked)
           n     == Len(lists)
<1>1. DOMAIN Answers = DOMAIN out /\ \A k \in DOMAIN out : Answers[k] = out[k].message
      BY DEF Answers
<1>2. \A k \in DOMAIN out : out[k].message \in Framable
      <2>1. out \in Seq(FittingPackets)
            BY DEF TypeInv
      <2> HIDE DEF out
      <2>2. \A k \in DOMAIN out : out[k] \in FittingPackets
            BY <2>1
      <2> QED BY <2>2 DEF FittingPackets
<1>3. KnownAll(dev_tracked)
      <2>1. CASE dev_tracked = << >>
            BY <2>1 DEF KnownAll
      <2>2. CASE dev_tracked \in Arrays
            BY <2>2, ObjectsAssumption
      <2> QED BY <2>1, <2>2 DEF TypeInv, Tracked
<1>4. Ordinary(out) \/ Announced(out, dev_tracked)
      BY DEF Told
<1> HIDE DEF out
<1>5. \A k \in DOMAIN Answers :
          FramedLen(Answers[k]) <= 1 + PACKET_BASE_SIZE + EUI_MAX_MSGID_SIZE + PAYLOAD_SIZE_MAX + 4
      BY <1>1, <1>2, SmallFits
<1> DEFINE Full(k) == /\ Len(Answers[k].data) <= EUI_MAX_MSGID_SIZE * 4
                      /\ k + 1 \in DOMAIN Answers /\ IsList(Answers[k + 1]) =>
                            \E j \in DOMAIN Answers[k + 1].data :
                                /\ Ends(Answers[k + 1].data, j)
                                /\ Len(Answers[k].data) + j > EUI_MAX_MSGID_SIZE * 4
<1>6. ASSUME NEW k \in DOMAIN Answers, IsList(Answers[k]) PROVE Full(k)
      <2>1. Announced(out, dev_tracked)
            BY <1>1, <1>4, <1>6 DEF Ordinary
      <2>2. /\ n \in Nat /\ lists \in Seq(Seq(Byte)) /\ Filled(lists)
            /\ \A i \in DOMAIN out : IsList(out[i].message) <=> i \in 1 .. n
            /\ \A i \in 1 .. n : out[i].message.data = lists[i]
            <3>1. Tells(out, lists, Len(dev_tracked))
                  BY <1>3, <2>1, AnnouncedSays
            <3> HIDE DEF lists
            <3> QED BY <3>1 DEF Tells
      <2>3. k \in 1 .. n /\ Answers[k].data = lists[k]
            BY <1>1, <1>6, <2>2
      <2>4. EUI_MAX_MSGID_SIZE * 4 = 64
            BY DEF EUI_MAX_MSGID_SIZE
      <2>5. Len(Answers[k].data) <= 64
            BY <2>2, <2>3 DEF Filled
      <2>6. ASSUME k + 1 \in DOMAIN Answers, IsList(Answers[k + 1])
            PROVE  \E j \in DOMAIN Answers[k + 1].data :
                       Ends(Answers[k + 1].data, j) /\ Len(Answers[k].data) + j > 64
            <3>1. k + 1 \in 1 .. n /\ Answers[k + 1].data = lists[k + 1]
                  BY <1>1, <2>2, <2>6
            <3>2. k \in 1 .. n - 1
                  BY <2>2, <2>3, <3>1
            <3>3. \E j \in DOMAIN lists[k + 1] : Ends(lists[k + 1], j) /\ Len(lists[k]) + j > 64
                  BY <2>2, <3>2 DEF Filled
            <3> QED BY <2>3, <3>1, <3>3
      <2> QED BY <2>4, <2>5, <2>6
<1> QED BY <1>5, <1>6 DEF FitsBuffers

\* A peer that calls the handshake's first function is told every tracked id, in order, and
\* then, once, how many there are: announce_dev_msg, send_tracked_message_id_list.
THEOREM HandshakeTellsNames == Spec => []HandshakeListsAll
BY Typing, StaysTold, ToldLists, PTL

\* With payloads of 44 bytes or more no list overruns msgBuffer, none is sent early, and no
\* packet overruns the buffer it is framed in: send_tracked_message_id_list, encode_packet.
THEOREM BuffersSuffice == ASSUME PAYLOAD_SIZE_MAX >= 44 PROVE Spec => []FitsBuffers
<1>1. TypeInv /\ Told => FitsBuffers
      BY ToldFits
<1> QED BY <1>1, Typing, StaysTold, PTL
=============================================================================
