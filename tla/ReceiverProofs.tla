--------------------------- MODULE ReceiverProofs ---------------------------
(* The parser's invariants, for every buffer size and every byte stream.       *)
EXTENDS Receiver, TransportProofs

-----------------------------------------------------------------------------
(* One byte of the packet: what each state of the parser preserves             *)

\* What the invariants need of the parser between two calls: besides its type,
\* a half-assembled field is still small, past the identifier its terminator
\* is in place, and in front of the checksum the payload is complete.
Terminated(p) == p.state >= exp_offset_b1 => p.id_in[p.id_bytes_in] = 0

Complete(p) ==
    p.state >= exp_crc_b1 =>
        p.data_bytes_in >= p.header.data_len \/ p.data_bytes_in >= PAYLOAD_SIZE_MAX

Sound(p) ==
    /\ p \in Packet
    /\ p.state = exp_header_b2 => p.header.data_len <= 255
    /\ p.state = exp_offset_b2 => p.offset_in <= 255
    /\ Terminated(p)
    /\ Complete(p)

\* The states of the parser are the integers from 0 to 9.
USE DEF exp_frame_offset, exp_header_b1, exp_header_b2, exp_header_b3, exp_message_id,
        exp_offset_b1, exp_offset_b2, exp_data, exp_crc_b1, exp_crc_b2

LEMMA StateDef ==
    /\ \A n : n \in ParseStates <=> n \in Int /\ 0 <= n /\ n <= 9
    /\ exp_frame_offset \in ParseStates /\ exp_header_b1 \in ParseStates
    /\ exp_header_b2 \in ParseStates    /\ exp_header_b3 \in ParseStates
    /\ exp_message_id \in ParseStates   /\ exp_offset_b1 \in ParseStates
    /\ exp_offset_b2 \in ParseStates    /\ exp_data \in ParseStates
    /\ exp_crc_b1 \in ParseStates       /\ exp_crc_b2 \in ParseStates
BY DEF ParseStates

\* The first header byte is the low half of the length, so the length is small.
LEMMA HeaderB1Sound ==
    ASSUME NEW p, Sound(p), NEW b \in Byte, p.state = exp_header_b1
    PROVE  Sound(ExpHeaderB1(b, p).packet)
<1> DEFINE q == ExpHeaderB1(b, p).packet
<1>1. q = [p EXCEPT !.header = [@ EXCEPT !.data_len = b], !.state = exp_header_b2]
  BY DEF ExpHeaderB1, Continue, Result
<1> HIDE DEF q
<1>2. b \in Bits10 /\ b <= 255
  BY ByteDef, BitsDef
<1>3. q \in Packet
  BY <1>1, <1>2, StateDef DEF Sound, Packet, Header
<1>4. q.state = exp_header_b2 /\ q.header.data_len = b
  BY <1>1 DEF Sound, Packet, Header
<1>5. Sound(q)
  BY <1>2, <1>3, <1>4 DEF Sound, Terminated, Complete
<1> QED
  BY <1>5 DEF q

\* The second adds the two high bits, so the length still fits its bitfield.
LEMMA HeaderB2Sound ==
    ASSUME NEW p, Sound(p), NEW b \in Byte, p.state = exp_header_b2
    PROVE  Sound(ExpHeaderB2(b, p).packet)
<1> DEFINE q == ExpHeaderB2(b, p).packet
           h == [p.header EXCEPT !.data_len = @ + (b % 4) * 256,
                                 !.type     = (b \div 4) % 16,
                                 !.internal = (b \div 64) % 2,
                                 !.offset   = b \div 128]
<1>1. q = [p EXCEPT !.header = h, !.state = exp_header_b3]
  BY DEF ExpHeaderB2, Continue, Result
<1> HIDE DEF q
<1>2. /\ p.header.data_len + (b % 4) * 256 \in Bits10
      /\ (b \div 4) % 16 \in Bits4
      /\ (b \div 64) % 2 \in Bit
      /\ b \div 128 \in Bit
  <2>1. p.header.data_len \in Bits10 /\ p.header.data_len <= 255
    BY DEF Sound, Packet, Header
  <2> QED
    BY <2>1, ByteDef, BitsDef
<1>3. h \in Header
  BY <1>2, ZenonT(40) DEF Sound, Packet, Header
<1> HIDE DEF h
<1>4. q \in Packet
  BY <1>1, <1>3, StateDef DEF Sound, Packet
<1>5. q.state = exp_header_b3
  BY <1>1 DEF Sound, Packet
<1>6. Sound(q)
  BY <1>4, <1>5 DEF Sound, Terminated, Complete
<1> QED
  BY <1>6 DEF q

\* The third holds the identifier's length and the acknowledgement fields.
LEMMA HeaderB3Sound ==
    ASSUME NEW p, Sound(p), NEW b \in Byte, p.state = exp_header_b3
    PROVE  Sound(ExpHeaderB3(b, p).packet)
<1> DEFINE q == ExpHeaderB3(b, p).packet
           h == [p.header EXCEPT !.id_len   = b % 16,
                                 !.response = (b \div 16) % 2,
                                 !.acknum   = b \div 32]
<1>1. q = [p EXCEPT !.header = h, !.state = exp_message_id]
  BY DEF ExpHeaderB3, Continue, Result
<1> HIDE DEF q
<1>2. b % 16 \in Bits4 /\ (b \div 16) % 2 \in Bit /\ b \div 32 \in Bits3
  BY ByteDef, BitsDef
<1>3. h \in Header
  BY <1>2 DEF Sound, Packet, Header
<1> HIDE DEF h
<1>4. q \in Packet
  BY <1>1, <1>3, StateDef DEF Sound, Packet
<1>5. q.state = exp_message_id
  BY <1>1 DEF Sound, Packet
<1>6. Sound(q)
  BY <1>4, <1>5 DEF Sound, Terminated, Complete
<1> QED
  BY <1>6 DEF q

\* An identifier byte: the index wraps within the buffer, and the state that
\* leaves the identifier behind is entered with the terminator written.
LEMMA MessageIdSound ==
    ASSUME NEW p, Sound(p), NEW b \in Byte, p.state = exp_message_id
    PROVE  Sound(ExpMessageId(b, p).packet)
<1> DEFINE next   == (p.id_bytes_in + 1) % 16
           filled == [p EXCEPT !.id_in = [@ EXCEPT ![p.id_bytes_in] = b],
                               !.id_bytes_in = next]
           after  == AfterId(p.header)
           ended  == [filled EXCEPT !.id_in = [@ EXCEPT ![next] = 0], !.state = after]
<1>1. ExpMessageId(b, p).packet = IF next >= p.header.id_len THEN ended ELSE filled
  BY DEF ExpMessageId, Continue, Result
<1>2. p.id_bytes_in \in Bits4 /\ p.id_bytes_in \in IdIndex
  BY BitsDef DEF Sound, Packet, IdIndex, EUI_MAX_MSGID_SIZE
<1>3. next \in Bits4 /\ next \in IdIndex
  BY <1>2, BitsDef DEF IdIndex, EUI_MAX_MSGID_SIZE
<1> HIDE DEF next
<1>4. filled \in Packet /\ filled.state = exp_message_id
  BY <1>2, <1>3 DEF Sound, Packet
<1>5. Sound(filled)
  BY <1>4 DEF Sound, Terminated, Complete
<1>6. after \in ParseStates /\ after \in {exp_offset_b1, exp_data, exp_crc_b1}
  BY StateDef DEF AfterId
<1>7. after = exp_crc_b1 => p.header.data_len = 0
  <2>1. p.header.offset \in Bit /\ p.header.data_len \in Bits10
    BY DEF Sound, Packet, Header
  <2> QED
    BY <2>1, BitsDef, StateDef DEF AfterId
<1> HIDE DEF after
<1>8. ended \in Packet
  <2>1. 0 \in Byte
    BY ByteDef
  <2> QED
    BY <1>3, <1>4, <1>6, <2>1 DEF Packet
<1>9. /\ ended.state = after /\ ended.id_bytes_in = next /\ ended.id_in[next] = 0
      /\ ended.header = p.header /\ ended.data_bytes_in = p.data_bytes_in
  BY <1>2, <1>3 DEF Sound, Packet
<1>10. p.data_bytes_in >= 0
  BY BitsDef DEF Sound, Packet
<1> HIDE DEF ended
<1>11. Sound(ended)
  BY <1>6, <1>7, <1>8, <1>9, <1>10 DEF Sound, Terminated, Complete
<1> QED
  BY <1>1, <1>5, <1>11

\* The two offset bytes make a word.
LEMMA OffsetSound ==
    ASSUME NEW p, Sound(p), NEW b \in Byte
    PROVE  /\ p.state = exp_offset_b1 => Sound(ExpOffsetB1(b, p).packet)
           /\ p.state = exp_offset_b2 => Sound(ExpOffsetB2(b, p).packet)
<1>1. ASSUME p.state = exp_offset_b1 PROVE Sound(ExpOffsetB1(b, p).packet)
  <2> DEFINE q == ExpOffsetB1(b, p).packet
  <2>1. q = [p EXCEPT !.offset_in = b, !.state = exp_offset_b2]
    BY DEF ExpOffsetB1, Continue, Result
  <2> HIDE DEF q
  <2>2. b \in Word /\ b <= 255
    BY ByteDef, WordDef
  <2>3. q \in Packet
    BY <2>1, <2>2, StateDef DEF Sound, Packet
  <2>4. /\ q.state = exp_offset_b2 /\ q.offset_in = b
        /\ q.id_in = p.id_in /\ q.id_bytes_in = p.id_bytes_in
    BY <2>1 DEF Sound, Packet
  <2>5. Sound(q)
    BY <1>1, <2>2, <2>3, <2>4 DEF Sound, Terminated, Complete
  <2> QED
    BY <2>5 DEF q
<1>2. ASSUME p.state = exp_offset_b2 PROVE Sound(ExpOffsetB2(b, p).packet)
  <2> DEFINE q == ExpOffsetB2(b, p).packet
  <2>1. q = [p EXCEPT !.offset_in = @ + b * 256, !.state = exp_data]
    BY DEF ExpOffsetB2, Continue, Result
  <2> HIDE DEF q
  <2>2. p.offset_in + b * 256 \in Word
    <3>1. p.offset_in \in Word /\ p.offset_in <= 255
      BY <1>2 DEF Sound, Packet
    <3> QED
      BY <3>1, ByteDef, WordDef
  <2>3. q \in Packet
    BY <2>1, <2>2, StateDef, ZenonT(40) DEF Sound, Packet
  <2>4. q.state = exp_data /\ q.id_in = p.id_in /\ q.id_bytes_in = p.id_bytes_in
    BY <2>1 DEF Sound, Packet
  <2>5. Sound(q)
    BY <1>2, <2>3, <2>4 DEF Sound, Terminated, Complete
  <2> QED
    BY <2>5 DEF q
<1> QED
  BY <1>1, <1>2

\* A payload byte: the parser leaves the payload only once it is complete.
LEMMA DataSound ==
    ASSUME NEW p, Sound(p), NEW b \in Byte, p.state = exp_data
    PROVE  Sound(ExpData(b, p).packet)
<1> DEFINE next  == (p.data_bytes_in + 1) % 1024
           data  == IF p.data_bytes_in \in DataIndex
                    THEN [p.data_in EXCEPT ![p.data_bytes_in] = b] ELSE p.data_in
           after == IF next >= p.header.data_len \/ next >= PAYLOAD_SIZE_MAX
                    THEN exp_crc_b1 ELSE p.state
           q     == ExpData(b, p).packet
<1>1. q = [p EXCEPT !.data_in = data, !.data_bytes_in = next, !.state = after]
  BY DEF ExpData, ExpDataUpTo, Continue, Result
<1> HIDE DEF q
<1>2. next \in Bits10
  BY BitsDef DEF Sound, Packet
<1>3. data \in [DataIndex -> Byte]
  BY DEF Sound, Packet
<1>4. after \in ParseStates /\ after \in {exp_data, exp_crc_b1}
  BY StateDef
<1>5. after = exp_crc_b1 => next >= p.header.data_len \/ next >= PAYLOAD_SIZE_MAX
  OBVIOUS
<1> HIDE DEF next, data, after
<1>6. q \in Packet
  BY <1>1, <1>2, <1>3, <1>4 DEF Sound, Packet
<1>7. /\ q.state = after /\ q.data_bytes_in = next /\ q.header = p.header
      /\ q.id_in = p.id_in /\ q.id_bytes_in = p.id_bytes_in
  BY <1>1 DEF Sound, Packet
<1>8. Sound(q)
  BY <1>4, <1>5, <1>6, <1>7 DEF Sound, Terminated, Complete
<1> QED
  BY <1>8 DEF q

\* The checksum bytes change nothing the invariants read but the state.
LEMMA CrcB1Sound ==
    ASSUME NEW p, Sound(p), NEW b \in Byte, p.state = exp_crc_b1
    PROVE  Sound(ExpCrcB1(b, p).packet)
<1> DEFINE q == [p EXCEPT !.state = exp_crc_b2]
<1>1. q \in Packet
  BY StateDef DEF Sound, Packet
<1>2. /\ q.state = exp_crc_b2 /\ q.id_in = p.id_in /\ q.id_bytes_in = p.id_bytes_in
      /\ q.header = p.header /\ q.data_bytes_in = p.data_bytes_in
  BY DEF Sound, Packet
<1>3. ExpCrcB1(b, p).packet \in {p, q}
  BY DEF ExpCrcB1, Continue, Result
<1> HIDE DEF q
<1>4. Sound(q)
  BY <1>1, <1>2 DEF Sound, Terminated, Complete
<1> QED
  BY <1>3, <1>4

\* The dummy byte of the frame's first position only moves the state on.
LEMMA FrameOffsetSound ==
    ASSUME NEW p, Sound(p), p.state = exp_frame_offset
    PROVE  Sound([p EXCEPT !.state = exp_header_b1])
<1> DEFINE q == [p EXCEPT !.state = exp_header_b1]
<1>1. q \in Packet /\ q.state = exp_header_b1
  BY StateDef DEF Sound, Packet
<1> HIDE DEF q
<1>2. Sound(q)
  BY <1>1 DEF Sound, Terminated, Complete
<1> QED
  BY <1>2 DEF q

\* Before the checksum every byte leaves the parser idle.
LEMMA StillIdle ==
    ASSUME NEW p, NEW b
    PROVE  /\ Continue(p).status = EUI_PARSER_IDLE /\ Continue(p).packet = p
           /\ ExpHeaderB1(b, p).status = EUI_PARSER_IDLE
           /\ ExpHeaderB2(b, p).status = EUI_PARSER_IDLE
           /\ ExpHeaderB3(b, p).status = EUI_PARSER_IDLE
           /\ ExpMessageId(b, p).status = EUI_PARSER_IDLE
           /\ ExpOffsetB1(b, p).status = EUI_PARSER_IDLE
           /\ ExpOffsetB2(b, p).status = EUI_PARSER_IDLE
           /\ ExpData(b, p).status = EUI_PARSER_IDLE
           /\ ExpCrcB1(b, p).status # EUI_PARSER_OK
           /\ ExpCrcB2(b, p).packet = p
<1> USE DEF Continue, Result, EUI_PARSER_OK, EUI_PARSER_IDLE, EUI_PARSER_ERROR
<1>1. Continue(p).status = EUI_PARSER_IDLE /\ Continue(p).packet = p
  OBVIOUS
<1>2. /\ ExpHeaderB1(b, p).status = EUI_PARSER_IDLE
      /\ ExpHeaderB2(b, p).status = EUI_PARSER_IDLE
      /\ ExpHeaderB3(b, p).status = EUI_PARSER_IDLE
  BY DEF ExpHeaderB1, ExpHeaderB2, ExpHeaderB3
<1>3. ExpMessageId(b, p).status = EUI_PARSER_IDLE
  BY DEF ExpMessageId
<1>4. /\ ExpOffsetB1(b, p).status = EUI_PARSER_IDLE
      /\ ExpOffsetB2(b, p).status = EUI_PARSER_IDLE
      /\ ExpData(b, p).status = EUI_PARSER_IDLE
  BY DEF ExpOffsetB1, ExpOffsetB2, ExpData, ExpDataUpTo
<1>5. ExpCrcB1(b, p).status # EUI_PARSER_OK /\ ExpCrcB2(b, p).packet = p
  BY DEF ExpCrcB1, ExpCrcB2
<1> QED
  BY <1>1, <1>2, <1>3, <1>4, <1>5

\* Every byte keeps the packet sound, and only the last checksum byte accepts it.
LEMMA ParseSound ==
    ASSUME NEW p, Sound(p), NEW b \in Byte
    PROVE  /\ Sound(ParseDecodedPacket(b, p).packet)
           /\ ParseDecodedPacket(b, p).status = EUI_PARSER_OK =>
                  ParseDecodedPacket(b, p).packet.state = exp_crc_b2
<1>1. p.state \in Int /\ 0 <= p.state /\ p.state <= 9
  BY StateDef DEF Sound, Packet
<1>2. EUI_PARSER_IDLE # EUI_PARSER_OK
  BY DEF EUI_PARSER_IDLE, EUI_PARSER_OK
<1>3. CASE p.state = exp_frame_offset
  <2> DEFINE q == [p EXCEPT !.state = exp_header_b1]
  <2>1. ParseDecodedPacket(b, p) = Continue(q) /\ Sound(q)
    BY <1>3, Dispatch, FrameOffsetSound
  <2> HIDE DEF q
  <2> QED
    BY <1>2, <2>1, StillIdle
<1>4. CASE p.state = exp_header_b1
  <2>1. ParseDecodedPacket(b, p) = ExpHeaderB1(b, p)
    BY <1>4, Dispatch
  <2>2. Sound(ExpHeaderB1(b, p).packet)
    BY <1>4, HeaderB1Sound
  <2>3. ExpHeaderB1(b, p).status = EUI_PARSER_IDLE
    BY StillIdle
  <2> QED
    BY <1>2, <2>1, <2>2, <2>3
<1>5. CASE p.state = exp_header_b2
  <2>1. ParseDecodedPacket(b, p) = ExpHeaderB2(b, p)
    BY <1>5, Dispatch
  <2>2. Sound(ExpHeaderB2(b, p).packet)
    BY <1>5, HeaderB2Sound
  <2>3. ExpHeaderB2(b, p).status = EUI_PARSER_IDLE
    BY StillIdle
  <2> QED
    BY <1>2, <2>1, <2>2, <2>3
<1>6. CASE p.state = exp_header_b3
  <2>1. ParseDecodedPacket(b, p) = ExpHeaderB3(b, p)
    BY <1>6, Dispatch
  <2>2. Sound(ExpHeaderB3(b, p).packet)
    BY <1>6, HeaderB3Sound
  <2>3. ExpHeaderB3(b, p).status = EUI_PARSER_IDLE
    BY StillIdle
  <2> QED
    BY <1>2, <2>1, <2>2, <2>3
<1>7. CASE p.state = exp_message_id
  <2>1. ParseDecodedPacket(b, p) = ExpMessageId(b, p)
    BY <1>7, Dispatch
  <2>2. Sound(ExpMessageId(b, p).packet)
    BY <1>7, MessageIdSound
  <2>3. ExpMessageId(b, p).status = EUI_PARSER_IDLE
    BY StillIdle
  <2> QED
    BY <1>2, <2>1, <2>2, <2>3
<1>8. CASE p.state \in {exp_offset_b1, exp_offset_b2}
  <2>1. PICK r \in {ExpOffsetB1(b, p), ExpOffsetB2(b, p)} :
            ParseDecodedPacket(b, p) = r /\ Sound(r.packet)
    BY <1>8, Dispatch, OffsetSound
  <2>2. r.status = EUI_PARSER_IDLE
    BY StillIdle
  <2> QED
    BY <1>2, <2>1, <2>2
<1>9. CASE p.state = exp_data
  <2>1. ParseDecodedPacket(b, p) = ExpData(b, p)
    BY <1>9, Dispatch
  <2>2. Sound(ExpData(b, p).packet)
    BY <1>9, DataSound
  <2>3. ExpData(b, p).status = EUI_PARSER_IDLE
    BY StillIdle
  <2> QED
    BY <1>2, <2>1, <2>2, <2>3
<1>10. CASE p.state = exp_crc_b1
  <2>1. ParseDecodedPacket(b, p) = ExpCrcB1(b, p)
    BY <1>10, Dispatch
  <2>2. Sound(ExpCrcB1(b, p).packet)
    BY <1>10, CrcB1Sound
  <2>3. ExpCrcB1(b, p).status # EUI_PARSER_OK
    BY StillIdle
  <2> QED
    BY <1>2, <2>1, <2>2, <2>3
<1>11. CASE p.state = exp_crc_b2
  <2>1. ParseDecodedPacket(b, p) = ExpCrcB2(b, p)
    BY <1>11, Dispatch
  <2>2. ExpCrcB2(b, p).packet = p
    BY StillIdle
  <2> QED
    BY <1>11, <2>1, <2>2
<1> QED
  BY <1>1, <1>3, <1>4, <1>5, <1>6, <1>7, <1>8, <1>9, <1>10, <1>11

\* The COBS layer yields a byte and keeps its countdown a byte.
LEMMA UnstuffType ==
    ASSUME NEW p, Sound(p), NEW b \in Byte
    PROVE  Unstuff(b, p).byte \in Byte /\ Unstuff(b, p).frame_offset \in Byte
<1>1. p.frame_offset \in Byte
  BY DEF Sound, Packet
<1> QED
  BY <1>1, ByteDef DEF Unstuff

\* decode_packet keeps the packet sound whatever byte arrives.
LEMMA DecodeSound ==
    ASSUME NEW p, Sound(p), NEW b \in Byte
    PROVE  /\ Sound(DecodePacket(b, p).packet)
           /\ DecodePacket(b, p).status = EUI_PARSER_OK =>
                  DecodePacket(b, p).packet.state = exp_crc_b2
<1>1. CASE b = 0
  <2> DEFINE initial == 65535
             q == [p EXCEPT !.state = exp_frame_offset, !.crc_in = initial]
  <2>1. DecodePacket(b, p) = Continue(q)
    BY <1>1 DEF DecodePacket
  <2>2. initial \in Word
    BY WordDef
  <2> HIDE DEF initial
  <2>3. q \in Packet /\ q.state = exp_frame_offset
    BY <2>2, StateDef DEF Sound, Packet
  <2> HIDE DEF q
  <2>4. Sound(q)
    BY <2>3 DEF Sound, Terminated, Complete
  <2> QED
    BY <2>1, <2>4 DEF Continue, Result, EUI_PARSER_OK, EUI_PARSER_IDLE
<1>2. CASE b # 0
  <2> DEFINE u   == Unstuff(b, p)
             crc == IF exp_frame_offset < p.state /\ p.state < exp_crc_b1
                    THEN Crc16(u.byte, p.crc_in) ELSE p.crc_in
             q   == [p EXCEPT !.frame_offset = u.frame_offset, !.crc_in = crc]
  <2>1. DecodePacket(b, p) = ParseDecodedPacket(u.byte, q)
    BY <1>2 DEF DecodePacket
  <2>2. u.byte \in Byte /\ u.frame_offset \in Byte
    BY UnstuffType
  <2> HIDE DEF u
  <2>3. crc \in Word
    <3>1. p.crc_in \in Word
      BY DEF Sound, Packet
    <3> QED
      BY <2>2, <3>1, CrcType
  <2> HIDE DEF crc
  <2>4. q \in Packet
    BY <2>2, <2>3 DEF Sound, Packet
  <2>5. /\ q.state = p.state /\ q.header = p.header /\ q.offset_in = p.offset_in
        /\ q.id_in = p.id_in /\ q.id_bytes_in = p.id_bytes_in
        /\ q.data_bytes_in = p.data_bytes_in
    BY DEF Sound, Packet
  <2> HIDE DEF q
  <2>6. Sound(q)
    BY <2>4, <2>5 DEF Sound, Terminated, Complete
  <2> QED
    BY <2>1, <2>2, <2>6, ParseSound
<1> QED
  BY <1>1, <1>2

\* A cleared packet is sound.
LEMMA ZeroSound == Sound(ZeroPacket)
<1>1. ZeroHeader \in Header
  BY BitsDef DEF ZeroHeader, Header
<1>2. 0 \in Bits4 /\ 0 \in Bits10 /\ 0 \in Byte /\ 0 \in Word
  BY BitsDef, ByteDef, WordDef
<1>3. ZeroPacket \in Packet
  BY <1>1, <1>2, StateDef DEF ZeroPacket, Packet
<1>4. ZeroPacket.state = exp_frame_offset
  BY DEF ZeroPacket
<1> QED
  BY <1>3, <1>4 DEF Sound, Terminated, Complete

-----------------------------------------------------------------------------
(* The history of a frame: what the payload it brought has to do with data_in  *)

\* Inside a frame that began with data_bytes_in at 0, the count and the front of
\* data_in are those of the payload bytes that arrived, and there is room for the next.
FrameHistory(p, first, bytes) ==
    p.state # exp_frame_offset /\ first = 0 =>
        /\ p.data_bytes_in = Len(bytes) /\ Len(bytes) <= PAYLOAD_SIZE_MAX
        /\ p.state < exp_data => bytes = << >>
        /\ p.state = exp_data => Len(bytes) < PAYLOAD_SIZE_MAX
        /\ \A n \in 1..Len(bytes) : p.data_in[n - 1] = bytes[n]

\* A parser between two frames has none.
LEMMA NoHistory ==
    ASSUME NEW p, NEW first, NEW bytes, p.state = exp_frame_offset
    PROVE  FrameHistory(p, first, bytes)
BY DEF FrameHistory

\* Inside a frame only the payload's own state touches the payload, and the states
\* follow one another.
LEMMA PayloadUntouched ==
    ASSUME NEW p, Sound(p), NEW b \in Byte,
           p.state # exp_frame_offset, p.state # exp_data,
           NEW q, q = ParseDecodedPacket(b, p).packet
    PROVE  /\ q.data_bytes_in = p.data_bytes_in /\ q.data_in = p.data_in
           /\ q.state >= p.state
<1>1. p.state \in Int /\ 0 <= p.state /\ p.state <= 9
  BY StateDef DEF Sound, Packet
<1>2. CASE p.state = exp_header_b1
  <2>1. ParseDecodedPacket(b, p) = ExpHeaderB1(b, p)
    BY <1>2, Dispatch
  <2>2. q = [p EXCEPT !.header = [@ EXCEPT !.data_len = b], !.state = exp_header_b2]
    BY <2>1 DEF ExpHeaderB1, Continue, Result
  <2> QED
    BY <1>2, <2>2 DEF Sound, Packet
<1>3. CASE p.state = exp_header_b2
  <2>1. ParseDecodedPacket(b, p) = ExpHeaderB2(b, p)
    BY <1>3, Dispatch
  <2> DEFINE h == [p.header EXCEPT !.data_len = @ + (b % 4) * 256,
                                   !.type     = (b \div 4) % 16,
                                   !.internal = (b \div 64) % 2,
                                   !.offset   = b \div 128]
  <2>2. q = [p EXCEPT !.header = h, !.state = exp_header_b3]
    BY <2>1 DEF ExpHeaderB2, Continue, Result
  <2> HIDE DEF h
  <2> QED
    BY <1>3, <2>2 DEF Sound, Packet
<1>4. CASE p.state = exp_header_b3
  <2>1. ParseDecodedPacket(b, p) = ExpHeaderB3(b, p)
    BY <1>4, Dispatch
  <2> DEFINE h == [p.header EXCEPT !.id_len   = b % 16,
                                   !.response = (b \div 16) % 2,
                                   !.acknum   = b \div 32]
  <2>2. q = [p EXCEPT !.header = h, !.state = exp_message_id]
    BY <2>1 DEF ExpHeaderB3, Continue, Result
  <2> HIDE DEF h
  <2> QED
    BY <1>4, <2>2 DEF Sound, Packet
<1>5. CASE p.state = exp_message_id
  <2>1. ParseDecodedPacket(b, p) = ExpMessageId(b, p)
    BY <1>5, Dispatch
  <2> DEFINE next   == (p.id_bytes_in + 1) % 16
             filled == [p EXCEPT !.id_in = [@ EXCEPT ![p.id_bytes_in] = b],
                                 !.id_bytes_in = next]
             after  == AfterId(p.header)
             ended  == [filled EXCEPT !.id_in = [@ EXCEPT ![next] = 0], !.state = after]
  <2>2. q = IF next >= p.header.id_len THEN ended ELSE filled
    BY <2>1 DEF ExpMessageId, Continue, Result
  <2>3. after \in {exp_offset_b1, exp_data, exp_crc_b1}
    BY DEF AfterId
  <2> HIDE DEF next, after
  <2>4. /\ filled.data_bytes_in = p.data_bytes_in /\ filled.data_in = p.data_in
        /\ filled.state = p.state
    BY DEF Sound, Packet
  <2>5. /\ ended.data_bytes_in = p.data_bytes_in /\ ended.data_in = p.data_in
        /\ ended.state = after
    BY DEF Sound, Packet
  <2> HIDE DEF filled, ended
  <2> QED
    BY <1>5, <2>2, <2>3, <2>4, <2>5
<1>6. CASE p.state = exp_offset_b1
  <2>1. ParseDecodedPacket(b, p) = ExpOffsetB1(b, p)
    BY <1>6, Dispatch
  <2>2. q = [p EXCEPT !.offset_in = b, !.state = exp_offset_b2]
    BY <2>1 DEF ExpOffsetB1, Continue, Result
  <2> QED
    BY <1>6, <2>2 DEF Sound, Packet
<1>7. CASE p.state = exp_offset_b2
  <2>1. ParseDecodedPacket(b, p) = ExpOffsetB2(b, p)
    BY <1>7, Dispatch
  <2>2. q = [p EXCEPT !.offset_in = @ + b * 256, !.state = exp_data]
    BY <2>1 DEF ExpOffsetB2, Continue, Result
  <2> QED
    BY <1>7, <2>2 DEF Sound, Packet
<1>8. CASE p.state = exp_crc_b1
  <2>1. ParseDecodedPacket(b, p) = ExpCrcB1(b, p)
    BY <1>8, Dispatch
  <2>2. q \in {p, [p EXCEPT !.state = exp_crc_b2]}
    BY <2>1 DEF ExpCrcB1, Continue, Result
  <2> QED
    BY <1>1, <1>8, <2>2 DEF Sound, Packet
<1>9. CASE p.state = exp_crc_b2
  <2>1. ParseDecodedPacket(b, p) = ExpCrcB2(b, p)
    BY <1>9, Dispatch
  <2>2. q = p
    BY <2>1, StillIdle
  <2> QED
    BY <1>1, <2>2
<1> QED
  BY <1>1, <1>2, <1>3, <1>4, <1>5, <1>6, <1>7, <1>8, <1>9

\* A payload byte is stored at the index that the history gives it.
LEMMA DataHistory ==
    ASSUME NEW p, Sound(p), NEW b \in Byte, p.state = exp_data,
           NEW first, NEW bytes \in Seq(Byte), FrameHistory(p, first, bytes),
           NEW q, q = ParseDecodedPacket(b, p).packet
    PROVE  FrameHistory(q, first, Append(bytes, b))
<1> SUFFICES ASSUME first = 0 PROVE FrameHistory(q, first, Append(bytes, b))
  BY DEF FrameHistory
<1> DEFINE size  == PAYLOAD_SIZE_MAX
           next  == (p.data_bytes_in + 1) % 1024
           data  == IF p.data_bytes_in \in DataIndex
                    THEN [p.data_in EXCEPT ![p.data_bytes_in] = b] ELSE p.data_in
           after == IF next >= p.header.data_len \/ next >= size
                    THEN exp_crc_b1 ELSE p.state
<1>1. q = [p EXCEPT !.data_in = data, !.data_bytes_in = next, !.state = after]
  <2>1. ParseDecodedPacket(b, p) = ExpData(b, p)
    BY Dispatch
  <2> QED
    BY <2>1 DEF ExpData, ExpDataUpTo, Continue, Result
<1>2. /\ p.data_bytes_in = Len(bytes) /\ Len(bytes) < size
      /\ \A n \in 1..Len(bytes) : p.data_in[n - 1] = bytes[n]
  BY DEF FrameHistory
<1>3. size \in 1..1023 /\ Len(bytes) \in Nat
  BY PayloadAssumption
<1>4. p.data_bytes_in \in DataIndex /\ next = Len(bytes) + 1 /\ next <= size
  <2> DEFINE len == Len(bytes)
  <2>1. len \in Nat /\ len < size /\ size \in 1..1023
    BY <1>2, <1>3
  <2>2. p.data_bytes_in = len
    BY <1>2
  <2> HIDE DEF len, size
  <2>3. (len + 1) % 1024 = len + 1 /\ len + 1 <= size /\ len \in 0..size - 1
    BY <2>1
  <2> QED
    BY <2>2, <2>3 DEF DataIndex, len, size
<1>5. after \in {exp_data, exp_crc_b1} /\ (after = exp_data => next < size)
  BY <1>3, <1>4
<1>6. \A n \in 1..next : data[n - 1] = Append(bytes, b)[n]
  <2> SUFFICES ASSUME NEW n \in 1..next PROVE data[n - 1] = Append(bytes, b)[n]
    OBVIOUS
  <2>1. p.data_in \in [DataIndex -> Byte] /\ data = [p.data_in EXCEPT ![p.data_bytes_in] = b]
    BY <1>4 DEF Sound, Packet
  <2>2. n - 1 \in DataIndex
    BY <1>3, <1>4 DEF DataIndex
  <2> HIDE DEF data, next
  <2>3. CASE n = next
    BY <1>2, <1>3, <1>4, <2>1, <2>2, <2>3
  <2>4. CASE n # next
    <3>1. n \in 1..Len(bytes) /\ n - 1 # p.data_bytes_in
      BY <1>2, <1>3, <1>4, <2>4
    <3>2. data[n - 1] = p.data_in[n - 1]
      BY <2>1, <2>2, <3>1
    <3> QED
      BY <1>2, <3>1, <3>2
  <2> QED
    BY <2>3, <2>4
<1> HIDE DEF next, data, after
<1>7. q.state = after /\ q.data_bytes_in = next /\ q.data_in = data
  BY <1>1 DEF Sound, Packet
<1>8. Len(Append(bytes, b)) = next
  BY <1>4
<1> QED
  BY <1>4, <1>5, <1>6, <1>7, <1>8 DEF FrameHistory

\* what Receiver notes with a byte
NotedFirst(p, first) == IF p.state = exp_frame_offset THEN p.data_bytes_in ELSE first
NotedBytes(b, p, bytes) ==
    CASE p.state = exp_frame_offset -> << >>
      [] p.state = exp_data /\ b # 0 -> Append(bytes, Unstuff(b, p).byte)
      [] OTHER -> bytes

\* decode_packet keeps the history.
LEMMA DecodeHistory ==
    ASSUME NEW p, Sound(p), NEW b \in Byte,
           NEW first \in Bits10, NEW bytes \in Seq(Byte), FrameHistory(p, first, bytes)
    PROVE  FrameHistory(DecodePacket(b, p).packet, NotedFirst(p, first), NotedBytes(b, p, bytes))
<1>1. CASE b = 0
  <2> DEFINE initial == 65535
             q == [p EXCEPT !.state = exp_frame_offset, !.crc_in = initial]
  <2>1. DecodePacket(b, p).packet = q
    BY <1>1 DEF DecodePacket, Continue, Result
  <2>2. q.state = exp_frame_offset
    BY DEF Sound, Packet
  <2> HIDE DEF q
  <2> QED
    BY <2>1, <2>2, NoHistory
<1>2. CASE b # 0
  <2> DEFINE u   == Unstuff(b, p)
             crc == IF exp_frame_offset < p.state /\ p.state < exp_crc_b1
                    THEN Crc16(u.byte, p.crc_in) ELSE p.crc_in
             r   == [p EXCEPT !.frame_offset = u.frame_offset, !.crc_in = crc]
             q   == ParseDecodedPacket(u.byte, r).packet
  <2>1. DecodePacket(b, p).packet = q
    BY <1>2 DEF DecodePacket
  <2>2. u.byte \in Byte /\ u.frame_offset \in Byte
    BY UnstuffType
  <2> HIDE DEF u
  <2>3. crc \in Word
    BY <2>2, CrcType DEF Sound, Packet
  <2> HIDE DEF crc
  <2>4. /\ r.state = p.state /\ r.header = p.header /\ r.offset_in = p.offset_in
        /\ r.id_in = p.id_in /\ r.id_bytes_in = p.id_bytes_in
        /\ r.data_bytes_in = p.data_bytes_in /\ r.data_in = p.data_in /\ r \in Packet
    BY <2>2, <2>3 DEF Sound, Packet
  <2> HIDE DEF r
  <2>5. Sound(r) /\ FrameHistory(r, first, bytes)
    BY <2>4 DEF Sound, Terminated, Complete, FrameHistory
  <2>6. r.state \in Int /\ r.data_bytes_in \in Nat
    BY <2>5, StateDef, BitsDef DEF Sound, Packet
  <2>7. CASE p.state = exp_frame_offset
    <3> DEFINE s == [r EXCEPT !.state = exp_header_b1]
    <3>1. q = s
      <4>1. ParseDecodedPacket(u.byte, r) = Continue(s)
        BY <2>4, <2>7, Dispatch
      <4> HIDE DEF s
      <4> QED
        BY <4>1, StillIdle
    <3>2. s.state = exp_header_b1 /\ s.data_bytes_in = r.data_bytes_in
      BY <2>4 DEF Packet
    <3> HIDE DEF s, q
    <3>3. NotedFirst(p, first) = r.data_bytes_in /\ NotedBytes(b, p, bytes) = << >>
      BY <2>4, <2>7 DEF NotedFirst, NotedBytes
    <3>4. FrameHistory(q, r.data_bytes_in, << >>)
      <4>1. q.state = exp_header_b1 /\ q.data_bytes_in = r.data_bytes_in
        BY <3>1, <3>2
      <4>2. Len(<< >>) = 0 /\ 0 <= PAYLOAD_SIZE_MAX
        BY PayloadAssumption
      <4>3. \A n \in 1..Len(<< >>) : q.data_in[n - 1] = << >>[n]
        BY <4>2
      <4> QED
        BY <4>1, <4>2, <4>3 DEF FrameHistory
    <3> QED
      BY <2>1, <3>3, <3>4
  <2>8. CASE p.state = exp_data
    <3>1. NotedFirst(p, first) = first /\ NotedBytes(b, p, bytes) = Append(bytes, u.byte)
      BY <1>2, <2>8 DEF NotedFirst, NotedBytes, u
    <3>2. FrameHistory(q, first, Append(bytes, u.byte))
      BY <2>2, <2>4, <2>5, <2>8, DataHistory
    <3> QED
      BY <2>1, <3>1, <3>2
  <2>9. CASE p.state \notin {exp_frame_offset, exp_data}
    <3>1. NotedFirst(p, first) = first /\ NotedBytes(b, p, bytes) = bytes
      BY <2>9 DEF NotedFirst, NotedBytes
    <3>2. q.data_bytes_in = r.data_bytes_in /\ q.data_in = r.data_in /\ q.state >= r.state
      BY <2>2, <2>4, <2>5, <2>9, PayloadUntouched
    <3>3. q.state \in Int
      BY <2>2, <2>5, ParseSound, StateDef DEF Sound, Packet
    <3> HIDE DEF q
    <3>4. FrameHistory(q, first, bytes)
      <4> SUFFICES ASSUME first = 0 PROVE FrameHistory(q, first, bytes)
        BY DEF FrameHistory
      <4>1. /\ q.data_bytes_in = Len(bytes) /\ Len(bytes) <= PAYLOAD_SIZE_MAX
            /\ \A n \in 1..Len(bytes) : q.data_in[n - 1] = bytes[n]
        BY <2>4, <2>5, <2>9, <3>2 DEF FrameHistory
      <4>2. CASE r.state < exp_data
        <5>1. bytes = << >>
          BY <2>4, <2>5, <2>9, <4>2 DEF FrameHistory
        <5>2. Len(bytes) = 0 /\ 0 < PAYLOAD_SIZE_MAX
          BY <5>1, PayloadAssumption
        <5> QED
          BY <4>1, <5>1, <5>2 DEF FrameHistory
      <4>3. CASE r.state > exp_data
        BY <2>6, <3>2, <3>3, <4>1, <4>3 DEF FrameHistory
      <4> QED
        BY <2>4, <2>6, <2>9, <4>2, <4>3
    <3> QED
      BY <2>1, <3>1, <3>4
  <2> QED
    BY <2>7, <2>8, <2>9
<1> QED
  BY <1>1, <1>2

-----------------------------------------------------------------------------
(* The receiver *)

Accepted ==
    \/ accepted = << >>
    \/ \E p : /\ accepted = <<p>> /\ Sound(p) /\ p.state = exp_crc_b2
              /\ FrameHistory(p, leftover, arrived)

\* The inductive invariant.
IInv ==
    /\ received \in 0..MaxBytes
    /\ leftover \in Bits10
    /\ arrived \in Seq(Byte)
    /\ Sound(packet)
    /\ FrameHistory(packet, leftover, arrived)
    /\ Accepted

\* One call of eui_parse leaves a packet that is sound and goes with its history, and
\* hands on at most one, sound too.
LEMMA ParseByteSound ==
    ASSUME NEW p, Sound(p), NEW b \in Byte,
           NEW first \in Bits10, NEW bytes \in Seq(Byte), FrameHistory(p, first, bytes),
           NEW f, f = NotedFirst(p, first), NEW a, a = NotedBytes(b, p, bytes)
    PROVE  /\ Sound(ParseByte(b, p).packet) /\ FrameHistory(ParseByte(b, p).packet, f, a)
           /\ \/ ParseByte(b, p).accepted = << >>
              \/ \E q : /\ ParseByte(b, p).accepted = <<q>>
                        /\ Sound(q) /\ q.state = exp_crc_b2 /\ FrameHistory(q, f, a)
<1> DEFINE step == DecodePacket(b, p)
<1>1. /\ Sound(step.packet) /\ (step.status = EUI_PARSER_OK => step.packet.state = exp_crc_b2)
      /\ FrameHistory(step.packet, f, a)
  BY DecodeSound, DecodeHistory
<1>2. /\ ParseByte(b, p).packet = IF step.status = EUI_PARSER_IDLE THEN step.packet ELSE ZeroPacket
      /\ ParseByte(b, p).accepted = IF step.status = EUI_PARSER_OK THEN <<step.packet>> ELSE << >>
  BY DEF ParseByte
<1> HIDE DEF step
<1>3. FrameHistory(ZeroPacket, f, a)
  <2>1. ZeroPacket.state = exp_frame_offset
    BY DEF ZeroPacket
  <2> QED
    BY <2>1, NoHistory
<1>4. Sound(ParseByte(b, p).packet) /\ FrameHistory(ParseByte(b, p).packet, f, a)
  BY <1>1, <1>2, <1>3, ZeroSound
<1>5. CASE step.status = EUI_PARSER_OK
  BY <1>1, <1>2, <1>4, <1>5
<1>6. CASE step.status # EUI_PARSER_OK
  BY <1>2, <1>4, <1>6
<1> QED
  BY <1>5, <1>6

\* The initial state satisfies the inductive invariant.
LEMMA InitInv == Init => IInv
<1> SUFFICES ASSUME Init PROVE IInv
  OBVIOUS
<1>1. ZeroPacket.state = exp_frame_offset
  BY DEF ZeroPacket
<1>2. FrameHistory(packet, leftover, arrived)
  BY <1>1, NoHistory DEF Init
<1>3. received \in 0..MaxBytes /\ leftover \in Bits10 /\ arrived \in Seq(Byte)
  BY MaxBytesAssumption, BitsDef DEF Init
<1> QED
  BY <1>2, <1>3, ZeroSound DEF Init, IInv, Accepted

\* Every received byte preserves it.
LEMMA NextInv == IInv /\ [Next]_vars => IInv'
<1> SUFFICES ASSUME IInv, [Next]_vars PROVE IInv'
  OBVIOUS
<1>1. ASSUME NEW b \in Alphabet \cup ChecksumBytes, EuiParse(b)
      PROVE  IInv'
  <2>1. b \in Byte
    <3>1. packet.crc_in \in Word
      BY DEF IInv, Sound, Packet
    <3>2. packet.crc_in % 256 \in Byte /\ packet.crc_in \div 256 \in Byte
      BY <3>1, WordDef, ByteDef
    <3> QED
      BY <3>2, AlphabetAssumption DEF ChecksumBytes
  <2>2. /\ packet' = ParseByte(b, packet).packet
        /\ accepted' = ParseByte(b, packet).accepted
        /\ received < MaxBytes /\ received' = received + 1
    BY <1>1 DEF EuiParse
  <2>3. leftover' = NotedFirst(packet, leftover) /\ arrived' = NotedBytes(b, packet, arrived)
    BY <1>1 DEF EuiParse, Note, NotedFirst, NotedBytes
  <2>4. received' \in 0..MaxBytes
    BY <2>2, MaxBytesAssumption DEF IInv
  <2>5. leftover' \in Bits10 /\ arrived' \in Seq(Byte)
    <3>1. packet.data_bytes_in \in Bits10 /\ Unstuff(b, packet).byte \in Byte
      BY <2>1, UnstuffType DEF IInv, Sound, Packet
    <3> QED
      BY <2>3, <3>1 DEF IInv, NotedFirst, NotedBytes
  <2>6. /\ Sound(ParseByte(b, packet).packet)
        /\ FrameHistory(ParseByte(b, packet).packet, leftover', arrived')
        /\ \/ ParseByte(b, packet).accepted = << >>
           \/ \E q : /\ ParseByte(b, packet).accepted = <<q>>
                     /\ Sound(q) /\ q.state = exp_crc_b2
                     /\ FrameHistory(q, leftover', arrived')
    BY <2>1, <2>3, ParseByteSound DEF IInv
  <2>7. Sound(packet)' /\ FrameHistory(packet, leftover, arrived)'
    BY <2>2, <2>6 DEF Sound, Terminated, Complete, FrameHistory
  <2>8. Accepted'
    BY <2>2, <2>6 DEF Accepted
  <2> QED
    BY <2>4, <2>5, <2>7, <2>8 DEF IInv
<1>2. CASE UNCHANGED vars
  BY <1>2 DEF vars, history, IInv, Accepted, Sound, Terminated, Complete, FrameHistory
<1> QED
  BY <1>1, <1>2 DEF Next

\* What the inductive invariant says of the properties.
LEMMA InvTypeOK == IInv => TypeOK
<1> SUFFICES ASSUME IInv PROVE TypeOK
  OBVIOUS
<1>1. packet \in Packet
  BY DEF IInv, Sound
<1>2. accepted \in Seq(Packet)
  <2>1. CASE accepted = << >>
    BY <2>1
  <2>2. ASSUME NEW p, accepted = <<p>>, p \in Packet PROVE accepted \in Seq(Packet)
    BY <2>2
  <2> QED
    BY <2>1, <2>2 DEF IInv, Accepted, Sound
<1> QED
  BY <1>1, <1>2 DEF TypeOK, IInv

LEMMA InvIdTerminated == IInv => IdTerminated
<1> SUFFICES ASSUME IInv, NEW p \in ToSet(accepted) PROVE \E n \in IdIndex : p.id_in[n] = 0
  BY DEF IdTerminated
<1>1. Sound(p) /\ p.state = exp_crc_b2
  BY DEF IInv, Accepted, ToSet
<1>2. p.id_bytes_in \in IdIndex
  BY <1>1, BitsDef DEF Sound, Packet, IdIndex, EUI_MAX_MSGID_SIZE
<1>3. p.id_in[p.id_bytes_in] = 0
  BY <1>1 DEF Sound, Terminated
<1> QED
  BY <1>2, <1>3

LEMMA InvPayloadArrived == IInv => PayloadArrived
<1> SUFFICES ASSUME IInv, leftover = 0, NEW p \in ToSet(accepted),
                    NEW n \in 1..p.header.data_len, n <= PAYLOAD_SIZE_MAX
             PROVE  n \in DOMAIN arrived /\ p.data_in[n - 1] = arrived[n]
  BY DEF PayloadArrived, PayloadIsOwn
<1>1. Sound(p) /\ p.state = exp_crc_b2 /\ FrameHistory(p, leftover, arrived)
  BY DEF IInv, Accepted, ToSet
<1>2. Len(arrived) >= p.header.data_len \/ Len(arrived) >= PAYLOAD_SIZE_MAX
  BY <1>1 DEF Sound, Complete, FrameHistory
<1>3. p.header.data_len \in Nat /\ arrived \in Seq(Byte)
  BY <1>1, BitsDef DEF Sound, Packet, Header, IInv
<1>4. n \in 1..Len(arrived)
  BY <1>2, <1>3, PayloadAssumption
<1> QED
  BY <1>1, <1>3, <1>4 DEF FrameHistory

LEMMA InvStoresInside == IInv => StoresInside
<1> SUFFICES ASSUME IInv, leftover = 0, packet.state = exp_data
             PROVE  packet.data_bytes_in \in DataIndex
  BY DEF StoresInside, StoreIsInside
<1>1. packet.data_bytes_in = Len(arrived) /\ Len(arrived) < PAYLOAD_SIZE_MAX
  BY DEF IInv, FrameHistory
<1>2. Len(arrived) \in Nat
  BY DEF IInv
<1> QED
  BY <1>1, <1>2, PayloadAssumption DEF DataIndex

\* The parser's bitfields never hold more than their width, for every buffer size
\* and every sequence of bytes given to eui_parse.
THEOREM TypeCorrect == Spec => []TypeOK
<1> QED
  BY InitInv, NextInv, InvTypeOK, PTL DEF Spec

\* The identifier handed to find_message_object ends inside id_in, for every
\* sequence of bytes given to eui_parse.
THEOREM IdentifierTerminated == Spec => []IdTerminated
<1> QED
  BY InitInv, NextInv, InvIdTerminated, PTL DEF Spec

\* What the handlers read of the payload of an accepted packet, whose frame began
\* with data_bytes_in at 0, is what that frame brought: byte for byte, all that its
\* header announces or as much as data_in holds.
THEOREM PayloadComplete == Spec => []PayloadArrived
<1> QED
  BY InitInv, NextInv, InvPayloadArrived, PTL DEF Spec

\* A frame that begins with data_bytes_in at 0 never stores a byte behind data_in,
\* for every buffer size, length announced and sequence of bytes.
THEOREM PayloadInsideBuffer == Spec => []StoresInside
<1> QED
  BY InitInv, NextInv, InvStoresInside, PTL DEF Spec
=============================================================================
