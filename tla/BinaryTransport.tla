--------------------------- MODULE BinaryTransport ---------------------------
(* eui_binary_transport.c: the encoder of an outbound packet and the           *)
(* byte-at-a-time decoder of inbound ones, as operators.  A byte buffer of the *)
(* encoder is a sequence (index k of the C array is position k + 1); the       *)
(* buffers of the decoder are functions on their C indices.                    *)
EXTENDS EuiUtilities, Sequences

CONSTANT PAYLOAD_SIZE_MAX       \* capacity of data_in

\* data_len and data_bytes_in are 10 bit fields
ASSUME PayloadAssumption == PAYLOAD_SIZE_MAX \in 1..1023

-----------------------------------------------------------------------------
(* Encoder *)

EncodeHeader(h) ==
    << h.data_len % 256,
       h.data_len \div 256 + h.type * 4 + h.internal * 64 + h.offset * 128,
       h.id_len + h.response * 16 + h.acknum * 32 >>

LittleEndian(word) == << word % 256, word \div 256 >>

\* the CRC loop of encode_packet over the bytes before the checksum
CrcOf(bytes) ==
    LET crc[n \in 0..Len(bytes)] ==
            IF n = 0 THEN 65535 ELSE Crc16(bytes[n], crc[n - 1])
    IN  crc[Len(bytes)]

\* make room at index i: the bytes from i on move back by one, the last is lost
Ripple(buffer, i) ==
    [k \in 1..Len(buffer) |->
        CASE k <= i     -> buffer[k]
          [] k = i + 1  -> 238
          [] OTHER      -> buffer[k - 1]]

\* a slip in the next definition: the place of the code byte is not moved on
CloseBlockStays(s, i, code) ==
    [s EXCEPT !.buffer = [@ EXCEPT ![s.previous_null + 1] = code]]

\* fill in the code byte of the block that index i ends
CloseBlock(s, i, code) ==
    [buffer |-> [s.buffer EXCEPT ![s.previous_null + 1] = code], previous_null |-> i]

\* one iteration of the loop of encode_framing, at index i
FramingStep(s, i) ==
    LET bytes_since == (i - s.previous_null) % 256
    IN  CASE s.buffer[i + 1] = 0 -> CloseBlock(s, i, bytes_since)
          [] s.buffer[i + 1] # 0 /\ bytes_since = 255 ->
                [CloseBlock(s, i, 255) EXCEPT !.buffer = Ripple(@, i)]
          [] OTHER -> s

\* COBS in place: buffer[0] and buffer[1] are the two framing bytes to fill in
EncodeFraming(buffer) ==
    LET scan[i \in 0..(Len(buffer) - 1)] ==
            IF i = 0 THEN [buffer |-> buffer, previous_null |-> 0]
                     ELSE FramingStep(scan[i - 1], i)
    IN  [scan[Len(buffer) - 1].buffer EXCEPT ![1] = 0]

\* what the checksum covers
PacketBody(header, id, offset, payload) ==
    EncodeHeader(header)
    \o SubSeq(id, 1, header.id_len)
    \o (IF header.offset = 1 THEN LittleEndian(offset) ELSE << >>)
    \o SubSeq(payload, offset + 1, offset + header.data_len)

\* the bytes encode_packet hands to the output callback
EncodePacket(header, id, offset, payload) ==
    LET body == PacketBody(header, id, offset, payload)
    IN  EncodeFraming(<<0, 0>> \o body \o LittleEndian(CrcOf(body)) \o <<0>>)

-----------------------------------------------------------------------------
(* Decoder *)

IdIndex   == 0 .. EUI_MAX_MSGID_SIZE - 1
DataIndex == 0 .. PAYLOAD_SIZE_MAX - 1

\* eui_packet_t, the parser's bitfields included
Packet == [ state : ParseStates, id_bytes_in : Bits4, data_bytes_in : Bits10,
            frame_offset : Byte, header : Header, id_in : [IdIndex -> Byte],
            offset_in : Word, crc_in : Word, data_in : [DataIndex -> Byte] ]

\* memset( &packet, 0, sizeof(eui_packet_t) ), also the initial static value
ZeroPacket ==
    [ state |-> exp_frame_offset, id_bytes_in |-> 0, data_bytes_in |-> 0,
      frame_offset |-> 0, header |-> ZeroHeader, id_in |-> [i \in IdIndex |-> 0],
      offset_in |-> 0, crc_in |-> 0, data_in |-> [i \in DataIndex |-> 0] ]

Result(packet, status) == [packet |-> packet, status |-> status]
Continue(packet)       == Result(packet, EUI_PARSER_IDLE)

ExpHeaderB1(b, p) ==
    Continue([p EXCEPT !.header = [@ EXCEPT !.data_len = b], !.state = exp_header_b2])

ExpHeaderB2(b, p) ==
    LET header == [p.header EXCEPT !.data_len = @ + (b % 4) * 256,
                                   !.type     = (b \div 4) % 16,
                                   !.internal = (b \div 64) % 2,
                                   !.offset   = b \div 128]
    IN  Continue([p EXCEPT !.header = header, !.state = exp_header_b3])

ExpHeaderB3(b, p) ==
    LET header == [p.header EXCEPT !.id_len   = b % 16,
                                   !.response = (b \div 16) % 2,
                                   !.acknum   = b \div 32]
    IN  Continue([p EXCEPT !.header = header, !.state = exp_message_id])

\* what follows an identifier
AfterId(header) ==
    CASE header.offset = 1 -> exp_offset_b1
      [] header.offset = 0 /\ header.data_len > 0 -> exp_data
      [] OTHER -> exp_crc_b1

\* slips in the next definition: one byte too many is taken, no terminator is
\* written and the end of the buffer is not noticed
ExpMessageIdOneMore(b, p) ==
    LET next   == (p.id_bytes_in + 1) % 16
        filled == [p EXCEPT !.id_in = [@ EXCEPT ![p.id_bytes_in] = b], !.id_bytes_in = next]
    IN  Continue(IF next > p.header.id_len
                 THEN [filled EXCEPT !.id_in = [@ EXCEPT ![next] = 0],
                                     !.state = AfterId(p.header)]
                 ELSE filled)
ExpMessageIdUnterminated(b, p) ==
    LET next   == (p.id_bytes_in + 1) % 16
        filled == [p EXCEPT !.id_in = [@ EXCEPT ![p.id_bytes_in] = b], !.id_bytes_in = next]
    IN  Continue(IF next >= p.header.id_len
                 THEN [filled EXCEPT !.state = AfterId(p.header)] ELSE filled)

\* id_bytes_in is 4 bits wide, so the terminator index wraps with it
ExpMessageId(b, p) ==
    LET next   == (p.id_bytes_in + 1) % 16
        filled == [p EXCEPT !.id_in = [@ EXCEPT ![p.id_bytes_in] = b], !.id_bytes_in = next]
    IN  IF next >= p.header.id_len
        THEN Continue([filled EXCEPT
                 !.id_in = [@ EXCEPT ![next] = 0], !.state = AfterId(p.header)])
        ELSE Continue(filled)

ExpOffsetB1(b, p) == Continue([p EXCEPT !.offset_in = b, !.state = exp_offset_b2])

ExpOffsetB2(b, p) == Continue([p EXCEPT !.offset_in = @ + b * 256, !.state = exp_data])

\* data_in[data_bytes_in++] = byte_in, and only then the limit on what was received
ExpDataUpTo(limit, b, p) ==
    LET next == (p.data_bytes_in + 1) % 1024
    IN  Continue([p EXCEPT
            !.data_in = IF p.data_bytes_in \in DataIndex
                        THEN [@ EXCEPT ![p.data_bytes_in] = b] ELSE @,
            !.data_bytes_in = next,
            !.state = IF next >= p.header.data_len \/ next >= limit
                      THEN exp_crc_b1 ELSE @])

\* slips in the next definition: the limit is taken one byte too early, or too late
ExpDataShort(b, p) == ExpDataUpTo(PAYLOAD_SIZE_MAX - 1, b, p)
ExpDataPast(b, p)  == ExpDataUpTo(PAYLOAD_SIZE_MAX + 1, b, p)

\* The index is that of the byte, whatever it was before the frame: past data_in the
\* store goes behind the packet.  What lies there is not part of eui_packet_t, whose
\* own fields stay as they are; Receiver says when this happens.
ExpData(b, p) == ExpDataUpTo(PAYLOAD_SIZE_MAX, b, p)

ExpCrcB1(b, p) ==
    IF b = p.crc_in % 256 THEN Continue([p EXCEPT !.state = exp_crc_b2])
                          ELSE Result(p, EUI_PARSER_ERROR)

ExpCrcB2(b, p) ==
    Result(p, IF b = p.crc_in \div 256 THEN EUI_PARSER_OK ELSE EUI_PARSER_ERROR)

ParseDecodedPacket(b, p) ==
    CASE p.state = exp_frame_offset -> Continue([p EXCEPT !.state = exp_header_b1])
      [] p.state = exp_header_b1    -> ExpHeaderB1(b, p)
      [] p.state = exp_header_b2    -> ExpHeaderB2(b, p)
      [] p.state = exp_header_b3    -> ExpHeaderB3(b, p)
      [] p.state = exp_message_id   -> ExpMessageId(b, p)
      [] p.state = exp_offset_b1    -> ExpOffsetB1(b, p)
      [] p.state = exp_offset_b2    -> ExpOffsetB2(b, p)
      [] p.state = exp_data         -> ExpData(b, p)
      [] p.state = exp_crc_b1       -> ExpCrcB1(b, p)
      [] p.state = exp_crc_b2       -> ExpCrcB2(b, p)
      [] OTHER                      -> Result(p, EUI_PARSER_ERROR)

\* a slip in the next definition: the code byte is taken for a byte of the block
UnstuffLate(b, p) ==
    IF p.frame_offset > 0 THEN [byte |-> b, frame_offset |-> p.frame_offset - 1]
                          ELSE [byte |-> 0, frame_offset |-> b]

\* the COBS layer: count down to the next code byte, which stands for a zero
Unstuff(b, p) ==
    IF p.frame_offset > 1 THEN [byte |-> b, frame_offset |-> p.frame_offset - 1]
                          ELSE [byte |-> 0, frame_offset |-> b]

\* a slip in the next definition: a new frame does not start a new checksum
DecodePacketOldCrc(b, p) ==
    IF b = 0
    THEN Continue([p EXCEPT !.state = exp_frame_offset])
    ELSE LET u == Unstuff(b, p)
         IN  ParseDecodedPacket(u.byte,
                [p EXCEPT !.frame_offset = u.frame_offset,
                          !.crc_in = IF exp_frame_offset < p.state /\ p.state < exp_crc_b1
                                     THEN Crc16(u.byte, @) ELSE @])

DecodePacket(b, p) ==
    IF b = 0
    THEN Continue([p EXCEPT !.state = exp_frame_offset, !.crc_in = 65535])
    ELSE LET u == Unstuff(b, p)
         IN  ParseDecodedPacket(u.byte,
                [p EXCEPT !.frame_offset = u.frame_offset,
                          !.crc_in = IF exp_frame_offset < p.state /\ p.state < exp_crc_b1
                                     THEN Crc16(u.byte, @) ELSE @])
=============================================================================
