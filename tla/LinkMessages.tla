---------------------------- MODULE LinkMessages ----------------------------
(* Packets as the handlers of electricui.c see them, before encoding and after *)
(* decoding, and what one call of eui_parse does to the parser's packet.       *)
EXTENDS BinaryTransport, SequencesExt

\* a message as the handlers of electricui.c see it once the packet is decoded
Message == [ internal : Bit, response : Bit, acknum : Bits3, type : Bits4,
             offset : Bit, offset_in : Word, id : Seq(Byte), data : Seq(Byte) ]

\* what the handlers of electricui.c encode for a peer of the same configuration:
\* an id of 1 to 15 characters, a payload that fits, an address only with the flag
Sendable(m) ==
    /\ m \in Message
    /\ Len(m.id) \in 1..15 /\ 0 \notin ToSet(m.id)
    /\ Len(m.data) \in 0..PAYLOAD_SIZE_MAX
    /\ m.offset = 0 => m.offset_in = 0

HeaderOf(m) == [ data_len |-> Len(m.data), type |-> m.type,
                 internal |-> m.internal, offset |-> m.offset,
                 id_len |-> Len(m.id), response |-> m.response, acknum |-> m.acknum ]

\* a message holds the slice itself, so the payload the encoder reads at the offset is
\* padded in front of it
Padded(m) == [i \in 1..m.offset_in |-> 0] \o m.data

\* what the checksum of a message covers, and the bytes of its frame
BodyOf(m) == PacketBody(HeaderOf(m), m.id, m.offset_in, Padded(m))
Frame(m)  == EncodePacket(HeaderOf(m), m.id, m.offset_in, Padded(m))

\* what arrives as it was sent: a slice has at least a byte (the parser takes one), and
\* with the checksum there are no 255 bytes in a row without a zero
Deliverable(m) ==
    /\ Sendable(m)
    /\ m.offset = 1 => m.data # << >>
    /\ LET bytes == BodyOf(m) \o LittleEndian(CrcOf(BodyOf(m)))
       IN  \A k \in 0 .. Len(bytes) - 255 : \E j \in k + 1 .. k + 255 : bytes[j] = 0

\* the C string in a buffer: up to its first zero
CString(buffer) ==
    LET end == CHOOSE n \in 0..EUI_MAX_MSGID_SIZE :
                 /\ n = EUI_MAX_MSGID_SIZE \/ buffer[n] = 0
                 /\ \A k \in 0..(n - 1) : buffer[k] # 0
    IN  [i \in 1..end |-> buffer[i - 1]]

\* what the handlers read of an accepted packet: data_len bytes from data_in (of a
\* packet that announces more than data_in holds, the ones that data_in holds)
Decoded(p) ==
    [ internal |-> p.header.internal, response |-> p.header.response,
      acknum |-> p.header.acknum, type |-> p.header.type,
      offset |-> p.header.offset, offset_in |-> p.offset_in,
      id |-> CString(p.id_in),
      data |-> [i \in {n \in 1..p.header.data_len : n <= PAYLOAD_SIZE_MAX} |-> p.data_in[i - 1]] ]

\* slips in the next definition: the packet is not cleared once it was handled, or
\* when it did not check; packets that do not check are handed over as well
ParseByteKeepsHandled(b, p) ==
    LET step == DecodePacket(b, p)
    IN  [ packet   |-> IF step.status = EUI_PARSER_ERROR THEN ZeroPacket ELSE step.packet,
          accepted |-> IF step.status = EUI_PARSER_OK THEN <<step.packet>> ELSE << >> ]
ParseByteKeepsFailed(b, p) ==
    LET step == DecodePacket(b, p)
    IN  [ packet   |-> IF step.status = EUI_PARSER_OK THEN ZeroPacket ELSE step.packet,
          accepted |-> IF step.status = EUI_PARSER_OK THEN <<step.packet>> ELSE << >> ]
ParseByteHandsFailed(b, p) ==
    LET step == DecodePacket(b, p)
    IN  [ packet   |-> step.packet,
          accepted |-> IF step.status # EUI_PARSER_IDLE THEN <<step.packet>> ELSE << >> ]

\* the part of eui_parse every link shares: decode the byte, hand an accepted
\* packet to the handlers, clear the packet unless the parser is still idle
ParseByte(b, p) ==
    LET step == DecodePacket(b, p)
    IN  [ packet   |-> IF step.status = EUI_PARSER_IDLE THEN step.packet ELSE ZeroPacket,
          accepted |-> IF step.status = EUI_PARSER_OK THEN <<step.packet>> ELSE << >> ]

\* the packets accepted by one call, as the handlers read them
Handed(step) == [i \in DOMAIN step.accepted |-> Decoded(step.accepted[i])]
=============================================================================
