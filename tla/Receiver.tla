------------------------------ MODULE Receiver ------------------------------
(* One interface's parser fed an arbitrary byte stream: what eui_parse keeps   *)
(* true of eui_packet_t whatever the line, the peer or another protocol on the *)
(* same wire does.                                                             *)
EXTENDS LinkMessages

CONSTANTS
    Alphabet,       \* bytes that may arrive, besides the two bytes of the checksum
    MaxBytes        \* bound: bytes received

ASSUME AlphabetAssumption == Alphabet \subseteq Byte
ASSUME MaxBytesAssumption == MaxBytes \in Nat

VARIABLES
    packet,         \* eui_packet_t of the interface
    accepted,       \* the packet the last call handed to the handlers, if any
    received,       \* bytes received so far
    \* history, which no action reads:
    leftover,       \* data_bytes_in where the frame being parsed began
    arrived         \* the payload bytes this frame has brought

history == <<leftover, arrived>>
vars == <<packet, accepted, received, history>>

Init ==
    /\ packet = ZeroPacket
    /\ accepted = << >>
    /\ received = 0
    /\ leftover = 0
    /\ arrived = << >>

\* In exp_frame_offset the parser is between two frames.
Note(b) ==
    /\ leftover' = IF packet.state = exp_frame_offset THEN packet.data_bytes_in ELSE leftover
    /\ arrived' = CASE packet.state = exp_frame_offset -> << >>
                    [] packet.state = exp_data /\ b # 0 -> Append(arrived, Unstuff(b, packet).byte)
                    [] OTHER -> arrived

\* eui_parse(b, p_link)
EuiParse(b) ==
    /\ received < MaxBytes
    /\ LET step == ParseByte(b, packet)
       IN  packet' = step.packet /\ accepted' = step.accepted
    /\ received' = received + 1
    /\ Note(b)

\* the bytes that make a checksum right, where one is expected
ChecksumBytes ==
    IF packet.state < exp_crc_b1 THEN {}
    ELSE {packet.crc_in % 256, packet.crc_in \div 256}

Next == \E b \in Alphabet \cup ChecksumBytes : EuiParse(b)

Spec == Init /\ [][Next]_vars

-----------------------------------------------------------------------------
(* Properties *)

\* The types: the fields of the parser stay in their widths and its state is one of
\* the switch's cases.
TypeOK ==
    /\ packet \in Packet
    /\ accepted \in Seq(Packet)
    /\ received \in 0..MaxBytes
    /\ leftover \in Bits10
    /\ arrived \in Seq(Byte)

\* Whatever arrived, the identifier the handlers search for ends inside id_in.
IdTerminated ==
    \A p \in ToSet(accepted) : \E n \in IdIndex : p.id_in[n] = 0

\* The bytes that the handlers read of an accepted packet's data_in, as many as its
\* header announces and data_in holds, are the ones its own frame brought, in order.
PayloadIsOwn ==
    \A p \in ToSet(accepted) : \A n \in 1..p.header.data_len :
        n <= PAYLOAD_SIZE_MAX => n \in DOMAIN arrived /\ p.data_in[n - 1] = arrived[n]

\* The next payload byte is stored inside data_in.
StoreIsInside == packet.state = exp_data => packet.data_bytes_in \in DataIndex

\* Both hold of a frame that begins with data_bytes_in at 0, as every frame after a
\* packet that checked or failed its checksum does, whatever bytes it is made of.
PayloadArrived == leftover = 0 => PayloadIsOwn
StoresInside   == leftover = 0 => StoreIsInside
=============================================================================
