----------------------------- MODULE SerialLink -----------------------------
(* A sender, a serial line and the receiving side of eui_parse.  The sender    *)
(* hands whole frames to its output callback; the line carries them in order;  *)
(* the receiver is polled one byte at a time.  This line loses nothing; one     *)
(* that does is LinkRecovery.                                                  *)
EXTENDS LinkMessages

CONSTANTS
    Messages,       \* what the sender may send
    MaxSent         \* bound: messages sent in a behaviour

ASSUME BoundsAssumption == MaxSent \in Nat

ASSUME MessagesAssumption == \A m \in Messages : Deliverable(m)

VARIABLES
    sent,           \* the messages handed to the output callback, in order
    line,           \* frames on the line that no byte of has arrived yet
    rx,             \* the bytes of the arriving frame not yet given to eui_parse
    packet,         \* eui_packet_t of the receiving interface
    delivered       \* the packets eui_parse accepted, in order

vars == <<sent, line, rx, packet, delivered>>

Frames == [m \in Messages |-> Frame(m)]

-----------------------------------------------------------------------------
Init ==
    /\ sent = << >>
    /\ line = << >>
    /\ rx = << >>
    /\ packet = ZeroPacket
    /\ delivered = << >>

\* encode_packet calls out_char once, with the whole frame
Send(m) ==
    /\ Len(sent) < MaxSent
    /\ sent' = Append(sent, m)
    /\ line' = Append(line, m)
    /\ UNCHANGED <<rx, packet, delivered>>

\* the next frame starts to come in
Arrive ==
    /\ rx = << >> /\ line # << >>
    /\ rx' = Frames[Head(line)]
    /\ line' = Tail(line)
    /\ UNCHANGED <<sent, packet, delivered>>

\* the main loop reads the next byte
Poll == rx # << >> /\ rx' = Tail(rx) /\ UNCHANGED <<sent, line>>

\* and calls eui_parse(inbound_byte, p_link) with it
EuiParse ==
    /\ Poll
    /\ LET step == ParseByte(Head(rx), packet)
       IN  packet' = step.packet /\ delivered' = delivered \o Handed(step)

Next == (\E m \in Messages : Send(m)) \/ Arrive \/ EuiParse

\* bytes on the line arrive and the main loop keeps polling them; nobody has to send.
\* The only step of Next that takes the head of rx is EuiParse.
Polling == WF_vars(Arrive) /\ WF_<<rx, line>>(Poll)

Spec == Init /\ [][Next]_vars /\ Polling

-----------------------------------------------------------------------------
(* Properties *)

\* Between two frames the decoder remembers nothing of the packets before: only
\* the checksum register, which the next 0x00 sets, may tell the states apart.
CleanBetweenFrames ==
    rx = << >> => packet \in {ZeroPacket, [ZeroPacket EXCEPT !.crc_in = 65535]}

\* the abstract first-in first-out channel: what is between the two callbacks (the
\* line, the bytes not polled, the parser) is hidden
Channel == INSTANCE PacketChannel
           WITH Messages <- Messages, MaxSent <- MaxSent, sent <- sent, delivered <- delivered

\* On a line that loses nothing the link is a reliable channel of packets.
IsReliableChannel == Channel!Spec
=============================================================================
