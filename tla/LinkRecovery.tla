---------------------------- MODULE LinkRecovery ----------------------------
(* A peer that keeps sending (the UI's heartbeat queries, the values of a      *)
(* slider) over a line that loses some bytes and then behaves: is anything     *)
(* made up of the bytes that are left, what becomes of the frames that lost    *)
(* nothing, and does the parser find its way back to the frame boundaries?     *)
(* The history covers the arriving frame only, so behaviours may go on forever *)
(* in a finite state space.                                                    *)
EXTENDS LinkMessages

CONSTANTS
    Regular,        \* the message the peer keeps sending
    Occasional,     \* the messages it sends now and then
    MaxOccasional,  \* bound: occasional messages in a behaviour
    MaxFaults       \* bound: runs of bytes lost

Messages == {Regular} \cup Occasional

ASSUME MessagesAssumption == \A m \in Messages : Sendable(m)
ASSUME BoundsAssumption == MaxOccasional \in Nat /\ MaxFaults \in Nat

VARIABLES
    rx,             \* the bytes of the arriving frame not yet given to eui_parse
    packet,         \* eui_packet_t of the receiving interface
    accepted,       \* the packets eui_parse accepted during this frame
    arriving,       \* history: the message of this frame
    intact,         \* history: it met a parser between packets and no byte was lost
    occasions,      \* occasional messages so far
    faults          \* runs of bytes lost so far

frame_vars == <<arriving, intact>>

vars == <<rx, packet, accepted, frame_vars, occasions, faults>>

\* the parser is between packets: as memset leaves it, or with the checksum reset
Between(p) == p \in {ZeroPacket, [ZeroPacket EXCEPT !.crc_in = 65535]}

FrameOf == [m \in Messages |-> Frame(m)]

Init ==
    /\ rx = FrameOf[Regular]
    /\ packet = ZeroPacket
    /\ accepted = << >>
    /\ arriving = Regular
    /\ intact = TRUE
    /\ occasions = 0
    /\ faults = 0

\* the peer's timer fires, or its user does something
Send(m) ==
    /\ rx = << >>
    /\ rx' = FrameOf[m]
    /\ accepted' = << >>
    /\ arriving' = m
    /\ intact' = Between(packet)
    /\ UNCHANGED <<packet, faults>>

SendRegular == Send(Regular) /\ UNCHANGED occasions

SendOccasional ==
    /\ occasions < MaxOccasional
    /\ occasions' = occasions + 1
    /\ \E m \in Occasional : Send(m)

\* the main loop reads the next byte
Poll == rx # << >> /\ rx' = Tail(rx) /\ UNCHANGED <<frame_vars, occasions, faults>>

\* and calls eui_parse with it
EuiParse ==
    /\ Poll
    /\ LET step == ParseByte(Head(rx), packet)
       IN  packet' = step.packet /\ accepted' = accepted \o Handed(step)

\* the next n bytes never reach eui_parse: an overrun of the receive buffer, a
\* receiver that was not polled in time, a cable or a peer that went away
LoseBytes(n) ==
    /\ faults < MaxFaults
    /\ faults' = faults + 1
    /\ rx' = SubSeq(rx, n + 1, Len(rx))
    /\ intact' = FALSE
    /\ UNCHANGED <<packet, accepted, arriving, occasions>>

Next == SendRegular \/ SendOccasional \/ EuiParse \/ \E n \in 1..Len(rx) : LoseBytes(n)

\* the peer's timer keeps firing and the main loop keeps polling (a step of Next that
\* takes the head of rx and is no fault is an EuiParse)
Spec == Init /\ [][Next]_vars /\ WF_vars(SendRegular) /\ WF_<<rx, faults>>(Poll)

-----------------------------------------------------------------------------
(* Properties *)

\* What a loss cannot forge: no frame turns into two packets, and the header fields the
\* handlers dispatch on (response, ack number, type, namespace, payload length) are those
\* of a message that was sent.
PacketsAreGenuine ==
    /\ Len(accepted) <= 1
    /\ \A i \in DOMAIN accepted : \E m \in Messages :
          /\ accepted[i].internal = m.internal /\ accepted[i].response = m.response
          /\ accepted[i].acknum = m.acknum /\ accepted[i].type = m.type
          /\ accepted[i].offset = m.offset /\ Len(accepted[i].data) = Len(m.data)

\* A loss costs no frame but those until the parser is between packets at the start of
\* one: such a frame, if it loses nothing itself, is handed over, alone and unchanged, and
\* leaves the parser between packets again, so that the next frame is heard as well.
WholeFramesAreHeard ==
    rx = << >> /\ intact => accepted = <<arriving>> /\ Between(packet)

\* The parser returns to the frame boundaries by itself: since the line only
\* fails finitely often, messages of the peer are accepted again and again.
Resynchronises == []<>(accepted # << >>)
=============================================================================
