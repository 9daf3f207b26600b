------------------------------- MODULE Device -------------------------------
(* The whole device: one parser per link fed byte by byte (BinaryTransport),   *)
(* the handlers behind them (ElectricUI), and on each link a peer that writes  *)
(* frames.  No byte is lost.  The main loop polls the links in any order, so    *)
(* the bytes of packets on different links interleave.                         *)
EXTENDS ElectricUI

CONSTANTS
    MaxPackets      \* bound: packets sent by the peer, per link

ASSUME MaxPacketsAssumption == MaxPackets \in [Links -> Nat]

ASSUME DeliverableAssumption == \A m \in Inbound : Deliverable(m)

VARIABLES
    packet,         \* eui_packet_t of each link
    rx,             \* bytes of each link not polled yet
    posted,         \* packets the peer on each link sent, in order
    served          \* packets the handlers were given from each link, in order

device_vars == <<vars, packet, rx, posted, served>>

DeviceInit ==
    /\ Init
    /\ packet = [link \in Links |-> ZeroPacket]
    /\ rx = [link \in Links |-> << >>]
    /\ posted = [link \in Links |-> << >>]
    /\ served = [link \in Links |-> << >>]

\* the peer on a link sends a packet
Post(link, m) ==
    /\ Len(posted[link]) < MaxPackets[link]
    /\ rx[link] = << >>
    /\ rx' = [rx EXCEPT ![link] = Frame(m)]
    /\ posted' = [posted EXCEPT ![link] = Append(@, m)]
    /\ UNCHANGED <<vars, packet, served>>

\* the frame with another last byte before the zero that ends it
Damaged(m) == [Frame(m) EXCEPT ![Len(Frame(m)) - 1] = IF @ = 255 THEN 254 ELSE @ + 1]

\* a packet that arrives whole but for its last checksum byte: of damaged frames the ones
\* that the parser finds out at their end (of a checksum that ends with a zero the byte
\* is a code byte, which nothing checks: the packet would be accepted)
PostDamaged(link, m) ==
    /\ Len(posted[link]) < MaxPackets[link]
    /\ rx[link] = << >>
    /\ CrcOf(BodyOf(m)) \div 256 # 0
    /\ rx' = [rx EXCEPT ![link] = Damaged(m)]
    /\ UNCHANGED <<vars, packet, posted, served>>

\* a slip in the next definition: one eui_packet_t serves every link
PollShared(link) ==
    /\ rx[link] # << >>
    /\ LET shared == packet[Head(Interfaces)]
           byte   == Head(rx[link])
           status == DecodePacket(byte, shared).status
           step   == ParseByte(byte, shared)
       IN  /\ packet' = [packet EXCEPT ![Head(Interfaces)] = step.packet]
           /\ \/ /\ status = EUI_PARSER_OK
                 /\ EuiParseOk(link, Decoded(step.accepted[1]), step.accepted[1].data_bytes_in # 0)
                 /\ served' = [served EXCEPT ![link] = @ \o Handed(step)]
              \/ /\ status = EUI_PARSER_ERROR
                 /\ EuiParseError(link)
                 /\ UNCHANGED served
              \/ /\ status = EUI_PARSER_IDLE
                 /\ UNCHANGED <<vars, served>>
    /\ rx' = [rx EXCEPT ![link] = Tail(@)]
    /\ UNCHANGED posted

\* the main loop polls a byte of the link and calls eui_parse
Poll(link) ==
    /\ rx[link] # << >>
    /\ LET byte   == Head(rx[link])
           status == DecodePacket(byte, packet[link]).status
           step   == ParseByte(byte, packet[link])
       IN  /\ packet' = [packet EXCEPT ![link] = step.packet]
           /\ \/ /\ status = EUI_PARSER_OK
                 /\ EuiParseOk(link, Decoded(step.accepted[1]), step.accepted[1].data_bytes_in # 0)
                 /\ served' = [served EXCEPT ![link] = @ \o Handed(step)]
              \/ /\ status = EUI_PARSER_ERROR
                 /\ EuiParseError(link)
                 /\ UNCHANGED served
              \/ /\ status = EUI_PARSER_IDLE
                 /\ UNCHANGED <<vars, served>>
    /\ rx' = [rx EXCEPT ![link] = Tail(@)]
    /\ UNCHANGED posted

\* the application's calls, between two bytes
Main ==
    /\ Application \/ Setup
    /\ UNCHANGED <<packet, rx, posted, served>>

DeviceNext ==
    \/ \E link \in Links : (\E m \in Inbound : Post(link, m) \/ PostDamaged(link, m)) \/ Poll(link)
    \/ Main

DeviceSpec == DeviceInit /\ [][DeviceNext]_device_vars

-----------------------------------------------------------------------------
(* Properties *)

\* The parsers of the links are independent: whatever the interleaving of their
\* bytes, every call that completes a packet is a call of ElectricUI on a packet a
\* peer sent.
ImplementsElectricUI == Spec

\* A link whose bytes were all polled had each of its packets handled exactly once,
\* in order: neither the other link's bytes, nor the calls the application makes
\* between two bytes, nor a frame before it that does not check loses or repeats a
\* packet.  (A frame that loses bytes leaves some of itself in the parser and may lose
\* the next one: Receiver and LinkRecovery.)
ServedOnceInOrder ==
    \A link \in Links : rx[link] = << >> => served[link] = posted[link]

\* Bytes, frames that do not check and unfinished packets never move the default interface:
\* besides the setup calls only the packet a peer sent last does, to its own link.
DefaultFollowsPackets ==
    [][ interface_last' # interface_last /\ call'.op = "eui_parse" =>
            /\ interface_last' = call'.link
            /\ posted[call'.link] # << >>
            /\ call'.message = <<Last(posted[call'.link])>> ]_device_vars
=============================================================================
