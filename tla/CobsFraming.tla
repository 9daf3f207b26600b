----------------------------- MODULE CobsFraming -----------------------------
(* The loop of encode_framing over the buffer encode_packet prepares, one      *)
(* iteration a step, and then the receiver's countdown over the bytes it made. *)
(* Frames of any length are followed here without evaluating a checksum.       *)
EXTENDS BinaryTransport, SequencesExt

CONSTANT Bodies         \* the bytes between the framing: header to checksum

ASSUME BodiesAssumption == \A body \in Bodies : body \in Seq(Byte) /\ body # << >>

VARIABLES
    body,               \* what is framed
    buffer,             \* the encoder's pk_tmp, then the frame on the line
    index,              \* loop index of the encoder, then of the receiver
    previous_null,      \* where the current code byte goes
    frame_offset,       \* the receiver's countdown
    plain,              \* the bytes the receiver has restored
    pc                  \* "encode", "decode", "done"

framing_vars == <<body, buffer, index, previous_null, frame_offset, plain, pc>>

FramingInit ==
    /\ body \in Bodies
    /\ buffer = <<0, 0>> \o body \o <<0>>
    /\ index = 1
    /\ previous_null = 0
    /\ frame_offset = 0
    /\ plain = << >>
    /\ pc = "encode"

\* for( uint16_t i = 1; i < buf_size; i++ )
EncodeByte ==
    /\ pc = "encode" /\ index < Len(buffer)
    /\ LET s == FramingStep([buffer |-> buffer, previous_null |-> previous_null], index)
       IN  buffer' = s.buffer /\ previous_null' = s.previous_null
    /\ index' = index + 1
    /\ UNCHANGED <<body, frame_offset, plain, pc>>

\* buffer[0] = 0x00, and the output callback gets the buffer
Output ==
    /\ pc = "encode" /\ index = Len(buffer)
    /\ buffer' = [buffer EXCEPT ![1] = 0]
    /\ pc' = "decode"
    /\ index' = 1
    /\ UNCHANGED <<body, previous_null, frame_offset, plain>>

\* decode_packet after the 0x00 that starts the frame: the first byte is the
\* first code byte, each of the others stands for one byte of the body
DecodeByte ==
    /\ pc = "decode" /\ index < Len(buffer) /\ buffer[index + 1] # 0
    /\ LET u == Unstuff(buffer[index + 1], [frame_offset |-> frame_offset])
       IN  /\ frame_offset' = u.frame_offset
           /\ plain' = IF index = 1 THEN plain ELSE Append(plain, u.byte)
    /\ index' = index + 1
    /\ UNCHANGED <<body, buffer, previous_null, pc>>

\* the 0x00 that ends the frame, or no more bytes
EndOfFrame ==
    /\ pc = "decode"
    /\ index = Len(buffer) \/ buffer[index + 1] = 0
    /\ pc' = "done"
    /\ UNCHANGED <<body, buffer, index, previous_null, frame_offset, plain>>

FramingNext == EncodeByte \/ Output \/ DecodeByte \/ EndOfFrame

FramingSpec == FramingInit /\ [][FramingNext]_framing_vars /\ WF_framing_vars(FramingNext)

-----------------------------------------------------------------------------
(* Properties *)

\* The receiver's countdown restores exactly the bytes encode_framing was given.
RoundTrip == pc = "done" => plain = body

\* On the line a 0x00 only ever starts or ends a frame, and the frame has both.
ZeroOnlyDelimits ==
    pc # "encode" => {k \in DOMAIN buffer : buffer[k] = 0} = {1, Len(buffer)}
=============================================================================
