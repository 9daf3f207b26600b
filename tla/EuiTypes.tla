------------------------------ MODULE EuiTypes ------------------------------
(* The enumerations and field widths shared by every module: eui_types.h,      *)
(* the parser states of eui_binary_transport.h and the flags of eui_config.h.  *)
EXTENDS Integers

Byte   == 0..255        \* uint8_t
Word   == 0..65535      \* uint16_t
Bit    == 0..1          \* bitfields of 1, 3, 4 and 10 bits
Bits3  == 0..7
Bits4  == 0..15
Bits10 == 0..1023

EUI_MAX_MSGID_SIZE == 16

\* enum parseStates: the order matters, decode_packet compares states with <
exp_frame_offset == 0
exp_header_b1    == 1
exp_header_b2    == 2
exp_header_b3    == 3
exp_message_id   == 4
exp_offset_b1    == 5
exp_offset_b2    == 6
exp_data         == 7
exp_crc_b1       == 8
exp_crc_b2       == 9
ParseStates      == exp_frame_offset .. exp_crc_b2

\* enum eui_parse_errors
EUI_PARSER_OK    == "EUI_PARSER_OK"
EUI_PARSER_IDLE  == "EUI_PARSER_IDLE"
EUI_PARSER_ERROR == "EUI_PARSER_ERROR"

\* enum eui_type
TYPE_CALLBACK        == 0
TYPE_CUSTOM          == 1
TYPE_OFFSET_METADATA == 2
TYPE_BYTE            == 3
TYPE_CHAR            == 4
TYPE_INT8            == 5
TYPE_UINT8           == 6
TYPE_INT16           == 7
TYPE_UINT16          == 8
TYPE_INT32           == 9
TYPE_UINT32          == 10
TYPE_FLOAT           == 11
TYPE_DOUBLE          == 12

\* eui_header_t: every field is a bitfield of this width
Header == [ data_len : Bits10, type : Bits4, internal : Bit, offset : Bit,
            id_len : Bits4, response : Bit, acknum : Bits3 ]

ZeroHeader == [ data_len |-> 0, type |-> 0, internal |-> 0, offset |-> 0,
                id_len |-> 0, response |-> 0, acknum |-> 0 ]
=============================================================================
