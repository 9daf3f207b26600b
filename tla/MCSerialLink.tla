---------------------------- MODULE MCSerialLink ----------------------------
(* Small instances of SerialLink: a payload buffer of a few bytes and messages *)
(* that between them have every optional part and zero bytes at every layer.   *)
EXTENDS SerialLink

Msg(id, type, response, acknum, data) ==
    [ internal |-> 0, response |-> response, acknum |-> acknum, type |-> type,
      offset |-> 0, offset_in |-> 0, id |-> id, data |-> data ]
At(m, address) == [m EXCEPT !.offset = 1, !.offset_in = address]

Query    == Msg(<<97>>, TYPE_UINT8, 1, 0, << >>)             \* query of "a"
Write    == Msg(<<98>>, TYPE_UINT8, 0, 0, <<5>>)             \* write of "b"
AckWrite == Msg(<<97, 98>>, TYPE_CUSTOM, 1, 3, <<0, 7>>)     \* acknowledged write of "ab"
Slice    == At(Msg(<<98>>, TYPE_CUSTOM, 0, 0, <<9, 0>>), 1)  \* two bytes of "b" from 1 on
Beat     == [Msg(<<104>>, TYPE_UINT8, 1, 0, << >>) EXCEPT !.internal = 1]   \* heartbeat

\* every field of the header at its ends, the longest identifier, the edges of the
\* offset, and zeros at every place of a payload
LongId == [n \in 1..15 |-> 96 + n]

Variations ==
    { [Write EXCEPT !.data = data] : data \in {<<1, 0, 2>>, <<0, 1, 0>>, <<255, 255, 255>>} }
    \cup { [AckWrite EXCEPT !.acknum = 7, !.type = 15],
           [Beat EXCEPT !.id = LongId, !.response = 0, !.acknum = 7],
           At(Msg(LongId, 15, 1, 7, <<0>>), 256), At(Msg(<<97>>, TYPE_CUSTOM, 0, 0, <<0, 1, 0>>), 259),
           At(Msg(<<97>>, TYPE_CUSTOM, 0, 0, <<0>>), 0) }

AllMessages == {Query, Write, AckWrite, Slice, Beat} \cup Variations
=============================================================================
