--------------------------- MODULE MCLinkRecovery ---------------------------
(* What a UI sends again and again: the heartbeat of the internal namespace,   *)
(* the query of a variable of the examples, the values of a slider.            *)
EXTENDS LinkRecovery

Msg(id, internal, type, response, acknum, data) ==
    [ internal |-> internal, response |-> response, acknum |-> acknum, type |-> type,
      offset |-> 0, offset_in |-> 0, id |-> id, data |-> data ]

Heartbeat == Msg(<<104>>, 1, TYPE_UINT8, 1, 0, << >>)                    \* "h"
NameQuery == Msg(<<110, 97, 109, 101>>, 0, TYPE_CHAR, 1, 0, << >>)       \* "name"
Write     == Msg(<<98>>, 0, TYPE_UINT8, 0, 0, <<5>>)
AckWrite  == Msg(<<97, 98>>, 0, TYPE_CUSTOM, 1, 3, <<0, 7>>)

Nothing == {}

UserWrites == {Write, AckWrite}
=============================================================================
