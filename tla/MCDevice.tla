------------------------------ MODULE MCDevice ------------------------------
(* Two links that query and write the same word of a small device.            *)
EXTENDS Device

CONSTANTS L1, L2

TwoLinks == <<L1, L2>>

DeviceMemory == [speed |-> <<9, 9>>]

Array == << Obj(<<97>>, TYPE_UINT16, FALSE, "speed") >>

OneArray == {Array}

Speed(response, acknum, data) ==
    [Simple(0, TYPE_UINT16, <<97>>, data) EXCEPT !.response = response, !.acknum = acknum]

Requests == { Speed(1, 0, << >>), Speed(1, 5, <<0, 7>>) }

\* two packets in a row on one link, while one comes in on the other
TwoAndOne == [link \in {L1, L2} |-> IF link = L1 THEN 2 ELSE 1]

NoFunctions == << >>

\* a broken packet is reported on the link of the last good one
DeviceReports ==
    [ EUI_CB_TRACKED |-> << >>, EUI_CB_UNTRACKED |-> << >>,
      EUI_CB_PARSE_FAIL |-> <<Obj(<<101>>, TYPE_UINT16, FALSE, "speed")>> ]

NoGarbage == {[action |-> 0, ack |-> 0, query |-> 0]}

Nothing == {}
=============================================================================
