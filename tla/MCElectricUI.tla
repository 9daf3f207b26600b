--------------------------- MODULE MCElectricUI ---------------------------
(* Small devices for TLC: two links and a handful of variables.              *)
EXTENDS ElectricUI

CONSTANTS L1, L2

TwoLinks == <<L1, L2>>

a == <<97>>
b == <<98>>
c == <<99>>
d == <<100>>

Packet1(internal, response, acknum, type, id, data) ==
    [Simple(internal, type, id, data) EXCEPT !.response = response, !.acknum = acknum]

At(m, offset) == [m EXCEPT !.offset = 1, !.offset_in = offset]

\* a writable array larger than a payload, a word
DeviceMemory == [led |-> [n \in 1..46 |-> n], speed |-> <<9, 9>>]

\* the array, the word read-only, a callback, a null callback
DeviceArray ==
    << Obj(a, TYPE_UINT8, FALSE, "led"), Obj(b, TYPE_UINT16, TRUE, "speed"),
       Obj(c, TYPE_CALLBACK, TRUE, "blink"), Obj(d, TYPE_CALLBACK, TRUE, Null) >>

\* the same variables under other names, the word writable and the array not
OtherArray == << Obj(c, TYPE_UINT8, TRUE, "led"), Obj(b, TYPE_UINT16, FALSE, "speed") >>

Queries == {Packet1(0, 1, 0, TYPE_UINT8, id, << >>) : id \in {a, b, c, d}}

Writes ==
    {Packet1(0, r, k, TYPE_UINT8, a, <<8>>) : r \in {0, 1}, k \in {0, 1}}
    \cup {At(Packet1(0, 1, 7, TYPE_UINT8, a, <<8, 0>>), n) : n \in {44, 45}}
    \cup {At(Packet1(0, 1, k, TYPE_UINT16, b, <<8>>), 1) : k \in {0, 3}}
    \cup {Packet1(0, 1, 1, TYPE_UINT8, b, <<8>>)}
    \cup {At(Packet1(0, 1, 7, TYPE_UINT8, a, <<8, 0>>), 65535)}

Calls == {Packet1(0, r, k, TYPE_CALLBACK, id, << >>) : r \in {0, 1}, k \in {0, 2}, id \in {c}}
    \cup {Packet1(0, 1, 2, TYPE_CALLBACK, d, << >>)}

Ranges == {Packet1(0, 1, k, TYPE_OFFSET_METADATA, a, LittleEndian(n) \o LittleEndian(46)) :
              k \in {0, 1}, n \in {0, 2}}

Internals ==
    {Packet1(1, 0, 0, TYPE_CALLBACK, id, << >>) : id \in {EUI_INTERNAL_AM, EUI_INTERNAL_AV}}
    \cup {Packet1(1, 1, 1, TYPE_UINT8, EUI_INTERNAL_HEARTBEAT, <<5>>)}
    \cup {Packet1(1, 1, 1, TYPE_UINT8, EUI_INTERNAL_LIB_VER, <<5>>),
          Packet1(1, 1, 0, TYPE_UINT16, EUI_INTERNAL_BOARD_ID, << >>)}

DeviceInbound == Queries \cup Writes \cup Calls \cup Ranges \cup Internals

DeviceUpdates == {<<"led", DeviceMemory.led>>}

DeviceUntracked == {Obj(<<122>>, TYPE_UINT8, FALSE, "led")}

\* what eui_parse leaves unassigned is told apart from what it assigns
StackGarbage == {[action |-> 3, ack |-> 1, query |-> 3]}

\* the callback stores the word and shows it
DeviceFunctions == [blink |-> [stores |-> [speed |-> <<1, 0>>], sends |-> <<b>>]]

\* report_error of status-error-callbacks.ino
DeviceReports ==
    [ EUI_CB_TRACKED |-> << >>, EUI_CB_UNTRACKED |-> <<Obj(<<101>>, TYPE_UINT8, FALSE, "speed")>>,
      EUI_CB_PARSE_FAIL |-> <<Obj(<<101>>, TYPE_UINT8, FALSE, "speed")>> ]

DeviceUuids == {<<1, 2>>}

\* an array of variables whose ids are of these lengths
ArrayOf(lengths) ==
    [ k \in DOMAIN lengths |->
        Obj([n \in 1 .. lengths[k] |-> IF n = 1 THEN 64 + k ELSE 97], TYPE_UINT16, FALSE, "speed") ]

\* a list of exactly the 64 bytes of msgBuffer, one that the next terminator would
\* not fit into, and the rest
ListedArray == ArrayOf(<<15, 15, 15, 15, 15, 15, 15, 14, 1>>)

DeviceArrays == {DeviceArray, OtherArray, ListedArray}
=============================================================================
