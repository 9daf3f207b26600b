---------------------------- MODULE OffsetSlices ----------------------------
(* What the loop of eui_send_range sends, as one value: SendRange shows that   *)
(* the loop computes it, ElectricUI uses it inside a call.                     *)
EXTENDS BinaryTransport

Lesser(a, b)  == IF a < b THEN a ELSE b

\* a slip in the next definition: what does not fill a payload is not sent
SlicesWhole(base, end) ==
    LET count == IF end > base THEN (end - base) \div PAYLOAD_SIZE_MAX ELSE 0
    IN  [k \in 1..count |-> [start |-> end - k * PAYLOAD_SIZE_MAX,
                             end   |-> end - (k - 1) * PAYLOAD_SIZE_MAX]]

\* the slices of [base, end) that the loop of eui_send_range sends, last one first
Slices(base, end) ==
    LET count   == IF end > base THEN (end - base + PAYLOAD_SIZE_MAX - 1) \div PAYLOAD_SIZE_MAX ELSE 0
        upto(k) == end - (k - 1) * PAYLOAD_SIZE_MAX
    IN  [k \in 1..count |->
            LET length == Lesser(PAYLOAD_SIZE_MAX, upto(k) - base)
            IN  [start |-> upto(k) - length, end |-> upto(k)]]
=============================================================================
