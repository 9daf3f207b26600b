---------------------------- MODULE MCCobsFraming ----------------------------
(* Bodies whose runs without a zero reach up to the largest code byte.         *)
EXTENDS CobsFraming

Ramp(n) == [k \in 1..n |-> 1 + (k % 250)]

\* every placement of zeros in a short body, and one zero in the longest run
ShortBodies == UNION {[1..n -> {0, 7}] : n \in 1..6}
LongBodies  == {Ramp(n) : n \in {142, 253, 254}} \cup {[Ramp(300) EXCEPT ![k] = 0] : k \in {50, 255}}

FramedBodies   == ShortBodies \cup LongBodies
OverlongBodies == {Ramp(255)}
=============================================================================
