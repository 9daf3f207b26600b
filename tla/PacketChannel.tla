---------------------------- MODULE PacketChannel ----------------------------
(* What the binary transport promises on a line that loses nothing: every      *)
(* message handed to the output callback is delivered to the handlers of the   *)
(* peer, once, unchanged and in order.                                         *)
EXTENDS Naturals, Sequences

CONSTANTS Messages, MaxSent

VARIABLES sent, delivered

vars == <<sent, delivered>>

Init == sent = << >> /\ delivered = << >>

Send(m) ==
    /\ Len(sent) < MaxSent
    /\ sent' = Append(sent, m)
    /\ UNCHANGED delivered

Deliver ==
    /\ Len(delivered) < Len(sent)
    /\ delivered' = Append(delivered, sent[Len(delivered) + 1])
    /\ UNCHANGED sent

Next == (\E m \in Messages : Send(m)) \/ Deliver

Spec == Init /\ [][Next]_vars /\ WF_vars(Deliver)
=============================================================================
