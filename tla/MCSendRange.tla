---------------------------- MODULE MCSendRange ----------------------------
(* Requests for ranges of variables, of payloads of 304 bytes.                *)
EXTENDS SendRange

Types == {TYPE_CUSTOM, TYPE_UINT8, TYPE_INT16, TYPE_FLOAT, TYPE_DOUBLE}

\* variables of one element, and of less than a payload, a payload, more, and two
Sizes(type) == {TypeSize(type), 8, 304, 312, 608}

\* around the multiples of a payload and the ends of elements, and at the end of the
\* address width
Near == {0, 1, 3, 7, 8, 303, 304, 305, 312, 608, 609}
Far  == {65534, 65535}

\* The longest requests, from near to far, are few and of a variable of one element:
\* the slices do not depend on the variable.
AnyRequests ==
    UNION { {[base |-> base, end |-> end, type |-> type, size |-> size] :
                base \in Near, end \in Near, size \in Sizes(type)}
            \cup {[base |-> base, end |-> end, type |-> type, size |-> size] :
                base \in Far, end \in Near \cup Far, size \in Sizes(type)}
            \cup {[base |-> base, end |-> end, type |-> type, size |-> TypeSize(type)] :
                base \in {0, 7, 304}, end \in Far}
          : type \in Types }
=============================================================================
