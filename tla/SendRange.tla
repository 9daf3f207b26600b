------------------------------ MODULE SendRange ------------------------------
(* eui_send_range of electricui.c, one packet a step: the announcement of the  *)
(* range validate_offset_range makes of the request, then the slices, from the *)
(* end of the request backwards.                                              *)
EXTENDS OffsetSlices, FiniteSets

CONSTANTS
    Requests        \* [base, end, type, size]: the caller's range and the variable

\* of variables: a callback has no bytes to ask for
ASSUME RequestsAssumption ==
    /\ Requests \subseteq [base : Word, end : Word, type : Bits4, size : Word]
    /\ \A r \in Requests : r.size > 0 /\ r.size % TypeSize(r.type) = 0

VARIABLES
    request,        \* the arguments of the call
    announced,      \* data_range, once it was sent
    end_addr,       \* the argument the loop counts down
    sent            \* the slices sent, in order

vars == <<request, announced, end_addr, sent>>

Init ==
    /\ request \in Requests
    /\ announced = << >>
    /\ end_addr = request.end
    /\ sent = << >>

\* the metadata packet
Announce ==
    /\ announced = << >>
    /\ announced' = <<ValidateOffsetRange(request.base, request.end, request.type, request.size)>>
    /\ UNCHANGED <<request, end_addr, sent>>

\* slips in the next definition: a shorter payload, the last slice as long as the
\* others, the last byte not sent
SendSliceOf(most, kept) ==
    /\ announced # << >>
    /\ end_addr > request.base + kept
    /\ LET data_len == Lesser(PAYLOAD_SIZE_MAX, most)
           start    == (end_addr - data_len) % 65536
       IN  /\ end_addr' = start
           /\ sent' = Append(sent, [start |-> start, end |-> end_addr])
    /\ UNCHANGED <<request, announced>>
SendSliceShorter  == SendSliceOf(Lesser(PAYLOAD_SIZE_MAX - 1, end_addr - request.base), 0)
SendSliceAlways   == SendSliceOf(PAYLOAD_SIZE_MAX, 0)
SendSliceButLast  == SendSliceOf(end_addr - request.base, 1)

\* one iteration of the loop; data_len is a 10 bit field, end_addr a uint16_t
SendSlice ==
    /\ announced # << >>
    /\ end_addr > request.base
    /\ LET data_len == Lesser(PAYLOAD_SIZE_MAX, end_addr - request.base) % 1024
           start    == (end_addr - data_len) % 65536
       IN  /\ end_addr' = start
           /\ sent' = Append(sent, [start |-> start, end |-> end_addr])
    /\ UNCHANGED <<request, announced>>

Next == Announce \/ SendSlice

Spec == Init /\ [][Next]_vars /\ WF_vars(Next)

Returned == announced # << >> /\ end_addr <= request.base

-----------------------------------------------------------------------------
(* Properties *)

Slice == [start : Word, end : Word]

TypeOK ==
    /\ request \in Requests
    /\ announced \in Seq(Slice) /\ Len(announced) <= 1
    /\ end_addr \in Word
    /\ sent \in Seq(Slice)

\* The bytes of the variable that were sent.
SentBytes == UNION {sent[k].start .. (sent[k].end - 1) : k \in DOMAIN sent}

\* The slices follow one another downwards without a gap or an overlap, none is
\* empty or larger than a payload, and none starts before the range does: end_addr
\* never wraps past the base.
SlicesAbut ==
    \A k \in DOMAIN sent :
        /\ sent[k].start < sent[k].end /\ sent[k].end - sent[k].start <= PAYLOAD_SIZE_MAX
        /\ sent[k].start >= request.base
        /\ sent[k].end = IF k = 1 THEN request.end ELSE sent[k - 1].start

\* When the call returns, what went out is what the closed form says.
LoopSendsSlices == Returned => sent = Slices(request.base, request.end)

\* A request for whole elements of the variable, some at least.
OfElements ==
    /\ request.base < request.end /\ request.end <= request.size
    /\ request.base % TypeSize(request.type) = 0 /\ request.end % TypeSize(request.type) = 0

\* A receiver that asks for elements and collects the range it is announced gets all
\* of it and nothing else, and no element is split between two packets, as long as a
\* payload is a number of elements.
SendsWhatItAnnounces ==
    /\ Returned /\ OfElements => SentBytes = announced[1].start .. (announced[1].end - 1)
    /\ OfElements /\ PAYLOAD_SIZE_MAX % TypeSize(request.type) = 0 =>
          \A k \in DOMAIN sent : /\ sent[k].start % TypeSize(request.type) = 0
                                 /\ sent[k].end % TypeSize(request.type) = 0

\* The announced range lies in the variable, is not empty and is made of whole
\* elements, whatever was asked for.
AnnouncedInBounds ==
    announced # << >> => /\ announced[1].start < announced[1].end
                         /\ announced[1].end <= request.size
                         /\ announced[1].start % TypeSize(request.type) = 0
                         /\ announced[1].end % TypeSize(request.type) = 0

\* A call that has announced its range returns.
Returns == announced # << >> ~> Returned
=============================================================================
