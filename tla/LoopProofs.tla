----------------------------- MODULE LoopProofs -----------------------------
(* Two loops of electricui.c: eui_send_range for every request and every       *)
(* payload size, where what is left to send is always the gap between the last *)
(* slice and the base, and find_message_object for every array.                *)
EXTENDS SendRange, FindObject, TransportProofs

-----------------------------------------------------------------------------
(* The loop of eui_send_range *)

\* where the next slice ends
NextEnd == IF sent = << >> THEN request.end ELSE sent[Len(sent)].start

Remaining ==
    /\ end_addr = NextEnd
    /\ sent # << >> => request.base <= end_addr

IInv == TypeOK /\ SlicesAbut /\ Remaining

\* The announced range is a pair of words.
LEMMA RangeIsSlice ==
    ASSUME NEW base \in Word, NEW offset \in Word, NEW type, NEW size \in Word
    PROVE  ValidateOffsetRange(base, offset, type, size) \in Slice
<1> DEFINE range == ValidateOffsetRange(base, offset, type, size)
<1>1. range = [start |-> range.start, end |-> range.end]
      BY DEF ValidateOffsetRange
<1>2. range.start \in Word /\ range.end \in Word
      BY RangeType
<1> HIDE DEF range
<1>3. range \in Slice
      BY <1>1, <1>2 DEF Slice
<1> QED BY <1>3 DEF range

\* The loop is entered with the invariant.
LEMMA InitInv == Init => IInv
<1> SUFFICES ASSUME Init PROVE IInv
  OBVIOUS
<1>1. request.end \in Word
  BY RequestsAssumption DEF Init
<1> QED
  BY <1>1 DEF Init, IInv, TypeOK, SlicesAbut, Remaining, NextEnd

\* The announcement preserves it.
LEMMA AnnounceInv == IInv /\ Announce => IInv'
<1> SUFFICES ASSUME IInv, Announce PROVE IInv'
  OBVIOUS
<1> DEFINE range == ValidateOffsetRange(request.base, request.end, request.type, request.size)
<1>1. request.base \in Word /\ request.end \in Word /\ request.size \in Word
  BY RequestsAssumption DEF IInv, TypeOK
<1>2. range \in Slice
  BY <1>1, RangeIsSlice
<1>3. announced' = <<range>> /\ UNCHANGED <<request, end_addr, sent>>
  BY DEF Announce
<1> HIDE DEF range
<1>4. announced' \in Seq(Slice) /\ Len(announced') <= 1
  BY <1>2, <1>3
<1>5. TypeOK'
  BY <1>3, <1>4 DEF IInv, TypeOK
<1>6. SlicesAbut' /\ Remaining'
  BY <1>3 DEF IInv, SlicesAbut, Remaining, NextEnd
<1> QED
  BY <1>5, <1>6 DEF IInv

\* An iteration of the loop sends a slice that continues the ones before it: not
\* empty, since the 10 bits of data_len hold every payload length.
LEMMA SendSliceInv == IInv /\ SendSlice => IInv'
<1> SUFFICES ASSUME IInv, SendSlice PROVE IInv'
  OBVIOUS
<1> DEFINE base     == request.base
           data_len == Lesser(PAYLOAD_SIZE_MAX, end_addr - base) % 1024
           start    == (end_addr - data_len) % 65536
           slice    == [start |-> end_addr - data_len, end |-> end_addr]
<1>1. /\ end_addr' = start /\ sent' = Append(sent, [start |-> start, end |-> end_addr])
      /\ request' = request /\ announced' = announced /\ end_addr > base
  BY DEF SendSlice
<1>2. /\ base \in Int /\ 0 <= base /\ end_addr \in Int /\ end_addr <= 65535
      /\ PAYLOAD_SIZE_MAX \in Int /\ 1 <= PAYLOAD_SIZE_MAX /\ PAYLOAD_SIZE_MAX <= 1023
  BY WordDef, RequestsAssumption, PayloadAssumption DEF IInv, TypeOK
<1>3. /\ data_len \in Int /\ 0 < data_len
      /\ data_len <= PAYLOAD_SIZE_MAX /\ data_len <= end_addr - base
  <2> DEFINE length == Lesser(PAYLOAD_SIZE_MAX, end_addr - base)
  <2>1. end_addr > base
    BY <1>1
  <2>2. /\ length \in Int /\ 0 < length /\ length <= 1023
        /\ length <= PAYLOAD_SIZE_MAX /\ length <= end_addr - base
    BY <1>2, <2>1 DEF Lesser
  <2> HIDE DEF length
  <2>3. length % 1024 = length
    BY <2>2
  <2> QED
    BY <2>2, <2>3 DEF length
<1> HIDE DEF data_len
<1>4. end_addr' = end_addr - data_len /\ sent' = Append(sent, slice)
  <2>1. 0 <= end_addr - data_len /\ end_addr - data_len <= 65535
    BY <1>2, <1>3
  <2>2. start = end_addr - data_len
    BY <1>2, <1>3, <2>1
  <2> QED
    BY <1>1, <2>2
<1> HIDE DEF start
<1>5. slice \in Slice
  BY <1>2, <1>3, WordDef DEF Slice
<1>6. sent \in Seq(Slice)
  BY DEF IInv, TypeOK
<1>7. TypeOK'
  <2>1. end_addr' \in Word
    BY <1>2, <1>3, <1>4, WordDef
  <2>2. sent' \in Seq(Slice)
    BY <1>4, <1>5, <1>6
  <2> QED
    BY <1>1, <2>1, <2>2 DEF IInv, TypeOK
<1>8. /\ Len(sent') = Len(sent) + 1 /\ sent'[Len(sent) + 1] = slice
      /\ \A k \in 1..Len(sent) : sent'[k] = sent[k]
  BY <1>4, <1>5, <1>6
<1>9. slice.end = IF sent = << >> THEN request.end ELSE sent[Len(sent)].start
  BY DEF IInv, Remaining, NextEnd
<1>10. Remaining'
  <2>1. sent' # << >> /\ sent'[Len(sent')].start = end_addr'
    BY <1>4, <1>6, <1>8
  <2> QED
    BY <1>1, <1>2, <1>3, <1>4, <2>1 DEF Remaining, NextEnd
<1>11. SlicesAbut'
  <2> SUFFICES ASSUME NEW k \in 1..Len(sent')
               PROVE  /\ sent'[k].start < sent'[k].end
                      /\ sent'[k].end - sent'[k].start <= PAYLOAD_SIZE_MAX
                      /\ sent'[k].start >= request.base
                      /\ sent'[k].end = IF k = 1 THEN request.end ELSE sent'[k - 1].start
    BY <1>1, <1>7 DEF SlicesAbut, TypeOK
  <2>1. CASE k = Len(sent) + 1
    <3>1. sent'[k] = slice
      BY <1>8, <2>1
    <3>2. sent'[k].start < sent'[k].end /\ sent'[k].end - sent'[k].start <= PAYLOAD_SIZE_MAX
      BY <1>2, <1>3, <3>1
    <3>3. sent'[k].start >= request.base
      BY <1>2, <1>3, <3>1
    <3>4. sent'[k].end = IF k = 1 THEN request.end ELSE sent'[k - 1].start
      <4>1. CASE sent = << >>
        BY <1>9, <2>1, <3>1, <4>1
      <4>2. CASE sent # << >>
        <5>1. Len(sent) \in 1..Len(sent) /\ k - 1 = Len(sent) /\ k # 1
          BY <1>6, <2>1, <4>2
        <5> QED
          BY <1>8, <1>9, <3>1, <4>2, <5>1
      <4> QED
        BY <4>1, <4>2
    <3> QED
      BY <3>2, <3>3, <3>4
  <2>2. CASE k \in 1..Len(sent)
    <3>1. sent'[k] = sent[k] /\ (k # 1 => sent'[k - 1] = sent[k - 1])
      BY <1>6, <1>8, <2>2
    <3>2. /\ sent[k].start < sent[k].end /\ sent[k].end - sent[k].start <= PAYLOAD_SIZE_MAX
          /\ sent[k].start >= request.base
          /\ sent[k].end = IF k = 1 THEN request.end ELSE sent[k - 1].start
      BY <1>6, <2>2 DEF IInv, SlicesAbut
    <3> QED
      BY <3>1, <3>2
  <2> QED
    BY <1>6, <1>8, <2>1, <2>2
<1> QED
  BY <1>7, <1>10, <1>11 DEF IInv

\* Every step preserves it.
LEMMA NextInv == IInv /\ [Next]_vars => IInv'
<1>1. IInv /\ UNCHANGED vars => IInv'
  BY DEF vars, IInv, TypeOK, SlicesAbut, Remaining, NextEnd
<1> QED
  BY AnnounceInv, SendSliceInv, <1>1 DEF Next

\* The addresses of a transfer stay in the width of a uint16_t.
THEOREM TypeCorrect == Spec => []TypeOK
<1>1. IInv => TypeOK
  BY DEF IInv
<1> QED
  BY InitInv, NextInv, <1>1, PTL DEF Spec

\* Whatever range a peer asks for, the slices eui_send_range sends follow one
\* another without a gap or an overlap, down to the base, each of them a payload at most.
THEOREM SlicesFollow == Spec => []SlicesAbut
<1>1. IInv => SlicesAbut
  BY DEF IInv
<1> QED
  BY InitInv, NextInv, <1>1, PTL DEF Spec

-----------------------------------------------------------------------------
(* What the loop computes: the state says how far it got                       *)

P == PAYLOAD_SIZE_MAX

\* the announcement is the one validate_offset_range makes of the request
Announces ==
    announced # << >> =>
        announced = <<ValidateOffsetRange(request.base, request.end, request.type, request.size)>>

\* the slices so far are full, but for one that ends at the base
Counted ==
    /\ Len(sent) = 0 \/ request.end - (Len(sent) - 1) * P > request.base
    /\ \A k \in DOMAIN sent :
          /\ sent[k].end = request.end - (k - 1) * P
          /\ sent[k].start = sent[k].end - Lesser(P, sent[k].end - request.base)

\* they hold the bytes from the next end on
Gathered == end_addr <= request.end /\ SentBytes = end_addr .. (request.end - 1)

WholePayloads == OfElements /\ P % TypeSize(request.type) = 0

Aligned(addr) == addr % TypeSize(request.type) = 0

\* no element was split
Unsplit ==
    WholePayloads =>
        Aligned(end_addr) /\ \A k \in DOMAIN sent : Aligned(sent[k].start) /\ Aligned(sent[k].end)

Computed == Announces /\ Counted /\ Gathered /\ Unsplit

\* A number between two multiples, rounded up.
LEMMA RoundedUp ==
    ASSUME NEW x \in Int, NEW n \in Int, NEW p \in Int, 0 < p, (n - 1) * p < x, x <= n * p
    PROVE  (x + p - 1) \div p = n
<1> DEFINE y == x + p - 1
           q == y \div p
<1>1. y \in Int /\ q \in Int /\ q * p <= y /\ y < q * p + p
      OBVIOUS
<1>2. n * p <= y /\ y < n * p + p
      <2>1. (n - 1) * p = n * p - p
            OBVIOUS
      <2> QED BY <2>1
<1> HIDE DEF y, q
<1>3. ~(q <= n - 1)
      <2>1. q <= n - 1 => q * p <= (n - 1) * p
            BY <1>1
      <2>2. (n - 1) * p = n * p - p
            OBVIOUS
      <2> QED BY <1>1, <1>2, <2>1, <2>2
<1>4. ~(n <= q - 1)
      <2>1. n <= q - 1 => n * p <= (q - 1) * p
            BY <1>1
      <2>2. (q - 1) * p = q * p - p
            BY <1>1
      <2> QED BY <1>1, <1>2, <2>1, <2>2
<1>5. q = n
      BY <1>1, <1>3, <1>4
<1> QED BY <1>5 DEF q, y

\* The numbers of a request.
LEMMA RequestType ==
    ASSUME TypeOK
    PROVE  /\ request.base \in Int /\ 0 <= request.base /\ request.base <= 65535
           /\ request.end \in Int /\ 0 <= request.end /\ request.end <= 65535
           /\ request.size \in Int /\ 0 < request.size /\ request.size <= 65535
           /\ request.size % TypeSize(request.type) = 0
           /\ end_addr \in Int /\ P \in Int /\ 1 <= P /\ P <= 1023
<1>1. request \in Requests /\ end_addr \in Word
      BY DEF TypeOK
<1>2. request.base \in Word /\ request.end \in Word /\ request.size \in Word
      BY <1>1, RequestsAssumption
<1> QED BY <1>1, <1>2, WordDef, RequestsAssumption, PayloadAssumption DEF P

\* Before the call nothing is computed.
LEMMA InitComputed == Init => Computed
<1> SUFFICES ASSUME Init PROVE Computed
      OBVIOUS
<1>1. request \in Requests /\ announced = << >> /\ end_addr = request.end /\ sent = << >>
      BY DEF Init
<1>2. request.end \in Int /\ request.end % TypeSize(request.type) \in Int
      <2>1. request.end \in Word
            BY <1>1, RequestsAssumption
      <2> QED BY <2>1, WordDef, TypeSizes
<1>3. SentBytes = {}
      BY <1>1 DEF SentBytes
<1>4. Gathered
      BY <1>1, <1>2, <1>3 DEF Gathered
<1>5. Announces /\ Counted
      BY <1>1 DEF Announces, Counted
<1>6. Unsplit
      BY <1>1 DEF Unsplit, WholePayloads, Aligned, OfElements
<1> QED BY <1>4, <1>5, <1>6 DEF Computed

\* The announcement leaves the loop where it is.
LEMMA AnnounceComputed == Computed /\ Announce => Computed'
<1> SUFFICES ASSUME Computed, Announce PROVE Computed'
      OBVIOUS
<1>1. UNCHANGED <<request, end_addr, sent>>
      BY DEF Announce
<1>2. Announces'
      BY DEF Announce, Announces
<1>3. Counted' /\ Gathered' /\ Unsplit'
      BY <1>1 DEF Computed, Counted, Gathered, Unsplit, SentBytes, WholePayloads, OfElements, Aligned
<1> QED BY <1>2, <1>3 DEF Computed

\* What an iteration sends.
LEMMA Iteration ==
    ASSUME TypeOK, SendSlice
    PROVE  LET length == Lesser(P, end_addr - request.base)
               slice  == [start |-> end_addr - length, end |-> end_addr]
           IN  /\ request' = request /\ announced' = announced /\ end_addr > request.base
               /\ length \in Int /\ 0 < length /\ length <= P /\ length <= end_addr - request.base
               /\ end_addr' = end_addr - length /\ sent' = Append(sent, slice)
               /\ Len(sent) \in Nat /\ Len(sent') = Len(sent) + 1
               /\ DOMAIN sent = 1 .. Len(sent) /\ DOMAIN sent' = 1 .. Len(sent) + 1
               /\ sent'[Len(sent) + 1] = slice /\ \A k \in DOMAIN sent : sent'[k] = sent[k]
<1> DEFINE length == Lesser(P, end_addr - request.base)
           slice  == [start |-> end_addr - length, end |-> end_addr]
<1>1. /\ length \in Int /\ 0 < length /\ length <= P /\ length <= end_addr - request.base
      /\ length <= 1023 /\ end_addr > request.base
      <2>1. end_addr > request.base
            BY DEF SendSlice
      <2> QED BY <2>1, RequestType DEF Lesser
<1> HIDE DEF length
<1>2. length % 1024 = length
      BY <1>1
<1>3. end_addr' = end_addr - length /\ sent' = Append(sent, slice) /\ UNCHANGED <<request, announced>>
      <2> DEFINE start == (end_addr - (length % 1024)) % 65536
      <2>1. /\ end_addr' = start /\ sent' = Append(sent, [start |-> start, end |-> end_addr])
            /\ UNCHANGED <<request, announced>>
            BY DEF SendSlice, P, length
      <2>2. end_addr \in Int /\ end_addr <= 65535 /\ 0 <= end_addr - length
            <3>1. end_addr \in Word
                  BY DEF TypeOK
            <3> QED BY <1>1, <3>1, RequestType, WordDef
      <2>3. start = end_addr - length
            BY <1>1, <1>2, <2>2
      <2> HIDE DEF start
      <2> QED BY <2>1, <2>3
<1> HIDE DEF slice
<1>4. sent \in Seq(Slice)
      BY DEF TypeOK
<1>5. /\ Len(sent) \in Nat /\ Len(sent') = Len(sent) + 1
      /\ DOMAIN sent = 1 .. Len(sent) /\ DOMAIN sent' = 1 .. Len(sent) + 1
      /\ sent'[Len(sent) + 1] = slice /\ \A k \in DOMAIN sent : sent'[k] = sent[k]
      BY <1>3, <1>4
<1> QED BY <1>1, <1>3, <1>5 DEF length, slice

\* The next slice ends where the count says.
LEMMA SliceCounted == TypeOK /\ SlicesAbut /\ Remaining /\ Counted /\ SendSlice => Counted'
<1> SUFFICES ASSUME TypeOK, SlicesAbut, Remaining, Counted, SendSlice PROVE Counted'
      OBVIOUS
<1> DEFINE base == request.base
           n == Len(sent)
           length == Lesser(P, end_addr - base)
           slice == [start |-> end_addr - length, end |-> end_addr]
<1>1. /\ request' = request /\ end_addr > base
      /\ length \in Int /\ 0 < length /\ length <= P
      /\ n \in Nat /\ Len(sent') = n + 1 /\ DOMAIN sent = 1 .. n /\ DOMAIN sent' = 1 .. n + 1
      /\ sent'[n + 1] = slice /\ \A k \in DOMAIN sent : sent'[k] = sent[k]
      BY Iteration
<1>2. base \in Int /\ request.end \in Int /\ end_addr \in Int /\ P \in Int /\ 1 <= P
      BY RequestType
<1>3. n * P - (n - 1) * P = P /\ n * P \in Int /\ (n - 1) * P \in Int
      BY <1>1, <1>2
<1>4. end_addr = request.end - n * P
      <2>1. CASE n = 0
            <3>1. sent = << >>
                  BY <2>1 DEF TypeOK
            <3> QED BY <1>2, <2>1, <3>1 DEF Remaining, NextEnd
      <2>2. CASE n # 0
            <3>1. n \in DOMAIN sent /\ end_addr = sent[n].start
                  BY <1>1, <2>2 DEF Remaining, NextEnd
            <3>2. /\ sent[n].end = request.end - (n - 1) * P
                  /\ sent[n].start = sent[n].end - Lesser(P, sent[n].end - base)
                  BY <3>1 DEF Counted
            <3>3. Lesser(P, sent[n].end - base) = P
                  BY <1>1, <1>2, <1>3, <3>1, <3>2 DEF Lesser
            <3> QED BY <1>2, <1>3, <3>1, <3>2, <3>3
      <2> QED BY <2>1, <2>2
<1>5. Len(sent') - 1 = n /\ request.end - n * P > base
      BY <1>1, <1>4
<1> HIDE DEF n
<1>6. ASSUME NEW k \in DOMAIN sent'
      PROVE  /\ sent'[k].end = request.end - (k - 1) * P
             /\ sent'[k].start = sent'[k].end - Lesser(P, sent'[k].end - base)
      <2>1. CASE k = n + 1
            <3>1. k - 1 = n
                  BY <1>1, <2>1
            <3> QED BY <1>1, <1>4, <2>1, <3>1
      <2>2. CASE k # n + 1
            <3>1. k \in DOMAIN sent /\ sent'[k] = sent[k]
                  BY <1>1, <2>2
            <3> QED BY <3>1 DEF Counted
      <2> QED BY <2>1, <2>2
<1> QED BY <1>1, <1>5, <1>6 DEF Counted

\* The next slice goes in front of what was sent.
LEMMA SliceGathered == TypeOK /\ Gathered /\ SendSlice => Gathered'
<1> SUFFICES ASSUME TypeOK, Gathered, SendSlice PROVE Gathered'
      OBVIOUS
<1> DEFINE length == Lesser(P, end_addr - request.base)
           bytes(slices, k) == slices[k].start .. (slices[k].end - 1)
<1>1. /\ request' = request /\ length \in Int /\ 0 < length /\ end_addr' = end_addr - length
      /\ Len(sent) \in Nat /\ DOMAIN sent = 1 .. Len(sent) /\ DOMAIN sent' = 1 .. Len(sent) + 1
      /\ bytes(sent', Len(sent) + 1) = end_addr - length .. (end_addr - 1)
      /\ \A k \in DOMAIN sent : sent'[k] = sent[k]
      BY Iteration
<1> HIDE DEF length
<1>2. SentBytes' = SentBytes \cup (end_addr - length .. (end_addr - 1))
      <2>1. DOMAIN sent' = DOMAIN sent \cup {Len(sent) + 1}
            BY <1>1
      <2>2. \A k \in DOMAIN sent : bytes(sent', k) = bytes(sent, k)
            BY <1>1
      <2>3. SentBytes' = UNION {bytes(sent', k) : k \in DOMAIN sent \cup {Len(sent) + 1}}
            BY <2>1 DEF SentBytes
      <2>4. SentBytes = UNION {bytes(sent, k) : k \in DOMAIN sent}
            BY DEF SentBytes
      <2> HIDE DEF bytes
      <2> QED BY <1>1, <2>2, <2>3, <2>4
<1>3. request.end \in Int /\ end_addr \in Int
      BY RequestType
<1>4. SentBytes' = end_addr - length .. (request.end - 1) /\ end_addr' <= request'.end
      BY <1>1, <1>2, <1>3 DEF Gathered
<1> QED BY <1>1, <1>4 DEF Gathered

\* Elements of one size, an address between two of them and a payload of some.
LEMMA AlignedSum ==
    ASSUME NEW type, NEW a \in Int, NEW b \in Int,
           a % TypeSize(type) = 0, b % TypeSize(type) = 0
    PROVE  (a - b) % TypeSize(type) = 0
<1> DEFINE size == TypeSize(type)
<1>1. size \in {1, 2, 4, 8}
      BY TypeSizes
<1> HIDE DEF size
<1>2. a % size = 0 /\ b % size = 0
      BY DEF size
<1>3. (a - b) % size = 0
      <2>1. CASE size = 1
            BY <1>2, <2>1
      <2>2. CASE size = 2
            BY <1>2, <2>2
      <2>3. CASE size = 4
            BY <1>2, <2>3
      <2>4. CASE size = 8
            BY <1>2, <2>4
      <2> QED BY <1>1, <2>1, <2>2, <2>3, <2>4
<1> QED BY <1>3 DEF size

\* The next slice takes whole elements.
LEMMA SliceUnsplit == TypeOK /\ Unsplit /\ SendSlice => Unsplit'
<1> DEFINE element == TypeSize(request.type)
           length == Lesser(P, end_addr - request.base)
           slice == [start |-> end_addr - length, end |-> end_addr]
<1> SUFFICES ASSUME TypeOK, Unsplit, SendSlice, WholePayloads'
             PROVE  end_addr' % element' = 0 /\ \A k \in DOMAIN sent' :
                        sent'[k].start % element' = 0 /\ sent'[k].end % element' = 0
      BY DEF Unsplit, Aligned
<1>1. /\ request' = request /\ length \in Int /\ end_addr' = end_addr - length
      /\ Len(sent) \in Nat /\ DOMAIN sent = 1 .. Len(sent) /\ DOMAIN sent' = 1 .. Len(sent) + 1
      /\ sent'[Len(sent) + 1] = slice /\ \A k \in DOMAIN sent : sent'[k] = sent[k]
      BY Iteration
<1>2. /\ end_addr % element = 0 /\ request.base % element = 0 /\ P % element = 0
      /\ \A k \in DOMAIN sent : sent[k].start % element = 0 /\ sent[k].end % element = 0
      BY <1>1 DEF Unsplit, WholePayloads, OfElements, Aligned
<1>3. length % element = 0
      <2>1. length = P \/ length = end_addr - request.base
            BY DEF Lesser
      <2>2. (end_addr - request.base) % element = 0
            <3>1. end_addr \in Int /\ request.base \in Int
                  BY RequestType
            <3> QED BY <1>2, <3>1, AlignedSum
      <2> QED BY <1>2, <2>1, <2>2
<1>4. (end_addr - length) % element = 0
      <2>1. end_addr \in Int
            BY RequestType
      <2> HIDE DEF length
      <2> QED BY <1>1, <1>2, <1>3, <2>1, AlignedSum
<1>5. element' = element
      BY <1>1
<1> HIDE DEF length, element
<1>6. ASSUME NEW k \in DOMAIN sent'
      PROVE  sent'[k].start % element = 0 /\ sent'[k].end % element = 0
      <2>1. CASE k = Len(sent) + 1
            BY <1>1, <1>2, <1>4, <2>1
      <2>2. CASE k # Len(sent) + 1
            BY <1>1, <1>2, <2>2
      <2> QED BY <2>1, <2>2
<1> QED BY <1>1, <1>4, <1>5, <1>6

\* Every step.
LEMMA NextComputed == IInv /\ Computed /\ [Next]_vars => Computed'
<1>1. IInv /\ Computed /\ SendSlice => Computed'
      <2> SUFFICES ASSUME IInv, Computed, SendSlice PROVE Computed'
            OBVIOUS
      <2>1. Counted' /\ Gathered' /\ Unsplit'
            BY SliceCounted, SliceGathered, SliceUnsplit DEF IInv, Computed
      <2>2. Announces'
            <3>1. request' = request /\ announced' = announced
                  BY DEF SendSlice
            <3> QED BY <3>1 DEF Computed, Announces
      <2> QED BY <2>1, <2>2 DEF Computed
<1>2. Computed /\ UNCHANGED vars => Computed'
      BY DEF vars, Computed, Announces, Counted, Gathered, Unsplit, SentBytes,
             WholePayloads, OfElements, Aligned
<1> QED BY AnnounceComputed, <1>1, <1>2 DEF Next

\* The loop ends with the slices of the closed form.
LEMMA InvLoopSends == IInv /\ Computed => LoopSendsSlices
<1> SUFFICES ASSUME IInv, Computed, Returned PROVE sent = Slices(request.base, request.end)
      BY DEF LoopSendsSlices
<1> DEFINE base == request.base
           n == Len(sent)
           x == request.end - base
           count == IF request.end > base THEN (x + P - 1) \div P ELSE 0
           upto(k) == request.end - (k - 1) * P
           slice(k) == [start |-> upto(k) - Lesser(P, upto(k) - base), end |-> upto(k)]
<1>1. /\ base \in Int /\ request.end \in Int /\ end_addr \in Int /\ P \in Int /\ 1 <= P
      /\ end_addr <= base /\ x \in Int
      BY RequestType DEF IInv, Returned
<1>2. sent \in Seq(Slice) /\ n \in Nat /\ DOMAIN sent = 1 .. n
      BY DEF IInv, TypeOK
<1>3. Slices(base, request.end) = [k \in 1 .. count |-> slice(k)]
      BY DEF Slices, P
<1>4. count = n
      <2>1. CASE n = 0
            <3>1. sent = << >>
                  BY <1>2, <2>1
            <3>2. end_addr = request.end
                  BY <3>1 DEF IInv, Remaining, NextEnd
            <3> QED BY <1>1, <2>1, <3>2
      <2>2. CASE n # 0
            <3>1. n \in DOMAIN sent /\ n - 1 \in Int /\ end_addr = sent[n].start
                  BY <1>2, <2>2 DEF IInv, Remaining, NextEnd
            <3>2. /\ request.end - (n - 1) * P > base
                  /\ end_addr = upto(n) - Lesser(P, upto(n) - base)
                  BY <2>2, <3>1 DEF Computed, Counted
            <3>3. n * P = (n - 1) * P + P /\ (n - 1) * P \in Int
                  BY <1>1, <1>2
            <3>4. (n - 1) * P < x /\ x <= n * P
                  BY <1>1, <3>2, <3>3 DEF Lesser
            <3>5. (x + P - 1) \div P = n
                  <4> HIDE DEF x, n
                  <4>1. n \in Int
                        BY <1>2
                  <4> QED BY <1>1, <3>4, <4>1, RoundedUp
            <3>6. 0 <= (n - 1) * P
                  BY <1>1, <1>2, <2>2
            <3> QED BY <1>1, <3>3, <3>4, <3>5, <3>6
      <2> QED BY <2>1, <2>2
<1>5. ASSUME NEW k \in 1 .. n PROVE sent[k] = slice(k)
      <2>1. sent[k] \in [start : Word, end : Word]
            <3>1. sent[k] \in Slice
                  BY <1>2, ElementOfSeq
            <3> QED BY <3>1 DEF Slice
      <2>2. sent[k].end = upto(k) /\ sent[k].start = upto(k) - Lesser(P, upto(k) - base)
            BY <1>2 DEF Computed, Counted
      <2> HIDE DEF upto
      <2> QED BY <2>1, <2>2
<1>6. sent = [k \in 1 .. n |-> sent[k]]
      BY <1>2
<1> HIDE DEF slice, count
<1> QED BY <1>3, <1>4, <1>5, <1>6

\* What is rounded up is a number of elements.
LEMMA RoundedWhole ==
    ASSUME NEW addr \in Word, NEW type
    PROVE  AlignUp(addr, type) % TypeSize(type) = 0
<1> DEFINE element == TypeSize(type)
<1>1. element \in {1, 2, 4, 8} /\ addr \in Int
      BY TypeSizes, WordDef
<1> HIDE DEF element
<1>2. ((((addr + (element - 1)) \div element) * element) % 65536) % element = 0
      <2>1. CASE element = 1
            BY <1>1, <2>1
      <2>2. CASE element = 2
            BY <1>1, <2>2
      <2>3. CASE element = 4
            BY <1>1, <2>3
      <2>4. CASE element = 8
            BY <1>1, <2>4
      <2> QED BY <1>1, <2>1, <2>2, <2>3, <2>4
<1> QED BY <1>2 DEF AlignUp, element

\* An aligned address is rounded up to itself.
LEMMA AlignedUp ==
    ASSUME NEW addr \in Word, NEW type, addr % TypeSize(type) = 0
    PROVE  AlignUp(addr, type) = addr
<1> DEFINE size == TypeSize(type)
<1>1. size \in {1, 2, 4, 8}
      BY TypeSizes
<1>2. addr \in Int /\ 0 <= addr /\ addr <= 65535
      BY WordDef
<1> HIDE DEF size
<1>3. addr % size = 0
      BY DEF size
<1>4. ((addr + (size - 1)) \div size) * size = addr
      <2>1. CASE size = 1
            BY <1>2, <1>3, <2>1
      <2>2. CASE size = 2
            BY <1>2, <1>3, <2>2
      <2>3. CASE size = 4
            BY <1>2, <1>3, <2>3
      <2>4. CASE size = 8
            BY <1>2, <1>3, <2>4
      <2> QED BY <1>1, <2>1, <2>2, <2>3, <2>4
<1>5. addr % 65536 = addr
      BY <1>2
<1> QED BY <1>4, <1>5 DEF AlignUp, size

\* What is rounded up is not below a whole element, nor past the elements it lies in.
LEMMA RoundedWithin ==
    ASSUME NEW addr \in Word, NEW type, NEW size \in Word,
           size % TypeSize(type) = 0, 0 < addr, addr <= size
    PROVE  AlignUp(addr, type) \in Int /\ TypeSize(type) <= AlignUp(addr, type) /\ AlignUp(addr, type) <= size
<1> DEFINE element == TypeSize(type)
           up == ((addr + (element - 1)) \div element) * element
<1>1. element \in {1, 2, 4, 8}
      BY TypeSizes
<1>2. /\ addr \in Int /\ size \in Int /\ size <= 65535
      BY WordDef
<1> HIDE DEF element
<1>3. size % element = 0
      BY DEF element
<1>4. up \in Int /\ element <= up /\ up <= size
      <2>1. CASE element = 1
            BY <1>2, <1>3, <2>1
      <2>2. CASE element = 2
            BY <1>2, <1>3, <2>2
      <2>3. CASE element = 4
            BY <1>2, <1>3, <2>3
      <2>4. CASE element = 8
            BY <1>2, <1>3, <2>4
      <2> QED BY <1>1, <2>1, <2>2, <2>3, <2>4
<1> HIDE DEF up
<1>5. up % 65536 = up
      <2>1. 0 <= up /\ up <= 65535
            BY <1>1, <1>2, <1>4
      <2> QED BY <1>4, <2>1
<1> QED BY <1>4, <1>5 DEF AlignUp, up, element

\* The announced range of a variable is not empty, lies in it and splits no element.
LEMMA RangeWithin ==
    ASSUME NEW base \in Word, NEW offset \in Word, NEW type, NEW size \in Word,
           0 < size, size % TypeSize(type) = 0
    PROVE  LET range == ValidateOffsetRange(base, offset, type, size)
           IN  /\ range.start < range.end /\ range.end <= size
               /\ range.start % TypeSize(type) = 0 /\ range.end % TypeSize(type) = 0
<1> DEFINE end   == IF offset > size \/ offset = 0 THEN size ELSE AlignUp(offset, type)
           start == IF AlignUp(base, type) >= end
                    THEN (end - TypeSize(type)) % 65536 ELSE AlignUp(base, type)
<1>1. TypeSize(type) \in {1, 2, 4, 8} /\ AlignUp(base, type) \in Int
      BY TypeSizes, AlignedWord, WordDef
<1>2. size \in Int /\ size <= 65535 /\ offset \in Int /\ 0 <= offset
      BY WordDef
<1>3. TypeSize(type) <= size
      <2>1. CASE TypeSize(type) = 1
            BY <1>2, <2>1
      <2>2. CASE TypeSize(type) = 2
            BY <1>2, <2>2
      <2>3. CASE TypeSize(type) = 4
            BY <1>2, <2>3
      <2>4. CASE TypeSize(type) = 8
            BY <1>2, <2>4
      <2> QED BY <1>1, <2>1, <2>2, <2>3, <2>4
<1>4. end \in Int /\ TypeSize(type) <= end /\ end <= size
      <2>1. CASE offset > size \/ offset = 0
            BY <1>2, <1>3, <2>1
      <2>2. CASE ~(offset > size \/ offset = 0)
            <3>1. 0 < offset /\ offset <= size
                  BY <1>2, <2>2
            <3> QED BY <2>2, <3>1, RoundedWithin
      <2> QED BY <2>1, <2>2
<1>5. end % TypeSize(type) = 0
      BY RoundedWhole
<1> HIDE DEF end
<1>6. start < end /\ start % TypeSize(type) = 0
      <2>1. CASE AlignUp(base, type) >= end
            <3>1. end - TypeSize(type) \in Int /\ 0 <= end - TypeSize(type) /\ end - TypeSize(type) <= 65535
                  BY <1>1, <1>2, <1>4
            <3>2. (end - TypeSize(type)) % 65536 = end - TypeSize(type)
                  BY <3>1
            <3>3. (end - TypeSize(type)) % TypeSize(type) = 0
                  <4>1. CASE TypeSize(type) = 1
                        BY <1>4, <1>5, <4>1
                  <4>2. CASE TypeSize(type) = 2
                        BY <1>4, <1>5, <4>2
                  <4>3. CASE TypeSize(type) = 4
                        BY <1>4, <1>5, <4>3
                  <4>4. CASE TypeSize(type) = 8
                        BY <1>4, <1>5, <4>4
                  <4> QED BY <1>1, <4>1, <4>2, <4>3, <4>4
            <3> QED BY <1>1, <1>4, <2>1, <3>2, <3>3
      <2>2. CASE ~(AlignUp(base, type) >= end)
            BY <1>1, <1>4, <2>2, RoundedWhole
      <2> QED BY <2>1, <2>2
<1> HIDE DEF start
<1>7. ValidateOffsetRange(base, offset, type, size) = [start |-> start, end |-> end]
      BY DEF ValidateOffsetRange, start, end
<1> QED BY <1>4, <1>5, <1>6, <1>7

\* What a receiver is announced it is sent, and in whole elements.
LEMMA InvSendsAnnounced == IInv /\ Computed => SendsWhatItAnnounces
<1> SUFFICES ASSUME IInv, Computed PROVE SendsWhatItAnnounces
      OBVIOUS
<1>1. ASSUME Returned, OfElements PROVE SentBytes = announced[1].start .. (announced[1].end - 1)
      <2> DEFINE range == ValidateOffsetRange(request.base, request.end, request.type, request.size)
      <2>1. /\ request.base \in Word /\ request.end \in Word
            /\ request.base < request.end /\ request.end <= request.size
            /\ request.base % TypeSize(request.type) = 0 /\ request.end % TypeSize(request.type) = 0
            BY <1>1, RequestsAssumption DEF IInv, TypeOK, OfElements
      <2>2. /\ AlignUp(request.base, request.type) = request.base
            /\ AlignUp(request.end, request.type) = request.end
            BY <2>1, AlignedUp
      <2>3. request.base \in Int /\ 0 <= request.base /\ request.end \in Int /\ request.size \in Int
            BY RequestType DEF IInv
      <2>4. range = [start |-> request.base, end |-> request.end]
            BY <2>1, <2>2, <2>3 DEF ValidateOffsetRange
      <2> HIDE DEF range
      <2>5. announced[1] = range
            BY <1>1 DEF Returned, Computed, Announces, range
      <2>6. sent # << >>
            BY <1>1, <2>1, <2>3 DEF Returned, IInv, Remaining, NextEnd
      <2>7. end_addr = request.base
            <3>1. request.base <= end_addr /\ end_addr <= request.base /\ end_addr \in Int
                  BY <1>1, <2>6, RequestType DEF Returned, IInv, Remaining
            <3> QED BY <2>3, <3>1
      <2> QED BY <2>4, <2>5, <2>7 DEF Computed, Gathered
<1>2. ASSUME OfElements, PAYLOAD_SIZE_MAX % TypeSize(request.type) = 0
      PROVE  \A k \in DOMAIN sent : /\ sent[k].start % TypeSize(request.type) = 0
                                    /\ sent[k].end % TypeSize(request.type) = 0
      BY <1>2 DEF Computed, Unsplit, WholePayloads, Aligned, P
<1> QED BY <1>1, <1>2 DEF SendsWhatItAnnounces

LEMMA InvAnnouncedInBounds == IInv /\ Computed => AnnouncedInBounds
<1> SUFFICES ASSUME IInv, Computed, announced # << >>
             PROVE  /\ announced[1].start < announced[1].end /\ announced[1].end <= request.size
                    /\ announced[1].start % TypeSize(request.type) = 0
                    /\ announced[1].end % TypeSize(request.type) = 0
      BY DEF AnnouncedInBounds
<1> DEFINE range == ValidateOffsetRange(request.base, request.end, request.type, request.size)
<1>1. announced[1] = range
      BY DEF Computed, Announces
<1>2. /\ request.base \in Word /\ request.end \in Word /\ request.size \in Word
      /\ 0 < request.size /\ request.size % TypeSize(request.type) = 0
      BY RequestsAssumption DEF IInv, TypeOK
<1>3. /\ range.start < range.end /\ range.end <= request.size
      /\ range.start % TypeSize(request.type) = 0 /\ range.end % TypeSize(request.type) = 0
      BY <1>2, RangeWithin
<1> QED BY <1>1, <1>3

LEMMA SpecComputed == Spec => [](IInv /\ Computed)
BY InitInv, InitComputed, NextInv, NextComputed, PTL DEF Spec

\* Whatever range of whatever variable is asked for, the loop of eui_send_range sends the
\* slices of the closed form the model of the handlers uses for it.
THEOREM LoopIsClosedForm == Spec => []LoopSendsSlices
BY SpecComputed, InvLoopSends, PTL

\* A peer that asks for elements gets the bytes it is announced, all of them, and no
\* element split between two packets.
THEOREM RangeArrives == Spec => []SendsWhatItAnnounces
BY SpecComputed, InvSendsAnnounced, PTL

\* What validate_offset_range makes of any request lies in the variable, is not empty
\* and is made of whole elements.
THEOREM RangeInBounds == Spec => []AnnouncedInBounds
BY SpecComputed, InvAnnouncedInBounds, PTL

\* what the call still has to do: the announcement, and the bytes between base and end
RangeLeft ==
    (IF announced = << >> THEN 1 ELSE 0)
    + (IF end_addr > request.base THEN end_addr - request.base ELSE 0)

LEMMA LessIsLeft ==
    ASSUME IInv, Next
    PROVE  RangeLeft \in Nat /\ RangeLeft' \in Nat /\ RangeLeft' < RangeLeft
<1>1. request.base \in Int /\ 0 <= request.base /\ end_addr \in Int
  BY WordDef, RequestsAssumption DEF IInv, TypeOK
<1>2. RangeLeft \in Nat
  BY <1>1 DEF RangeLeft
<1>3. CASE Announce
  <2> DEFINE range == ValidateOffsetRange(request.base, request.end, request.type, request.size)
  <2>1. announced = << >> /\ announced' = <<range>> /\ request' = request /\ end_addr' = end_addr
    BY <1>3 DEF Announce
  <2> HIDE DEF range
  <2>2. announced' # << >>
    BY <2>1
  <2> QED
    BY <1>1, <2>1, <2>2 DEF RangeLeft
<1>4. CASE SendSlice
  <2> DEFINE length == Lesser(PAYLOAD_SIZE_MAX, end_addr - request.base)
             data_len == length % 1024
  <2>1. /\ announced' = announced /\ request' = request
        /\ end_addr' = (end_addr - data_len) % 65536 /\ end_addr > request.base
    BY <1>4 DEF SendSlice
  <2>2. length \in Int /\ 0 < length /\ length <= 1023 /\ length <= end_addr - request.base
    BY <1>1, <2>1, PayloadAssumption DEF Lesser
  <2> HIDE DEF length
  <2>3. data_len = length
    BY <2>2
  <2>4. /\ data_len \in Int /\ 0 < data_len /\ end_addr' = end_addr - data_len
        /\ request'.base = request.base /\ data_len <= end_addr - request.base
    <3>1. data_len \in Int /\ 0 < data_len /\ data_len <= end_addr - request.base
      BY <2>2, <2>3
    <3>2. end_addr <= 65535
      BY WordDef DEF IInv, TypeOK
    <3> HIDE DEF data_len
    <3>3. (end_addr - data_len) % 65536 = end_addr - data_len
      BY <1>1, <3>1, <3>2
    <3> QED
      BY <2>1, <3>1, <3>3
  <2> HIDE DEF data_len
  <2>5. RangeLeft' = RangeLeft - data_len
    BY <1>1, <2>1, <2>4 DEF RangeLeft
  <2> QED
    BY <1>1, <1>2, <2>1, <2>4, <2>5 DEF RangeLeft
<1> QED
  BY <1>2, <1>3, <1>4 DEF Next

\* Every packet leaves eui_send_range less to do, a natural number of steps: whatever range
\* is asked for it cannot go on forever.  (Returns, that it does go on, is checked.)
THEOREM RangeProgresses == Spec => [][RangeLeft' \in Nat /\ RangeLeft' < RangeLeft]_vars
<1>1. IInv /\ [Next]_vars => [RangeLeft' \in Nat /\ RangeLeft' < RangeLeft]_vars
  BY LessIsLeft
<1> QED
  BY InitInv, NextInv, <1>1, PTL DEF Spec
-----------------------------------------------------------------------------
(* The search loop for every width of the count, every number of objects and   *)
(* every placement of the searched id.  The invariant says what the index      *)
(* means: while it is a position of the array, no object before it has the id. *)

Searched ==
    /\ position <= dev_tracked_num => \A k \in named : position <= k
    /\ found = None => position <= dev_tracked_num
    /\ found # None => \A k \in named : found <= k
    /\ returned => position >= dev_tracked_num

SearchInv == SearchTypeOK /\ Searched

\* The search starts with the invariant.
LEMMA SearchStarts == SearchInit => SearchInv
<1> SUFFICES ASSUME SearchInit PROVE SearchInv
  OBVIOUS
<1>1. named \subseteq 0 .. dev_tracked_num - 1
  BY CountAssumption DEF SearchInit
<1>2. position = 0 /\ found = None /\ returned = FALSE /\ named \in Matches
  BY DEF SearchInit
<1>3. SearchTypeOK
  <2>1. 0 \in 0 .. CountValues - 1
    BY CountAssumption
  <2> QED
    BY <1>2, <2>1 DEF SearchTypeOK
<1>4. \A k \in named : 0 <= k
  BY <1>1, CountAssumption
<1>5. Searched
  BY <1>2, <1>4, CountAssumption DEF Searched
<1> QED
  BY <1>3, <1>5 DEF SearchInv

\* One pass of the loop preserves it, whether or not the index wraps around.
LEMMA IterateKeeps == SearchInv /\ Iterate => SearchInv'
<1> SUFFICES ASSUME SearchInv, Iterate PROVE SearchInv'
  OBVIOUS
<1>1. named \subseteq 0 .. dev_tracked_num - 1 /\ named' = named /\ returned' = returned
  BY CountAssumption DEF SearchInv, SearchTypeOK, Iterate
<1>2. position \in 0 .. CountValues - 1 /\ position < dev_tracked_num /\ ~returned
  BY DEF SearchInv, SearchTypeOK, Iterate
<1>3. \A k \in named : position <= k
  BY <1>2, CountAssumption DEF SearchInv, Searched
<1>4. CASE position \in named
  <2>1. found' = position /\ position' = (dev_tracked_num + 1) % CountValues
    BY <1>4 DEF Iterate
  <2>2. position' = dev_tracked_num + 1 \/ position' = 0
    BY <2>1, CountAssumption
  <2>3. position' \in 0 .. CountValues - 1
    BY <2>1, CountAssumption
  <2>4. SearchTypeOK'
    BY <1>1, <1>4, <2>1, <2>3 DEF SearchInv, SearchTypeOK
  <2>5. Searched'
    BY <1>1, <1>2, <1>3, <2>1, <2>2, CountAssumption DEF Searched, None
  <2> QED
    BY <2>4, <2>5 DEF SearchInv
<1>5. CASE position \notin named
  <2>1. found' = found /\ position' = (position + 1) % CountValues
    BY <1>5 DEF Iterate
  <2>2. position' = position + 1
    BY <1>2, <2>1, CountAssumption
  <2>3. SearchTypeOK'
    BY <1>1, <1>2, <2>1, <2>2, CountAssumption DEF SearchInv, SearchTypeOK
  <2>4. \A k \in named : position + 1 <= k
    BY <1>1, <1>2, <1>3, <1>5
  <2>5. Searched'
    BY <1>1, <1>2, <2>1, <2>2, <2>4, CountAssumption DEF SearchInv, Searched
  <2> QED
    BY <2>3, <2>5 DEF SearchInv
<1> QED
  BY <1>4, <1>5

\* Every step preserves it.
LEMMA SearchMoves == SearchInv /\ [SearchNext]_search_vars => SearchInv'
<1>1. SearchInv /\ Return => SearchInv'
  BY DEF Return, SearchInv, SearchTypeOK, Searched
<1>2. SearchInv /\ UNCHANGED search_vars => SearchInv'
  BY DEF search_vars, SearchInv, SearchTypeOK, Searched
<1> QED
  BY IterateKeeps, <1>1, <1>2 DEF SearchNext

\* Once the search is over, what it found is the first object of that id.
LEMMA SearchedIsFirst == SearchInv => FirstMatch
<1> SUFFICES ASSUME SearchInv, returned PROVE FirstMatch
  BY DEF FirstMatch
<1>1. named \subseteq 0 .. dev_tracked_num - 1
  BY CountAssumption DEF SearchInv, SearchTypeOK
<1>2. position \in Int /\ position >= dev_tracked_num
  BY CountAssumption DEF SearchInv, SearchTypeOK, Searched
<1>3. CASE found = None
  <2>1. \A k \in named : position <= k
    BY <1>3 DEF SearchInv, Searched
  <2>2. named = {}
    BY <1>1, <1>2, <2>1, CountAssumption
  <2> QED
    BY <1>3, <2>2 DEF FirstMatch
<1>4. CASE found # None
  <2>1. found \in named /\ \A k \in named : found <= k
    BY <1>4 DEF SearchInv, SearchTypeOK, Searched
  <2> QED
    BY <2>1 DEF FirstMatch
<1> QED
  BY <1>3, <1>4

\* The index of the search stays in the width of eui_variable_count_t and what it
\* found is an index of an object with the id.
THEOREM SearchTypeCorrect == SearchSpec => []SearchTypeOK
<1>1. SearchInv => SearchTypeOK
  BY DEF SearchInv
<1> QED
  BY SearchStarts, SearchMoves, <1>1, PTL DEF SearchSpec

\* find_message_object returns the first object of the searched id, and none only if
\* there is none, for every number of tracked objects the count can hold.
THEOREM ReturnsFirstMatch == SearchSpec => []FirstMatch
<1> QED
  BY SearchStarts, SearchMoves, SearchedIsFirst, PTL DEF SearchSpec

\* the iterations the search has left, and its exit
SearchLeft ==
    IF returned THEN 0
    ELSE IF position < dev_tracked_num THEN dev_tracked_num - position + 1 ELSE 1

LEMMA SearchShrinks ==
    ASSUME dev_tracked_num + 1 < CountValues, SearchInv, SearchNext
    PROVE  SearchLeft' \in Nat /\ SearchLeft' < SearchLeft
<1>1. /\ dev_tracked_num \in Nat /\ CountValues \in Nat
      /\ position \in 0 .. CountValues - 1 /\ ~returned
  BY CountAssumption DEF SearchInv, SearchTypeOK, SearchNext, Iterate, Return
<1>2. CASE Iterate
  <2>1. position < dev_tracked_num /\ returned' = returned
    BY <1>2 DEF Iterate
  <2>2. position' = (dev_tracked_num + 1) % CountValues \/ position' = (position + 1) % CountValues
    BY <1>2 DEF Iterate
  <2>3. /\ (dev_tracked_num + 1) % CountValues = dev_tracked_num + 1
        /\ (position + 1) % CountValues = position + 1
    BY <1>1, <2>1
  <2> QED
    BY <1>1, <2>1, <2>2, <2>3 DEF SearchLeft
<1>3. CASE Return
  BY <1>1, <1>3 DEF Return, SearchLeft
<1> QED
  BY <1>2, <1>3 DEF SearchNext

\* As long as the count has room for one more object every iteration brings the search
\* closer to its exit, so that it ends after as many iterations as there are objects.  (With
\* the count at its limit the exit wraps around to the first object.)
THEOREM SearchProgresses ==
    ASSUME dev_tracked_num + 1 < CountValues
    PROVE  SearchSpec => [][SearchLeft' \in Nat /\ SearchLeft' < SearchLeft]_search_vars
<1>1. SearchInv /\ [SearchNext]_search_vars => [SearchLeft' \in Nat /\ SearchLeft' < SearchLeft]_search_vars
  BY SearchShrinks
<1> QED
  BY SearchStarts, SearchMoves, <1>1, PTL DEF SearchSpec
=============================================================================
