----------------------------- MODULE LinkProofs -----------------------------
(* The framing loop on bodies of any length and number, and the line that loses *)
(* nothing between any sender and eui_parse.  Both rest on TransportProofs: the *)
(* invariants say how far the encoder, the countdown and the parser are.        *)
EXTENDS SerialLink, CobsFraming, TransportProofs

-----------------------------------------------------------------------------
(* The framing loop *)

\* what the encoder can frame: no 255 bytes in a row without a zero
NoLongRun(bytes) == \A k \in 0 .. Len(bytes) - 255 : \E j \in k + 1 .. k + 255 : bytes[j] = 0

\* the buffer as encode_packet prepares it
Prepared(bytes) == <<0, 0>> \o bytes \o <<0>>

\* Index k of the buffer is a byte of the body, two places further on.
LEMMA PreparedIs ==
    ASSUME NEW bytes \in Seq(Byte)
    PROVE  /\ Prepared(bytes) \in Seq(Byte) /\ Len(Prepared(bytes)) = Len(bytes) + 3
           /\ Prepared(bytes)[1] = 0 /\ Prepared(bytes)[2] = 0 /\ Prepared(bytes)[Len(bytes) + 3] = 0
           /\ \A k \in 1 .. Len(bytes) : Prepared(bytes)[k + 2] = bytes[k]
<1> DEFINE a == <<0, 0>>
           c == <<0>>
           n == Len(bytes)
           w == (a \o bytes) \o c
<1>1. Prepared(bytes) = w
      BY DEF Prepared
<1>2. a \in Seq(Byte) /\ c \in Seq(Byte) /\ Len(a) = 2 /\ Len(c) = 1 /\ a[1] = 0 /\ a[2] = 0 /\ c[1] = 0
      <2>1. 0 \in Byte
            BY ByteDef
      <2> QED BY <2>1
<1>3. n \in Nat
      BY LenProperties
<1> HIDE DEF a, c
<1>4. /\ a \o bytes \in Seq(Byte) /\ Len(a \o bytes) = 2 + n
      /\ \A k \in 1 .. 2 + n : (a \o bytes)[k] = IF k <= 2 THEN a[k] ELSE bytes[k - 2]
      <2>1. /\ a \o bytes \in Seq(Byte) /\ Len(a \o bytes) = Len(a) + Len(bytes)
            /\ \A k \in 1 .. Len(a) + Len(bytes) : (a \o bytes)[k] = IF k <= Len(a) THEN a[k] ELSE bytes[k - Len(a)]
            BY <1>2, ConcatProperties
      <2> QED BY <1>2, <2>1
<1> DEFINE x == a \o bytes
<1> HIDE DEF x, n
<1>5. x \in Seq(Byte) /\ Len(x) = 2 + n /\ \A k \in 1 .. 2 + n : x[k] = IF k <= 2 THEN a[k] ELSE bytes[k - 2]
      BY <1>4 DEF x, n
<1>6. /\ x \o c \in Seq(Byte) /\ Len(x \o c) = n + 3
      /\ \A k \in 1 .. n + 3 : (x \o c)[k] = IF k <= 2 + n THEN x[k] ELSE c[k - (2 + n)]
      <2>1. /\ x \o c \in Seq(Byte) /\ Len(x \o c) = Len(x) + Len(c)
            /\ \A k \in 1 .. Len(x) + Len(c) : (x \o c)[k] = IF k <= Len(x) THEN x[k] ELSE c[k - Len(x)]
            BY <1>2, <1>5, ConcatProperties
      <2>2. Len(x) + Len(c) = n + 3
            BY <1>2, <1>3, <1>5
      <2> QED BY <1>5, <2>1, <2>2
<1>7. (x \o c)[1] = 0 /\ (x \o c)[2] = 0 /\ (x \o c)[n + 3] = 0
      BY <1>2, <1>3, <1>5, <1>6
<1>8. ASSUME NEW k \in 1 .. n PROVE (x \o c)[k + 2] = bytes[k]
      <2>1. k + 2 \in 1 .. n + 3 /\ k + 2 \in 1 .. 2 + n /\ k + 2 <= 2 + n /\ ~(k + 2 <= 2) /\ (k + 2) - 2 = k
            BY <1>3
      <2> QED BY <1>5, <1>6, <2>1
<1> QED BY <1>1, <1>6, <1>7, <1>8 DEF x, n

\* A body without a long run can be framed.
LEMMA PreparedStuffs ==
    ASSUME NEW bytes \in Seq(Byte), bytes # << >>, NoLongRun(bytes)
    PROVE  Stuffable(Prepared(bytes))
<1> DEFINE n == Len(bytes)
           w == Prepared(bytes)
<1>1. n \in Nat /\ n >= 1
      BY EmptySeq, LenProperties
<1>2. /\ w \in Seq(Byte) /\ Len(w) = n + 3 /\ w[1] = 0 /\ w[2] = 0 /\ w[n + 3] = 0
      /\ \A k \in 1 .. n : w[k + 2] = bytes[k]
      BY PreparedIs
<1>3. \A k \in 0 .. n - 255 : \E j \in k + 1 .. k + 255 : bytes[j] = 0
      BY DEF NoLongRun
<1> HIDE DEF n, w
<1>4. ASSUME NEW k \in 0 .. Len(w) - 255 PROVE \E j \in k .. k + 254 : w[j + 1] = 0
      <2>1. k \in Int /\ 0 <= k /\ k + 252 <= n
            BY <1>1, <1>2
      <2>2. CASE k <= 1
            <3>1. k \in k .. k + 254 /\ k + 1 \in {1, 2}
                  BY <2>1, <2>2
            <3> QED BY <1>2, <3>1
      <2>3. CASE k >= 2 /\ k + 253 <= n
            <3>1. k - 2 \in 0 .. n - 255
                  BY <1>1, <2>1, <2>3
            <3>2. PICK j \in (k - 2) + 1 .. (k - 2) + 255 : bytes[j] = 0
                  BY <1>3, <3>1
            <3>3. j \in 1 .. n /\ j + 1 \in k .. k + 254 /\ (j + 1) + 1 = j + 2
                  BY <1>1, <2>1, <2>3
            <3> QED BY <1>2, <3>2, <3>3
      <2>4. CASE k + 252 = n
            <3>1. n + 2 \in k .. k + 254 /\ (n + 2) + 1 = n + 3
                  BY <1>1, <2>1, <2>4
            <3> QED BY <1>2, <3>1
      <2> QED BY <1>1, <2>1, <2>2, <2>3, <2>4
<1> QED BY <1>1, <1>2, <1>4 DEF Stuffable, w

\* what the loop of encode_framing and the countdown keep
Framing(w) ==
    /\ body \in Bodies /\ index \in Nat
    /\ pc \in {"encode", "decode", "done"}
    /\ pc = "encode" =>
          /\ index \in 1 .. Len(w) /\ frame_offset = 0 /\ plain = << >>
          /\ Scanned(w, [buffer |-> buffer, previous_null |-> previous_null], index - 1)
    /\ pc # "encode" => Framed(w, buffer) /\ buffer \in Seq(Byte) /\ Len(buffer) = Len(w)
    /\ pc = "decode" =>
          /\ index \in 1 .. Len(w) - 1
          /\ index = 1 => frame_offset = 0 /\ plain = << >>
          /\ index > 1 => ToNextZero(w, index - 1, frame_offset) /\ plain = SubSeq(body, 1, index - 2)
    /\ pc = "done" => plain = body

FramingInv == Framing(Prepared(body))

\* The bodies a theorem is about.
LEMMA BodiesStuff ==
    ASSUME \A bytes \in Bodies : NoLongRun(bytes), NEW bytes \in Bodies
    PROVE  /\ Stuffable(Prepared(bytes)) /\ Len(Prepared(bytes)) = Len(bytes) + 3 /\ Len(bytes) \in Nat
           /\ bytes \in Seq(Byte) /\ Len(bytes) >= 1 /\ Prepared(bytes) \in Seq(Byte)
           /\ \A k \in 1 .. Len(bytes) : Prepared(bytes)[k + 2] = bytes[k]
<1>1. bytes \in Seq(Byte) /\ bytes # << >>
      BY BodiesAssumption
<1>2. Len(bytes) \in Nat /\ Len(bytes) >= 1
      BY <1>1, EmptySeq, LenProperties
<1> QED BY <1>1, <1>2, PreparedIs, PreparedStuffs

LEMMA FramingStarts ==
    ASSUME \A bytes \in Bodies : NoLongRun(bytes), FramingInit
    PROVE  FramingInv
<1> DEFINE w == Prepared(body)
<1>1. body \in Bodies /\ buffer = w /\ index = 1 /\ previous_null = 0 /\ frame_offset = 0 /\ plain = << >> /\ pc = "encode"
      BY DEF FramingInit, Prepared
<1>2. Stuffable(w) /\ Len(w) \in Nat /\ Len(w) >= 3
      <2>1. Stuffable(Prepared(body))
            BY <1>1, BodiesStuff
      <2> QED BY <2>1 DEF Stuffable
<1> HIDE DEF w
<1>3. Scanned(w, [buffer |-> w, previous_null |-> 0], 0)
      BY <1>2, ScanStarts
<1>4. index \in 1 .. Len(w) /\ index - 1 = 0 /\ index \in Nat
      BY <1>1, <1>2
<1>5. Framing(w)
      BY <1>1, <1>3, <1>4 DEF Framing
<1> QED BY <1>5 DEF FramingInv, w

LEMMA FramingMoves ==
    ASSUME \A bytes \in Bodies : NoLongRun(bytes), FramingInv, [FramingNext]_framing_vars
    PROVE  FramingInv'
<1> DEFINE w == Prepared(body)
           s == [buffer |-> buffer, previous_null |-> previous_null]
<1>1. Framing(w) /\ body \in Bodies
      BY DEF FramingInv, Framing
<1>2. /\ Stuffable(w) /\ Len(w) = Len(body) + 3 /\ Len(body) \in Nat /\ body \in Seq(Byte)
      /\ Len(body) >= 1 /\ \A k \in 1 .. Len(body) : w[k + 2] = body[k]
      BY <1>1, BodiesStuff
<1>3. body' = body => (FramingInv' <=> Framing(w)')
      BY DEF FramingInv
<1>4. CASE EncodeByte
      <2> DEFINE q == FramingStep(s, index)
      <2>1. /\ pc = "encode" /\ index < Len(buffer) /\ buffer' = q.buffer /\ previous_null' = q.previous_null
            /\ index' = index + 1 /\ body' = body /\ frame_offset' = frame_offset /\ plain' = plain /\ pc' = pc
            BY <1>4 DEF EncodeByte
      <2>2. index \in 1 .. Len(w) /\ frame_offset = 0 /\ plain = << >> /\ Scanned(w, s, index - 1)
            BY <1>1, <2>1 DEF Framing
      <2>3. Len(buffer) = Len(w)
            <3>1. s.buffer = buffer /\ s.buffer \in [1 .. Len(w) -> Byte]
                  BY <2>2 DEF Scanned
            <3> HIDE DEF s, w
            <3>2. buffer \in [1 .. Len(w) -> Byte]
                  BY <3>1
            <3> QED BY <1>2, <3>2
      <2>4. index \in 1 .. Len(w) - 1 /\ index + 1 \in 1 .. Len(w) /\ (index + 1) - 1 = index /\ index + 1 \in Nat
            BY <1>2, <2>1, <2>2, <2>3
      <2> HIDE DEF w, s
      <2>5. Scanned(w, q, index)
            BY <1>2, <2>2, <2>4, ScanStep
      <2>6. q = [buffer |-> q.buffer, previous_null |-> q.previous_null]
            BY <2>5 DEF Scanned
      <2> HIDE DEF q
      <2>7. Scanned(w, [buffer |-> buffer', previous_null |-> previous_null'], index' - 1)
            BY <2>1, <2>4, <2>5, <2>6
      <2>8. w' = w
            BY <2>1 DEF w
      <2>9. Framing(w)'
            BY <1>1, <2>1, <2>2, <2>4, <2>7, <2>8 DEF Framing
      <2> QED BY <2>1, <2>8, <2>9 DEF FramingInv, w
<1>5. CASE Output
      <2>1. /\ pc = "encode" /\ index = Len(buffer) /\ buffer' = [buffer EXCEPT ![1] = 0] /\ pc' = "decode"
            /\ index' = 1 /\ body' = body /\ previous_null' = previous_null /\ frame_offset' = frame_offset
            /\ plain' = plain
            BY <1>5 DEF Output
      <2>2. index \in 1 .. Len(w) /\ frame_offset = 0 /\ plain = << >> /\ Scanned(w, s, index - 1)
            BY <1>1, <2>1 DEF Framing
      <2>3. Len(buffer) = Len(w) /\ s.buffer = buffer
            <3>1. s.buffer = buffer /\ s.buffer \in [1 .. Len(w) -> Byte]
                  BY <2>2 DEF Scanned
            <3> HIDE DEF s, w
            <3>2. buffer \in [1 .. Len(w) -> Byte]
                  BY <3>1
            <3> QED BY <1>2, <3>1, <3>2
      <2> HIDE DEF w, s
      <2>4. Scanned(w, s, Len(w) - 1)
            BY <2>1, <2>2, <2>3
      <2>5. Framed(w, buffer') /\ buffer' \in Seq(Byte) /\ Len(buffer') = Len(w)
            BY <1>2, <2>1, <2>3, <2>4, ScanEnds
      <2>6. 1 \in 1 .. Len(w) - 1 /\ 1 \in Nat /\ ~(1 > 1)
            BY <1>2
      <2>7. w' = w
            BY <2>1 DEF w
      <2>8. Framing(w)'
            BY <1>1, <2>1, <2>2, <2>5, <2>6, <2>7 DEF Framing
      <2> QED BY <2>8 DEF FramingInv, w
<1>6. CASE DecodeByte
      <2> DEFINE p == [frame_offset |-> frame_offset]
                 u == Unstuff(buffer[index + 1], p)
      <2>1. /\ pc = "decode" /\ index < Len(buffer) /\ buffer[index + 1] # 0 /\ frame_offset' = u.frame_offset
            /\ plain' = (IF index = 1 THEN plain ELSE Append(plain, u.byte))
            /\ index' = index + 1 /\ body' = body /\ buffer' = buffer /\ previous_null' = previous_null /\ pc' = pc
            BY <1>6 DEF DecodeByte
      <2>2. /\ Framed(w, buffer) /\ buffer \in Seq(Byte) /\ Len(buffer) = Len(w) /\ index \in 1 .. Len(w) - 1
            /\ index = 1 => frame_offset = 0 /\ plain = << >>
            /\ index > 1 => ToNextZero(w, index - 1, frame_offset) /\ plain = SubSeq(body, 1, index - 2)
            BY <1>1, <2>1 DEF Framing
      <2>3. p.frame_offset = frame_offset /\ w' = w
            BY <2>1
      <2> HIDE DEF p, w
      <2>4. index # Len(w) - 1
            <3>1. buffer[Len(w)] = 0 /\ Len(w) - 1 + 1 = Len(w)
                  BY <1>2, <2>2 DEF Framed
            <3> QED BY <2>1, <3>1
      <2>5. index + 1 \in 1 .. Len(w) - 1 /\ index + 1 > 1 /\ (index + 1) - 1 = index /\ index + 1 \in Nat
            /\ index + 1 # 1 /\ (index + 1) - 2 = index - 1
            BY <1>2, <2>2, <2>4
      <2>6. ToNextZero(w, index, u.frame_offset) /\ plain' = SubSeq(body, 1, index - 1)
            <3>1. CASE index = 1
                  <4>1. ToNextZero(w, 1, Unstuff(buffer[2], p).frame_offset)
                        BY <1>2, <2>2, <2>3, <3>1, FirstCode
                  <4>2. SubSeq(body, 1, 0) = << >>
                        BY <1>2, SubSeqProperties, EmptySeq
                  <4> QED BY <2>1, <2>2, <3>1, <4>1, <4>2
            <3>2. CASE index > 1
                  <4>1. index \in 2 .. Len(w) - 2
                        BY <1>2, <2>2, <2>4, <3>2
                  <4>2. ToNextZero(w, index - 1, p.frame_offset)
                        BY <2>2, <2>3, <3>2
                  <4>3. u.byte = w[index + 1] /\ ToNextZero(w, index, u.frame_offset)
                        <5>1. Stuffable(w) /\ Framed(w, buffer)
                              BY <1>2, <2>2
                        <5> QED BY <4>1, <4>2, <5>1, NextCode
                  <4>4. index - 1 \in 1 .. Len(body) /\ (index - 1) + 2 = index + 1 /\ index # 1
                        BY <1>2, <4>1
                  <4>5. u.byte = body[index - 1]
                        BY <1>2, <4>3, <4>4
                  <4> HIDE DEF u
                  <4>6. plain' = Append(SubSeq(body, 1, index - 2), body[index - 1])
                        BY <2>1, <2>2, <3>2, <4>4, <4>5
                  <4>7. Append(SubSeq(body, 1, (index - 1) - 1), body[index - 1]) = SubSeq(body, 1, index - 1)
                        BY <1>2, <4>4, SliceGrows
                  <4>8. (index - 1) - 1 = index - 2
                        BY <4>1
                  <4> QED BY <4>3, <4>6, <4>7, <4>8
            <3> QED BY <2>2, <3>1, <3>2
      <2> HIDE DEF u
      <2>7. Framing(w)'
            BY <1>1, <2>1, <2>2, <2>3, <2>5, <2>6 DEF Framing
      <2> QED BY <2>3, <2>7 DEF FramingInv, w
<1>7. CASE EndOfFrame
      <2>1. /\ pc = "decode" /\ (index = Len(buffer) \/ buffer[index + 1] = 0) /\ pc' = "done"
            /\ body' = body /\ buffer' = buffer /\ index' = index /\ previous_null' = previous_null
            /\ frame_offset' = frame_offset /\ plain' = plain
            BY <1>7 DEF EndOfFrame
      <2>2. /\ Framed(w, buffer) /\ buffer \in Seq(Byte) /\ Len(buffer) = Len(w) /\ index \in 1 .. Len(w) - 1
            /\ index > 1 => ToNextZero(w, index - 1, frame_offset) /\ plain = SubSeq(body, 1, index - 2)
            BY <1>1, <2>1 DEF Framing
      <2>3. w' = w
            BY <2>1
      <2> HIDE DEF w
      <2>4. index = Len(w) - 1
            <3>1. buffer[index + 1] = 0 /\ index + 1 \in 1 .. Len(w) /\ index + 1 # 1
                  BY <1>2, <2>1, <2>2
            <3>2. index + 1 \in {1, Len(w)}
                  BY <1>2, <2>2, <3>1, FramedZeros
            <3>3. Len(w) \in Int /\ index \in Int
                  BY <1>2, <2>2
            <3> QED BY <3>1, <3>2, <3>3
      <2>5. index > 1 /\ index - 2 = Len(body)
            BY <1>2, <2>4
      <2>6. plain = body
            BY <1>2, <2>2, <2>5, SubSeqFull
      <2>7. Framing(w)'
            BY <1>1, <2>1, <2>2, <2>3, <2>6 DEF Framing
      <2> QED BY <2>3, <2>7 DEF FramingInv, w
<1>8. CASE UNCHANGED framing_vars
      BY <1>8 DEF framing_vars, FramingInv, Framing
<1> QED BY <1>4, <1>5, <1>6, <1>7, <1>8 DEF FramingNext

\* What is framed can be restored: the countdown of the receiver finds every byte of a body
\* that has no 255 bytes in a row without a zero, however long it is.
THEOREM FramingRestores ==
    ASSUME \A bytes \in Bodies : NoLongRun(bytes)
    PROVE  FramingSpec => []RoundTrip
<1>1. FramingInit => FramingInv
      BY FramingStarts
<1>2. FramingInv /\ [FramingNext]_framing_vars => FramingInv'
      BY FramingMoves
<1>3. FramingInv => RoundTrip
      BY DEF FramingInv, Framing, RoundTrip
<1> QED BY <1>1, <1>2, <1>3, PTL DEF FramingSpec

\* Such a frame holds 0x00 at its two ends and nowhere else.
THEOREM ZerosDelimit ==
    ASSUME \A bytes \in Bodies : NoLongRun(bytes)
    PROVE  FramingSpec => []ZeroOnlyDelimits
<1>1. FramingInit => FramingInv
      BY FramingStarts
<1>2. FramingInv /\ [FramingNext]_framing_vars => FramingInv'
      BY FramingMoves
<1>3. ASSUME FramingInv PROVE ZeroOnlyDelimits
      <2> DEFINE w == Prepared(body)
      <2> SUFFICES ASSUME pc # "encode" PROVE {k \in DOMAIN buffer : buffer[k] = 0} = {1, Len(buffer)}
            BY DEF ZeroOnlyDelimits
      <2>1. body \in Bodies /\ Framed(w, buffer) /\ buffer \in Seq(Byte) /\ Len(buffer) = Len(w)
            BY <1>3 DEF FramingInv, Framing
      <2>2. Stuffable(w)
            BY <2>1, BodiesStuff
      <2> HIDE DEF w
      <2>3. DOMAIN buffer = 1 .. Len(w)
            BY <2>1
      <2> QED BY <2>1, <2>2, <2>3, FramedZeros
<1> QED BY <1>1, <1>2, <1>3, PTL DEF FramingSpec
-----------------------------------------------------------------------------
(* The line that loses nothing *)

\* the message of the arriving frame, until the last byte of its checksum
Waiting(m, t) == IF t <= Len(BodyOf(m)) + 3 THEN <<m>> ELSE << >>

\* t bytes of the frame of m were polled
Coming(m, t) ==
    /\ t \in 0 .. Len(BodyOf(m)) + 4
    /\ rx = LeftOf(Frame(m), t) /\ Midway(m, t, packet)
    /\ sent = (delivered \o Waiting(m, t)) \o line

\* Whatever was sent was delivered, is being parsed or is on the line, in this order.
LinkInv ==
    /\ sent \in Seq(Messages) /\ line \in Seq(Messages) /\ delivered \in Seq(Messages)
    /\ \/ rx = << >> /\ packet \in {ZeroPacket, ClearedPacket} /\ sent = delivered \o line
       \/ \E m \in Messages, t \in Nat : Coming(m, t)

\* A step either delivers the next message or nothing.
Delivers ==
    \/ delivered' = delivered
    \/ \E m \in Messages, rest \in Seq(Messages) :
          sent = Append(delivered, m) \o rest /\ delivered' = Append(delivered, m) /\ sent' = sent

LEMMA FrameLength ==
    ASSUME NEW m \in Messages
    PROVE  Deliverable(m) /\ Frame(m) \in Seq(Byte) /\ Len(Frame(m)) = Len(BodyOf(m)) + 5 /\ Len(BodyOf(m)) \in Nat
<1>1. Deliverable(m)
      BY MessagesAssumption
<1>2. BodyOf(m) \in Seq(Byte)
      BY <1>1, BodyIs DEF Deliverable
<1> QED BY <1>1, <1>2, FrameIs, LenProperties

LEMMA LinkStarts == Init => LinkInv
<1> SUFFICES ASSUME Init PROVE LinkInv
      OBVIOUS
<1>1. sent = << >> /\ line = << >> /\ rx = << >> /\ packet = ZeroPacket /\ delivered = << >>
      BY DEF Init
<1>2. << >> \in Seq(Messages) /\ << >> \o << >> = << >>
      BY EmptySeq, ConcatEmptySeq
<1> QED BY <1>1, <1>2 DEF LinkInv

LEMMA LinkSends ==
    ASSUME LinkInv, NEW m \in Messages, Send(m)
    PROVE  LinkInv'
<1>1. /\ sent' = Append(sent, m) /\ line' = Append(line, m) /\ rx' = rx /\ packet' = packet
      /\ delivered' = delivered
      BY DEF Send
<1>2. sent \in Seq(Messages) /\ line \in Seq(Messages) /\ delivered \in Seq(Messages)
      BY DEF LinkInv
<1>3. sent' \in Seq(Messages) /\ line' \in Seq(Messages) /\ delivered' \in Seq(Messages)
      BY <1>1, <1>2, AppendProperties
<1>4. ASSUME NEW s \in Seq(Messages), sent = s \o line PROVE sent' = s \o line'
      <2>1. sent' = (s \o line) \o <<m>> /\ line' = line \o <<m>> /\ <<m>> \in Seq(Messages)
            BY <1>1, <1>2, <1>4, AppendIsConcat
      <2> QED BY <1>2, <2>1, ConcatAssociative, SMTT(30)
<1>5. CASE rx = << >> /\ packet \in {ZeroPacket, ClearedPacket} /\ sent = delivered \o line
      BY <1>1, <1>2, <1>3, <1>4, <1>5 DEF LinkInv
<1>6. CASE \E n \in Messages, t \in Nat : Coming(n, t)
      <2>1. PICK n \in Messages, t \in Nat : Coming(n, t)
            BY <1>6
      <2>2. delivered \o Waiting(n, t) \in Seq(Messages)
            <3>1. Waiting(n, t) \in Seq(Messages)
                  BY DEF Waiting
            <3> QED BY <1>2, <3>1, ConcatProperties
      <2>3. sent' = (delivered \o Waiting(n, t)) \o line'
            BY <1>4, <2>1, <2>2 DEF Coming
      <2>4. Coming(n, t)'
            BY <1>1, <2>1, <2>3 DEF Coming
      <2> QED BY <1>3, <2>4 DEF LinkInv
<1> QED BY <1>5, <1>6 DEF LinkInv

LEMMA LinkArrives ==
    ASSUME LinkInv, Arrive
    PROVE  LinkInv'
<1>0. PICK m : m = Head(line)
      OBVIOUS
<1>1. /\ rx = << >> /\ line # << >> /\ rx' = Frames[m] /\ line' = Tail(line) /\ sent' = sent
      /\ packet' = packet /\ delivered' = delivered
      BY <1>0 DEF Arrive
<1>2. sent \in Seq(Messages) /\ line \in Seq(Messages) /\ delivered \in Seq(Messages)
      BY DEF LinkInv
<1>3. m \in Messages /\ line' \in Seq(Messages)
      BY <1>0, <1>1, <1>2, HeadTailProperties
<1>4. packet \in {ZeroPacket, ClearedPacket} /\ sent = delivered \o line
      <2>1. ASSUME NEW n \in Messages, NEW t \in Nat, Coming(n, t) PROVE FALSE
            <3>1. t \in 0 .. Len(Frame(n)) - 1 /\ rx = LeftOf(Frame(n), t)
                  BY <2>1, FrameLength DEF Coming
            <3>2. Frame(n) \in Seq(Byte)
                  BY FrameLength
            <3> QED BY <1>1, <3>1, <3>2, LeftOfIs
      <2> QED BY <2>1 DEF LinkInv
<1>5. rx' = LeftOf(Frame(m), 0)
      <2>1. rx' = Frame(m)
            BY <1>1, <1>3 DEF Frames
      <2>2. Frame(m) \in Seq(Byte)
            BY <1>3, FrameLength
      <2> QED BY <2>1, <2>2, LeftOfIs
<1>6. 0 \in 0 .. Len(BodyOf(m)) + 4 /\ Waiting(m, 0) = <<m>>
      BY <1>3, FrameLength DEF Waiting
<1>7. Midway(m, 0, packet')
      BY <1>1, <1>4 DEF Midway
<1>8. sent' = (delivered' \o Waiting(m, 0)) \o line'
      <2>1. line = <<m>> \o line' /\ <<m>> \in Seq(Messages)
            <3>1. 1 \in 1 .. Len(line) /\ Len(line) \in 1 .. Len(line) /\ line[1] = m /\ Len(line) \in Nat
                  BY <1>0, <1>1, <1>2, EmptySeq
            <3>2. SubSeq(line, 1, Len(line)) = <<line[1]>> \o SubSeq(line, 1 + 1, Len(line))
                  BY <1>2, <3>1, SubSeqRecursiveFirst
            <3>3. SubSeq(line, 1, Len(line)) = line /\ SubSeq(line, 2, Len(line)) = line'
                  BY <1>1, <1>2, SubSeqFull, TailIsSubSeq
            <3>4. line = <<m>> \o line'
                  <4> DEFINE two == 1 + 1
                  <4>1. two = 2
                        OBVIOUS
                  <4>2. SubSeq(line, 1, Len(line)) = <<line[1]>> \o SubSeq(line, two, Len(line))
                        BY <3>2
                  <4> HIDE DEF two
                  <4> QED BY <3>1, <3>3, <4>1, <4>2, Zenon
            <3>5. <<m>> \in Seq(Messages)
                  BY <1>3
            <3> QED BY <3>4, <3>5
      <2>2. (delivered \o <<m>>) \o line' = delivered \o (<<m>> \o line')
            BY <1>2, <1>3, <2>1, ConcatAssociative
      <2> QED BY <1>1, <1>4, <1>6, <2>1, <2>2
<1>9. Coming(m, 0)'
      BY <1>5, <1>6, <1>7, <1>8 DEF Coming
<1>10. sent' \in Seq(Messages) /\ delivered' \in Seq(Messages) /\ 0 \in Nat
      BY <1>1, <1>2
<1> QED BY <1>3, <1>9, <1>10 DEF LinkInv

LEMMA LinkParses ==
    ASSUME LinkInv, EuiParse
    PROVE  LinkInv' /\ Delivers
<1> DEFINE b == Head(rx)
           status == DecodePacket(b, packet).status
           step == ParseByte(b, packet)
<1>1. /\ rx # << >> /\ rx' = Tail(rx) /\ sent' = sent /\ line' = line /\ packet' = step.packet
      /\ delivered' = delivered \o Handed(step)
      BY DEF EuiParse, Poll
<1>2. sent \in Seq(Messages) /\ line \in Seq(Messages) /\ delivered \in Seq(Messages)
      BY DEF LinkInv
<1>3. PICK m \in Messages, t \in Nat : Coming(m, t)
      BY <1>1 DEF LinkInv
<1> DEFINE L == Len(BodyOf(m))
<1>4. Deliverable(m) /\ Frame(m) \in Seq(Byte) /\ Len(Frame(m)) = L + 5 /\ L \in Nat
      BY FrameLength
<1>5. t \in 0 .. L + 4 /\ t \in 0 .. Len(Frame(m)) - 1 /\ t \in Nat
      BY <1>3, <1>4 DEF Coming
<1>6. b = Frame(m)[t + 1] /\ rx' = LeftOf(Frame(m), t + 1) /\ (t = L + 4 => rx' = << >>)
      <2>1. rx = LeftOf(Frame(m), t)
            BY <1>3 DEF Coming
      <2>2. t = L + 4 => t + 1 = Len(Frame(m))
            BY <1>4
      <2> HIDE DEF L
      <2> QED BY <1>1, <1>4, <1>5, <2>1, <2>2, LeftOfIs
<1>7. Takes(m, t, status, step)
      <2>1. Midway(m, t, packet)
            BY <1>3 DEF Coming
      <2> QED BY <1>4, <1>5, <1>6, <2>1, FrameByte
<1> HIDE DEF b, status, step
<1>8. /\ t < L + 4 => Midway(m, t + 1, packet')
      /\ t = L + 4 => packet' = ClearedPacket
      /\ delivered' = delivered \o (IF t = L + 3 THEN <<m>> ELSE << >>)
      BY <1>1, <1>7 DEF Takes
<1> HIDE DEF L
<1>9. <<m>> \in Seq(Messages) /\ << >> \in Seq(Messages)
      BY EmptySeq
<1>10. delivered' \in Seq(Messages)
      BY <1>2, <1>8, <1>9, ConcatProperties
<1>11. delivered' \o Waiting(m, t + 1) = delivered \o Waiting(m, t)
      <2>1. CASE t < L + 3
            <3>0. t <= L + 3 /\ t + 1 <= L + 3 /\ t # L + 3
                  BY <1>4, <1>5, <2>1
            <3>1. Waiting(m, t) = <<m>> /\ Waiting(m, t + 1) = <<m>> /\ delivered' = delivered \o << >>
                  BY <1>8, <3>0 DEF Waiting, L
            <3> QED BY <1>2, <3>1, ConcatEmptySeq
      <2>2. CASE t = L + 3
            <3>1. Waiting(m, t) = <<m>> /\ Waiting(m, t + 1) = << >> /\ delivered' = delivered \o <<m>>
                  BY <1>4, <1>5, <1>8, <2>2 DEF Waiting, L
            <3> QED BY <1>10, <3>1, ConcatEmptySeq
      <2>3. CASE t = L + 4
            <3>0. ~(t <= L + 3) /\ ~(t + 1 <= L + 3) /\ t # L + 3
                  BY <1>4, <1>5, <2>3
            <3>1. Waiting(m, t) = << >> /\ Waiting(m, t + 1) = << >> /\ delivered' = delivered \o << >>
                  BY <1>8, <3>0 DEF Waiting, L
            <3> QED BY <1>2, <3>1, ConcatEmptySeq
      <2> QED BY <1>4, <1>5, <2>1, <2>2, <2>3, SMTT(30)
<1>12. sent' = (delivered' \o Waiting(m, t + 1)) \o line'
      BY <1>1, <1>3, <1>11 DEF Coming
<1>13. LinkInv'
      <2>1. sent' \in Seq(Messages) /\ line' \in Seq(Messages)
            BY <1>1, <1>2
      <2>2. CASE t < L + 4
            <3>1. t + 1 \in 0 .. Len(BodyOf(m)) + 4 /\ t + 1 \in Nat
                  BY <1>4, <1>5, <2>2 DEF L
            <3>2. Coming(m, t + 1)'
                  BY <1>6, <1>8, <1>12, <2>2, <3>1 DEF Coming
            <3> QED BY <1>10, <2>1, <3>1, <3>2 DEF LinkInv
      <2>3. CASE t = L + 4
            <3>1. Waiting(m, t + 1) = << >>
                  BY <1>4, <2>3 DEF Waiting, L
            <3>2. sent' = delivered' \o line'
                  BY <1>10, <1>12, <3>1, ConcatEmptySeq
            <3> QED BY <1>6, <1>8, <1>10, <2>1, <2>3, <3>2 DEF LinkInv
      <2> QED BY <1>4, <1>5, <2>2, <2>3
<1>14. Delivers
      <2>1. CASE t = L + 3
            <3>1. Waiting(m, t + 1) = << >> /\ delivered' = delivered \o <<m>>
                  BY <1>4, <1>8, <2>1 DEF Waiting, L
            <3>2. delivered' = Append(delivered, m)
                  BY <1>2, <3>1, AppendIsConcat
            <3>3. sent = delivered' \o line
                  BY <1>1, <1>10, <1>12, <3>1, ConcatEmptySeq
            <3> QED BY <1>1, <1>2, <3>2, <3>3 DEF Delivers
      <2>2. CASE t # L + 3
            <3>1. delivered' = delivered
                  BY <1>2, <1>8, <2>2, ConcatEmptySeq
            <3> QED BY <3>1 DEF Delivers
      <2> QED BY <2>1, <2>2
<1> QED BY <1>13, <1>14

LEMMA LinkMoves ==
    ASSUME LinkInv, [Next]_vars
    PROVE  LinkInv'
<1>1. CASE \E m \in Messages : Send(m)
      BY <1>1, LinkSends
<1>2. CASE Arrive
      BY <1>2, LinkArrives
<1>3. CASE EuiParse
      BY <1>3, LinkParses
<1>4. CASE UNCHANGED vars
      BY <1>4 DEF vars, LinkInv, Coming
<1> QED BY <1>1, <1>2, <1>3, <1>4 DEF Next

\* Whatever messages are sent, and however many: between two frames the decoder remembers
\* nothing of the ones before but a checksum the next 0x00 sets.
THEOREM DecoderIsClean == Spec => []CleanBetweenFrames
<1>1. LinkInv => CleanBetweenFrames
      <2> SUFFICES ASSUME LinkInv, rx = << >> PROVE packet \in {ZeroPacket, ClearedPacket}
            BY DEF CleanBetweenFrames, ClearedPacket
      <2>1. ASSUME NEW n \in Messages, NEW t \in Nat, Coming(n, t) PROVE FALSE
            <3>1. t \in 0 .. Len(Frame(n)) - 1 /\ rx = LeftOf(Frame(n), t)
                  BY <2>1, FrameLength DEF Coming
            <3>2. Frame(n) \in Seq(Byte)
                  BY FrameLength
            <3> QED BY <3>1, <3>2, LeftOfIs
      <2> QED BY <2>1 DEF LinkInv
<1> QED BY <1>1, LinkStarts, LinkMoves, PTL DEF Spec

LEMMA ChannelMoves ==
    ASSUME LinkInv, [Next]_vars
    PROVE  [Channel!Next]_(Channel!vars)
<1>1. sent \in Seq(Messages) /\ delivered \in Seq(Messages)
      BY DEF LinkInv
<1>2. CASE \E m \in Messages : Send(m)
      <2>1. PICK m \in Messages : Send(m)
            BY <1>2
      <2>2. Channel!Send(m)
            BY <2>1 DEF Send, Channel!Send
      <2> QED BY <2>2 DEF Channel!Next
<1>3. CASE Arrive
      BY <1>3 DEF Arrive, Channel!vars
<1>4. CASE EuiParse
      <2>1. sent' = sent
            BY <1>4 DEF EuiParse, Poll
      <2>2. Delivers
            BY <1>4, LinkParses
      <2>3. ASSUME NEW m \in Messages, NEW rest \in Seq(Messages),
                   sent = Append(delivered, m) \o rest, delivered' = Append(delivered, m)
            PROVE  Channel!Deliver
            <3> DEFINE d == Append(delivered, m)
            <3>1. /\ d \in Seq(Messages) /\ Len(d) = Len(delivered) + 1 /\ d[Len(delivered) + 1] = m
                  /\ Len(delivered) \in Nat /\ Len(rest) \in Nat
                  BY <1>1, AppendProperties, LenProperties
            <3> HIDE DEF d
            <3>2. /\ Len(d \o rest) = Len(d) + Len(rest)
                  /\ \A i \in 1 .. Len(d) + Len(rest) : (d \o rest)[i] = IF i <= Len(d) THEN d[i] ELSE rest[i - Len(d)]
                  BY <3>1, ConcatProperties
            <3>3. Len(delivered) < Len(sent) /\ sent[Len(delivered) + 1] = m
                  <4>1. sent = d \o rest
                        BY <2>3 DEF d
                  <4>2. Len(delivered) + 1 \in 1 .. Len(d) + Len(rest) /\ Len(delivered) + 1 <= Len(d)
                        BY <3>1
                  <4> QED BY <3>1, <3>2, <4>1, <4>2
            <3> QED BY <2>1, <2>3, <3>3 DEF Channel!Deliver
      <2> QED BY <2>1, <2>2, <2>3 DEF Delivers, Channel!Next, Channel!vars
<1>5. CASE UNCHANGED vars
      BY <1>5 DEF vars, Channel!vars
<1> QED BY <1>2, <1>3, <1>4, <1>5 DEF Next

\* Whatever messages are sent, and however many, the link implements the channel: what is
\* delivered is what was sent, once, unchanged and in order.  (That every message is
\* delivered in the end is the fairness of the channel, which the run checks.)
THEOREM LinkIsChannel == Spec => Channel!Init /\ [][Channel!Next]_(Channel!vars)
<1>1. Init => Channel!Init
      BY DEF Init, Channel!Init
<1> QED BY <1>1, LinkStarts, LinkMoves, ChannelMoves, PTL DEF Spec
-----------------------------------------------------------------------------
(* What can be sent *)

\* With a payload buffer of up to 232 bytes (120, unless the application sets it) no packet
\* the encoder can make has 255 bytes in a row without a zero: every slice that has a byte
\* arrives, and so does every other packet.
THEOREM SmallPayloadsArrive ==
    ASSUME PAYLOAD_SIZE_MAX <= 232, NEW m, Sendable(m), m.offset = 1 => m.data # << >>
    PROVE  Deliverable(m)
<1> DEFINE check == LittleEndian(CrcOf(BodyOf(m)))
           bytes == BodyOf(m) \o check
<1>1. Len(m.id) <= 15 /\ Len(m.data) <= 232 /\ Len(m.id) \in Nat /\ Len(m.data) \in Nat
      <2>1. Len(m.id) \in 1 .. 15 /\ Len(m.data) \in 0 .. PAYLOAD_SIZE_MAX
            BY SendableIs
      <2>2. Len(m.id) \in Nat /\ 1 <= Len(m.id) /\ Len(m.id) <= 15
            BY <2>1, IdSize, Zenon
      <2> QED BY <2>1, <2>2, PayloadMax
<1>2. /\ BodyOf(m) \in Seq(Byte) /\ Len(BodyOf(m)) = 3 + Len(m.id) + Address2(m) + Len(m.data)
      BY BodyIs
<1>3. Address2(m) \in {0, 2}
      BY DEF Address2
<1>4. Len(BodyOf(m)) <= 252 /\ Len(BodyOf(m)) \in Nat
      BY <1>1, <1>2, <1>3
<1>5. CrcOf(BodyOf(m)) \in Word
      <2>1. /\ CrcRuns(BodyOf(m), CHOOSE crc : CrcRuns(BodyOf(m), crc) /\ CrcOf(BodyOf(m)) = crc[Len(BodyOf(m))])
            /\ CrcOf(BodyOf(m)) = (CHOOSE crc : CrcRuns(BodyOf(m), crc) /\ CrcOf(BodyOf(m)) = crc[Len(BodyOf(m))])[Len(BodyOf(m))]
            BY <1>2, CrcIs, Zenon
      <2>2. Len(BodyOf(m)) \in 0 .. Len(BodyOf(m))
            BY <1>4
      <2> QED BY <2>1, <2>2 DEF CrcRuns
<1>6. check \in Seq(Byte) /\ Len(check) = 2
      BY <1>5, LittleEndianType
<1> HIDE DEF check
<1>7. Len(bytes) = Len(BodyOf(m)) + 2
      <2>1. Len(bytes) = Len(BodyOf(m)) + Len(check)
            BY <1>2, <1>6, ConcatProperties, ZenonT(40)
      <2> QED BY <1>6, <2>1
<1> HIDE DEF bytes
<1>8. \A k \in 0 .. Len(bytes) - 255 : \E j \in k + 1 .. k + 255 : bytes[j] = 0
      <2>1. Len(bytes) - 255 < 0
            BY <1>4, <1>7
      <2> QED BY <2>1, <1>4, <1>7
<1> QED BY <1>8 DEF Deliverable, bytes, check
=============================================================================
