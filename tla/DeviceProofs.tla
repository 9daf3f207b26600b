---------------------------- MODULE DeviceProofs ----------------------------
(* The whole device for any links, objects, callbacks and packets, and any      *)
(* interleaving of their bytes and of the application's calls.  The invariant   *)
(* says of each link, by itself, how much of a frame has been parsed.  A step    *)
(* is then a step of ElectricUI or none, so that what holds of the handlers      *)
(* holds of the device.                                                         *)
EXTENDS Device, ElectricUIProofs

-----------------------------------------------------------------------------
(* A frame on its way *)

\* the packet the handlers are still to be given when t bytes of its frame were parsed
Owed(m, t) == IF t <= Len(BodyOf(m)) + 3 THEN <<m>> ELSE << >>

\* t bytes of the frame f of m were polled: a frame as it was posted, or a damaged one
OnTheWay(m, t, f, bytes, p, po, se) ==
    /\ t \in 0 .. Len(BodyOf(m)) + 4 /\ bytes = LeftOf(f, t) /\ Midway(m, t, p)
    /\ \/ f = Frame(m) /\ po = se \o Owed(m, t)
       \/ f = Damaged(m) /\ CrcOf(BodyOf(m)) \div 256 # 0 /\ po = se

\* the bytes not polled on a link, its packet, and what was posted and served
At(bytes, p, po, se) ==
    /\ po \in Seq(Inbound) /\ se \in Seq(Inbound)
    /\ \/ bytes = << >> /\ p \in {ZeroPacket, ClearedPacket} /\ po = se
       \/ \E m \in Inbound, t \in Nat, f \in Seq(Byte) : OnTheWay(m, t, f, bytes, p, po, se)

LEMMA InboundFrame ==
    ASSUME NEW m \in Inbound
    PROVE  Deliverable(m) /\ Frame(m) \in Seq(Byte) /\ Len(Frame(m)) = Len(BodyOf(m)) + 5 /\ Len(BodyOf(m)) \in Nat
<1>1. Deliverable(m)
      BY DeliverableAssumption
<1>2. BodyOf(m) \in Seq(Byte)
      BY <1>1, BodyIs DEF Deliverable
<1> QED BY <1>1, <1>2, FrameIs, LenProperties

\* A damaged frame differs in its last byte before the zero, which is another byte and no zero.
LEMMA DamagedIs ==
    ASSUME NEW m \in Inbound
    PROVE  /\ Damaged(m) \in Seq(Byte) /\ Len(Damaged(m)) = Len(BodyOf(m)) + 5
           /\ \A k \in 1 .. Len(BodyOf(m)) + 5 : k # Len(BodyOf(m)) + 4 => Damaged(m)[k] = Frame(m)[k]
           /\ Damaged(m)[Len(BodyOf(m)) + 4] # Frame(m)[Len(BodyOf(m)) + 4]
           /\ Damaged(m)[Len(BodyOf(m)) + 4] # 0 /\ Damaged(m)[Len(BodyOf(m)) + 4] \in Int
<1> DEFINE L == Len(BodyOf(m))
           f == Frame(m)
           at == L + 4
           b == f[at]
           c == IF b = 255 THEN 254 ELSE b + 1
<1>1. f \in Seq(Byte) /\ Len(f) = L + 5 /\ L \in Nat
      BY InboundFrame
<1> HIDE DEF L
<1>2. at \in 1 .. Len(f) /\ Len(f) - 1 = at
      BY <1>1
<1> HIDE DEF f, at
<1>3. b \in Byte
      BY <1>1, <1>2, ElementOfSeq
<1>4. b \in Int /\ 0 <= b /\ b <= 255
      BY <1>3, ByteDef
<1> HIDE DEF b
<1>5. c \in Int /\ 0 <= c /\ c <= 255 /\ c # b /\ c # 0
      BY <1>4
<1>6. c \in Byte
      BY <1>5, ByteDef
<1>7. Damaged(m) = [f EXCEPT ![at] = c]
      BY <1>2 DEF Damaged, f, b
<1> HIDE DEF c
<1>8. /\ [f EXCEPT ![at] = c] \in Seq(Byte) /\ Len([f EXCEPT ![at] = c]) = Len(f)
      /\ \A k \in 1 .. Len(f) : [f EXCEPT ![at] = c][k] = IF k = at THEN c ELSE f[k]
      BY <1>1, <1>2, <1>6, ExceptSeq
<1>9. /\ Damaged(m) \in Seq(Byte) /\ Len(Damaged(m)) = L + 5
      /\ \A k \in 1 .. L + 5 : Damaged(m)[k] = IF k = at THEN c ELSE f[k]
      BY <1>1, <1>7, <1>8
<1>10. Damaged(m)[at] = c /\ at \in 1 .. L + 5
      BY <1>1, <1>2, <1>9
<1>11. Damaged(m)[at] # f[at] /\ Damaged(m)[at] # 0 /\ Damaged(m)[at] \in Int
      BY <1>5, <1>10 DEF b
<1> QED BY <1>9, <1>11 DEF L, f, at

\* Up to the last byte of the checksum a damaged frame is taken as the one that was meant;
\* there it is refused.
LEMMA DamagedTakes ==
    ASSUME NEW m \in Inbound, CrcOf(BodyOf(m)) \div 256 # 0,
           NEW t \in 0 .. Len(BodyOf(m)) + 4, NEW p, Midway(m, t, p)
    PROVE  /\ t # Len(BodyOf(m)) + 3 =>
                  /\ DecodePacket(Damaged(m)[t + 1], p).status = EUI_PARSER_IDLE
                  /\ t < Len(BodyOf(m)) + 4 => Midway(m, t + 1, ParseByte(Damaged(m)[t + 1], p).packet)
                  /\ t = Len(BodyOf(m)) + 4 => ParseByte(Damaged(m)[t + 1], p).packet = ClearedPacket
           /\ t = Len(BodyOf(m)) + 3 =>
                  /\ DecodePacket(Damaged(m)[t + 1], p).status = EUI_PARSER_ERROR
                  /\ Midway(m, t + 1, ParseByte(Damaged(m)[t + 1], p).packet)
<1> DEFINE L == Len(BodyOf(m))
<1>1. Deliverable(m) /\ L \in Nat
      BY InboundFrame
<1>2. CASE t # L + 3
      <2>1. t + 1 \in 1 .. L + 5 /\ t + 1 # L + 4
            BY <1>1, <1>2
      <2>2. Damaged(m)[t + 1] = Frame(m)[t + 1]
            BY <2>1, DamagedIs
      <2>3. Takes(m, t, DecodePacket(Frame(m)[t + 1], p).status, ParseByte(Frame(m)[t + 1], p))
            BY <1>1, FrameByte
      <2> QED BY <1>2, <2>2, <2>3 DEF Takes
<1>3. CASE t = L + 3
      <2> DEFINE b == Damaged(m)[t + 1]
      <2>1. t + 1 = L + 4
            BY <1>1, <1>3
      <2>2. b \in Int /\ b # 0 /\ b # Frame(m)[L + 4]
            BY <2>1, DamagedIs
      <2>3. Onward(m, L + 1, p)
            <3>1. t # 0 /\ t # 1 /\ t # L + 4
                  BY <1>1, <1>3
            <3>2. PICK k \in 0 .. L + 1 : t = k + 2 /\ Onward(m, k, p)
                  BY <3>1 DEF Midway
            <3>3. k = L + 1
                  BY <1>1, <1>3, <3>2
            <3> QED BY <3>2, <3>3
      <2> HIDE DEF b
      <2>4. DecodePacket(b, p).status = EUI_PARSER_ERROR
            BY <1>1, <2>2, <2>3, DamagedByte
      <2>5. ParseByte(b, p).packet = ZeroPacket
            BY <2>4 DEF ParseByte, EUI_PARSER_ERROR, EUI_PARSER_IDLE
      <2>6. Midway(m, t + 1, ParseByte(b, p).packet)
            BY <2>1, <2>5 DEF Midway
      <2> QED BY <1>3, <2>4, <2>6 DEF b
<1> QED BY <1>2, <1>3

\* what a polled byte does to a link
Idle(bytes, p, po, se, status, step) == status = EUI_PARSER_IDLE /\ At(bytes, step.packet, po, se)
Refused(bytes, p, po, se, status, step) == status = EUI_PARSER_ERROR /\ At(bytes, step.packet, po, se)
Completed(bytes, p, po, se, status, step) ==
    /\ status = EUI_PARSER_OK
    /\ \E m \in Inbound :
          /\ Decoded(step.accepted[1]) = m /\ step.accepted[1].data_bytes_in = Len(m.data)
          /\ Handed(step) = <<m>> /\ po = Append(se, m)
          /\ At(bytes, step.packet, po, Append(se, m))

LEMMA Polled ==
    ASSUME NEW bytes, NEW p, NEW po, NEW se, At(bytes, p, po, se), bytes # << >>
    PROVE  \/ Idle(Tail(bytes), p, po, se, DecodePacket(Head(bytes), p).status, ParseByte(Head(bytes), p))
           \/ Refused(Tail(bytes), p, po, se, DecodePacket(Head(bytes), p).status, ParseByte(Head(bytes), p))
           \/ Completed(Tail(bytes), p, po, se, DecodePacket(Head(bytes), p).status, ParseByte(Head(bytes), p))
<1> DEFINE b == Head(bytes)
           status == DecodePacket(b, p).status
           step == ParseByte(b, p)
           rest == Tail(bytes)
<1>1. po \in Seq(Inbound) /\ se \in Seq(Inbound)
      BY DEF At
<1>2. PICK m \in Inbound, t \in Nat, f \in Seq(Byte) : OnTheWay(m, t, f, bytes, p, po, se)
      BY DEF At
<1> DEFINE L == Len(BodyOf(m))
<1>3. Deliverable(m) /\ L \in Nat /\ Frame(m) \in Seq(Byte) /\ Len(Frame(m)) = L + 5
      BY InboundFrame
<1>4. t \in 0 .. L + 4 /\ bytes = LeftOf(f, t) /\ Midway(m, t, p)
      BY <1>2 DEF OnTheWay
<1>5. Len(f) = L + 5
      BY <1>2, <1>3, DamagedIs DEF OnTheWay
<1>6. t \in 0 .. Len(f) - 1 /\ t + 1 \in Nat /\ (t < L + 4 => t + 1 \in 0 .. L + 4) /\ (t = L + 4 => t + 1 = Len(f))
      /\ (t = L + 4 \/ t < L + 4)
      BY <1>3, <1>4, <1>5
<1>7. b = f[t + 1] /\ rest = LeftOf(f, t + 1) /\ (t = L + 4 => rest = << >>)
      BY <1>4, <1>6, LeftOfIs
<1> HIDE DEF b, rest
<1>8. CASE f = Frame(m) /\ po = se \o Owed(m, t)
      <2>1. Takes(m, t, status, step)
            BY <1>3, <1>4, <1>7, <1>8, FrameByte
      <2> HIDE DEF status, step
      <2>2. /\ t < L + 4 => Midway(m, t + 1, step.packet)
            /\ t = L + 4 => step.packet = ClearedPacket
            BY <2>1 DEF Takes
      <2>3. ASSUME NEW s \in Seq(Inbound), po = s \o Owed(m, t + 1) PROVE At(rest, step.packet, po, s)
            <3>1. CASE t < L + 4
                  <4>1. OnTheWay(m, t + 1, f, rest, step.packet, po, s)
                        BY <1>6, <1>7, <1>8, <2>2, <2>3, <3>1 DEF OnTheWay
                  <4> QED BY <1>1, <1>6, <4>1 DEF At
            <3>2. CASE t = L + 4
                  <4>1. ~(t + 1 <= L + 3)
                        BY <1>3, <3>2
                  <4>2. Owed(m, t + 1) = << >>
                        BY <4>1 DEF Owed
                  <4>3. po = s
                        BY <2>3, <4>2, ConcatEmptySeq
                  <4> QED BY <1>1, <1>7, <2>2, <3>2, <4>3 DEF At
            <3> QED BY <1>6, <3>1, <3>2
      <2>4. CASE t = L + 3
            <3>1. t <= L + 3 /\ ~(t + 1 <= L + 3)
                  BY <1>3, <2>4
            <3>2. Owed(m, t) = <<m>> /\ Owed(m, t + 1) = << >>
                  BY <3>1 DEF Owed
            <3>3. po = Append(se, m) /\ Append(se, m) \in Seq(Inbound)
                  BY <1>1, <1>8, <3>2, AppendIsConcat, AppendProperties
            <3>4. po = Append(se, m) \o Owed(m, t + 1)
                  BY <3>2, <3>3, ConcatEmptySeq
            <3>5. At(rest, step.packet, po, Append(se, m))
                  BY <2>3, <3>3, <3>4
            <3>6. /\ status = EUI_PARSER_OK /\ Handed(step) = <<m>> /\ Decoded(step.accepted[1]) = m
                  /\ step.accepted[1].data_bytes_in = Len(m.data)
                  BY <2>1, <2>4 DEF Takes
            <3> QED BY <3>3, <3>5, <3>6 DEF Completed, b, rest, status, step
      <2>5. CASE t # L + 3
            <3>1. Owed(m, t + 1) = Owed(m, t)
                  <4>1. (t <= L + 3) <=> (t + 1 <= L + 3)
                        BY <1>3, <1>4, <2>5
                  <4> QED BY <4>1 DEF Owed
            <3>2. At(rest, step.packet, po, se)
                  BY <1>1, <1>8, <2>3, <3>1
            <3>3. status = EUI_PARSER_IDLE
                  BY <2>1, <2>5 DEF Takes
            <3> QED BY <3>2, <3>3 DEF Idle, b, rest, status, step
      <2> QED BY <2>4, <2>5
<1>9. CASE f = Damaged(m) /\ CrcOf(BodyOf(m)) \div 256 # 0 /\ po = se
      <2>1. /\ t # L + 3 =>
                  /\ status = EUI_PARSER_IDLE
                  /\ t < L + 4 => Midway(m, t + 1, step.packet)
                  /\ t = L + 4 => step.packet = ClearedPacket
            /\ t = L + 3 => status = EUI_PARSER_ERROR /\ Midway(m, t + 1, step.packet)
            BY <1>4, <1>7, <1>9, DamagedTakes
      <2> HIDE DEF status, step
      <2>2. At(rest, step.packet, po, se)
            <3>1. CASE t < L + 4
                  <4>1. Midway(m, t + 1, step.packet)
                        BY <2>1, <3>1
                  <4>2. OnTheWay(m, t + 1, f, rest, step.packet, po, se)
                        BY <1>6, <1>7, <1>9, <3>1, <4>1 DEF OnTheWay
                  <4> QED BY <1>1, <1>6, <4>2 DEF At
            <3>2. CASE t = L + 4
                  <4>1. step.packet = ClearedPacket
                        BY <1>3, <2>1, <3>2
                  <4> QED BY <1>1, <1>7, <1>9, <3>2, <4>1 DEF At
            <3> QED BY <1>6, <3>1, <3>2
      <2> QED BY <2>1, <2>2 DEF Idle, Refused, b, rest, status, step
<1> QED BY <1>2, <1>8, <1>9 DEF OnTheWay
-----------------------------------------------------------------------------
(* The links *)

\* an array of the links
OverLinks(f) == f = [link \in Links |-> f[link]]

\* Every link, by itself, is between two frames or within one.
DeviceInv ==
    /\ OverLinks(packet) /\ OverLinks(rx) /\ OverLinks(posted) /\ OverLinks(served)
    /\ \A link \in Links : At(rx[link], packet[link], posted[link], served[link])

LEMMA DeviceStarts == DeviceInit => DeviceInv
<1> SUFFICES ASSUME DeviceInit PROVE DeviceInv
      OBVIOUS
<1>1. /\ packet = [link \in Links |-> ZeroPacket] /\ rx = [link \in Links |-> << >>]
      /\ posted = [link \in Links |-> << >>] /\ served = [link \in Links |-> << >>]
      BY DEF DeviceInit
<1>2. At(<< >>, ZeroPacket, << >>, << >>)
      BY EmptySeq DEF At
<1> QED BY <1>1, <1>2 DEF DeviceInv, OverLinks

\* Writing one link of an array, and writing back what it holds.
LEMMA Written ==
    ASSUME NEW f, OverLinks(f), NEW link \in Links, NEW x
    PROVE  /\ OverLinks([f EXCEPT ![link] = x]) /\ [f EXCEPT ![link] = x][link] = x
           /\ \A other \in Links : other # link => [f EXCEPT ![link] = x][other] = f[other]
           /\ [f EXCEPT ![link] = f[link]] = f
BY DEF OverLinks

\* A step of the other links leaves this one alone.
LEMMA LinkKept ==
    ASSUME DeviceInv, NEW link \in Links,
           NEW r, NEW p, NEW po, NEW se, At(r, p, po, se),
           rx' = [rx EXCEPT ![link] = r], packet' = [packet EXCEPT ![link] = p],
           posted' = [posted EXCEPT ![link] = po], served' = [served EXCEPT ![link] = se]
    PROVE  DeviceInv'
<1>0. /\ OverLinks(packet) /\ OverLinks(rx) /\ OverLinks(posted) /\ OverLinks(served)
      BY DEF DeviceInv
<1>1. OverLinks(packet') /\ OverLinks(rx') /\ OverLinks(posted') /\ OverLinks(served')
      BY <1>0, Written
<1>2. ASSUME NEW other \in Links PROVE At(rx[other], packet[other], posted[other], served[other])'
      <2>1. CASE other = link
            <3>1. rx'[other] = r /\ packet'[other] = p /\ posted'[other] = po /\ served'[other] = se
                  BY <1>0, <2>1, Written, SMTT(30)
            <3> QED BY <3>1
      <2>2. CASE other # link
            <3>1. /\ rx'[other] = rx[other] /\ packet'[other] = packet[other]
                  /\ posted'[other] = posted[other] /\ served'[other] = served[other]
                  BY <1>0, <2>2, Written
            <3> QED BY <3>1 DEF DeviceInv
      <2> QED BY <2>1, <2>2
<1> QED BY <1>1, <1>2 DEF DeviceInv

\* A peer only posts between two frames.
LEMMA PostKeeps ==
    ASSUME DeviceInv, NEW link \in Links, NEW m \in Inbound, Post(link, m) \/ PostDamaged(link, m)
    PROVE  DeviceInv' /\ UNCHANGED vars
<1> DEFINE po == posted[link]
           se == served[link]
           p  == packet[link]
<1>1. rx[link] = << >> /\ packet' = packet /\ served' = served /\ UNCHANGED vars
      BY DEF Post, PostDamaged, vars
<1>2. po \in Seq(Inbound) /\ se \in Seq(Inbound) /\ p \in {ZeroPacket, ClearedPacket} /\ po = se
      <2>1. At(rx[link], p, po, se)
            BY DEF DeviceInv
      <2> HIDE DEF p, po, se
      <2>2. ASSUME NEW n \in Inbound, NEW t \in Nat, NEW f \in Seq(Byte), OnTheWay(n, t, f, rx[link], p, po, se)
            PROVE  FALSE
            <3>1. Len(f) = Len(BodyOf(n)) + 5 /\ Len(BodyOf(n)) \in Nat
                  BY <2>2, InboundFrame, DamagedIs DEF OnTheWay
            <3>2. t \in 0 .. Len(f) - 1 /\ rx[link] = LeftOf(f, t)
                  BY <2>2, <3>1 DEF OnTheWay
            <3> QED BY <1>1, <3>2, LeftOfIs
      <2> QED BY <1>1, <2>1, <2>2 DEF At
<1>3. packet' = [packet EXCEPT ![link] = p] /\ served' = [served EXCEPT ![link] = se]
      BY <1>1, Written DEF DeviceInv
<1> HIDE DEF p, se
<1>4. Midway(m, 0, p) /\ 0 \in 0 .. Len(BodyOf(m)) + 4 /\ 0 \in Nat
      <2>1. Len(BodyOf(m)) \in Nat
            BY InboundFrame
      <2> QED BY <1>2, <2>1 DEF Midway
<1>5. CASE Post(link, m)
      <2>1. rx' = [rx EXCEPT ![link] = Frame(m)] /\ posted' = [posted EXCEPT ![link] = Append(po, m)]
            BY <1>5 DEF Post
      <2> HIDE DEF po
      <2>2. Frame(m) \in Seq(Byte) /\ Frame(m) = LeftOf(Frame(m), 0)
            BY InboundFrame, LeftOfIs
      <2>3. Append(po, m) \in Seq(Inbound) /\ Append(po, m) = se \o Owed(m, 0)
            <3>1. 0 <= Len(BodyOf(m)) + 3
                  BY InboundFrame
            <3>2. Owed(m, 0) = <<m>>
                  BY <3>1 DEF Owed
            <3> QED BY <1>2, <3>2, AppendProperties, AppendIsConcat
      <2>4. OnTheWay(m, 0, Frame(m), Frame(m), p, Append(po, m), se)
            BY <1>4, <2>2, <2>3 DEF OnTheWay
      <2>5. At(Frame(m), p, Append(po, m), se)
            BY <1>2, <1>4, <2>2, <2>3, <2>4 DEF At
      <2> QED BY <1>1, <1>3, <2>1, <2>5, LinkKept
<1>6. CASE PostDamaged(link, m)
      <2>1. rx' = [rx EXCEPT ![link] = Damaged(m)] /\ posted' = [posted EXCEPT ![link] = po]
            /\ CrcOf(BodyOf(m)) \div 256 # 0
            BY <1>6, Written DEF PostDamaged, DeviceInv
      <2> HIDE DEF po
      <2>2. Damaged(m) \in Seq(Byte) /\ Damaged(m) = LeftOf(Damaged(m), 0)
            BY DamagedIs, LeftOfIs
      <2>3. OnTheWay(m, 0, Damaged(m), Damaged(m), p, po, se)
            BY <1>2, <1>4, <2>1, <2>2 DEF OnTheWay
      <2>4. At(Damaged(m), p, po, se)
            BY <1>2, <1>4, <2>2, <2>3 DEF At
      <2> QED BY <1>1, <1>3, <2>1, <2>4, LinkKept
<1> QED BY <1>5, <1>6

\* what a polled byte is to the handlers
Handles(link) ==
    \/ UNCHANGED vars
    \/ EuiParseError(link)
    \/ \E m \in Inbound, before \in Seq(Inbound) :
          /\ \E counted \in Counts(m) : EuiParseOk(link, m, counted)
          /\ posted[link] = Append(before, m)

\* Without a broken frame before it a packet counts its own payload only.
LEMMA DataCounts == ASSUME NEW m \in Inbound PROVE (Len(m.data) # 0) \in Counts(m)
<1>1. m.data \in Seq(Byte)
      BY DeliverableAssumption, SendableIs DEF Deliverable
<1>2. Len(m.data) # 0 <=> m.data # << >>
      BY <1>1
<1> QED BY <1>2, Zenon DEF Counts

LEMMA PollKeeps ==
    ASSUME DeviceInv, NEW link \in Links, Poll(link)
    PROVE  DeviceInv' /\ Handles(link)
<1> DEFINE po == posted[link]
           se == served[link]
           p  == packet[link]
           bytes == rx[link]
           status == DecodePacket(Head(bytes), p).status
           step == ParseByte(Head(bytes), p)
<1>1. /\ bytes # << >> /\ packet' = [packet EXCEPT ![link] = step.packet]
      /\ rx' = [rx EXCEPT ![link] = Tail(bytes)] /\ posted' = posted
      /\ \/ /\ status = EUI_PARSER_OK
            /\ EuiParseOk(link, Decoded(step.accepted[1]), step.accepted[1].data_bytes_in # 0)
            /\ served' = [served EXCEPT ![link] = se \o Handed(step)]
         \/ status = EUI_PARSER_ERROR /\ EuiParseError(link) /\ UNCHANGED served
         \/ status = EUI_PARSER_IDLE /\ UNCHANGED vars /\ UNCHANGED served
      BY DEF Poll
<1>2. At(bytes, p, po, se)
      BY DEF DeviceInv
<1>3. posted' = [posted EXCEPT ![link] = po] /\ (served' = served => served' = [served EXCEPT ![link] = se])
      BY <1>1, Written DEF DeviceInv
<1>4. po \in Seq(Inbound) /\ se \in Seq(Inbound)
      BY <1>2 DEF At
<1> DEFINE rest == Tail(bytes)
           idle      == Idle(rest, p, po, se, status, step)
           refused   == Refused(rest, p, po, se, status, step)
           completed == Completed(rest, p, po, se, status, step)
<1>5. idle \/ refused \/ completed
      BY <1>1, <1>2, Polled
<1> HIDE DEF po, se, p, status, step, rest
<1>6. rx' = [rx EXCEPT ![link] = rest]
      BY <1>1 DEF rest
<1> HIDE DEF bytes
<1>7. ASSUME At(rest, step.packet, po, se), served' = served PROVE DeviceInv'
      <2>1. served' = [served EXCEPT ![link] = se]
            BY <1>3, <1>7
      <2> QED BY <1>1, <1>3, <1>6, <1>7, <2>1, LinkKept
<1>8. CASE idle
      <2>1. status = EUI_PARSER_IDLE /\ At(rest, step.packet, po, se)
            BY <1>8 DEF Idle
      <2>2. UNCHANGED vars /\ served' = served
            BY <1>1, <2>1 DEF EUI_PARSER_IDLE, EUI_PARSER_OK, EUI_PARSER_ERROR
      <2> QED BY <1>7, <2>1, <2>2 DEF Handles
<1>9. CASE refused
      <2>1. status = EUI_PARSER_ERROR /\ At(rest, step.packet, po, se)
            BY <1>9 DEF Refused
      <2>2. EuiParseError(link) /\ served' = served
            BY <1>1, <2>1 DEF EUI_PARSER_IDLE, EUI_PARSER_OK, EUI_PARSER_ERROR
      <2> QED BY <1>7, <2>1, <2>2 DEF Handles
<1>10. CASE completed
      <2>1. PICK m \in Inbound :
               /\ Decoded(step.accepted[1]) = m /\ step.accepted[1].data_bytes_in = Len(m.data)
               /\ Handed(step) = <<m>> /\ po = Append(se, m)
               /\ At(rest, step.packet, po, Append(se, m))
            BY <1>10 DEF Completed
      <2>2. status = EUI_PARSER_OK
            BY <1>10 DEF Completed
      <2>3. /\ EuiParseOk(link, m, Len(m.data) # 0)
            /\ served' = [served EXCEPT ![link] = se \o <<m>>]
            BY <1>1, <2>1, <2>2 DEF EUI_PARSER_IDLE, EUI_PARSER_OK, EUI_PARSER_ERROR
      <2>counted. (Len(m.data) # 0) \in Counts(m)
            BY DataCounts
      <2>4. se \o <<m>> = Append(se, m)
            BY <1>4, AppendIsConcat
      <2>5. DeviceInv'
            <3>1. served' = [served EXCEPT ![link] = Append(se, m)]
                  BY <2>3, <2>4
            <3>2. At(rest, step.packet, po, Append(se, m))
                  BY <2>1
            <3>3. packet' = [packet EXCEPT ![link] = step.packet] /\ posted' = [posted EXCEPT ![link] = po]
                  BY <1>1, <1>3
            <3> QED BY <1>6, <3>1, <3>2, <3>3, LinkKept
      <2> QED BY <1>4, <2>1, <2>3, <2>counted, <2>5 DEF Handles, po
<1> QED BY <1>5, <1>8, <1>9, <1>10

LEMMA DeviceMoves ==
    ASSUME DeviceInv, [DeviceNext]_device_vars
    PROVE  DeviceInv'
<1>1. CASE \E link \in Links : \E m \in Inbound : Post(link, m) \/ PostDamaged(link, m)
      BY <1>1, PostKeeps
<1>2. CASE \E link \in Links : Poll(link)
      BY <1>2, PollKeeps
<1>3. CASE Main \/ UNCHANGED device_vars
      BY <1>3 DEF Main, device_vars, DeviceInv
<1> QED BY <1>1, <1>2, <1>3 DEF DeviceNext

LEMMA DeviceHandles ==
    ASSUME DeviceInv, [DeviceNext]_device_vars
    PROVE  [Next]_vars
<1>1. CASE \E link \in Links : \E m \in Inbound : Post(link, m) \/ PostDamaged(link, m)
      BY <1>1, PostKeeps
<1>2. CASE \E link \in Links : Poll(link)
      <2>1. PICK link \in Links : Handles(link)
            BY <1>2, PollKeeps
      <2> QED BY <2>1 DEF Handles, Next, Inputs
<1>3. CASE Main
      BY <1>3 DEF Main, Next
<1>4. CASE UNCHANGED device_vars
      BY <1>4 DEF device_vars, vars
<1> QED BY <1>1, <1>2, <1>3, <1>4 DEF DeviceNext

\* Whatever bytes of whatever packets arrive on the links, in any interleaving, damaged
\* frames among them: a call that completes a packet is a call of the handlers on a packet
\* a peer sent, one that refuses a packet is an error they report, and no other call has
\* an effect.
THEOREM DeviceImplements == DeviceSpec => ImplementsElectricUI
<1>1. DeviceInit => Init
      BY DEF DeviceInit
<1> QED BY <1>1, DeviceStarts, DeviceMoves, DeviceHandles, PTL DEF DeviceSpec, ImplementsElectricUI, Spec

\* The packets of a link are handled once and in order, whatever the other links and the
\* application do and however many frames arrive damaged.
THEOREM ServesInOrder == DeviceSpec => []ServedOnceInOrder
<1>1. DeviceInv => ServedOnceInOrder
      <2> SUFFICES ASSUME DeviceInv, NEW link \in Links, rx[link] = << >> PROVE served[link] = posted[link]
            BY DEF ServedOnceInOrder
      <2> DEFINE po == posted[link]
                 se == served[link]
                 p  == packet[link]
      <2>1. At(rx[link], p, po, se)
            BY DEF DeviceInv
      <2> HIDE DEF p, po, se
      <2>2. ASSUME NEW n \in Inbound, NEW t \in Nat, NEW f \in Seq(Byte), OnTheWay(n, t, f, rx[link], p, po, se)
            PROVE  FALSE
            <3>1. Len(f) = Len(BodyOf(n)) + 5 /\ Len(BodyOf(n)) \in Nat
                  BY <2>2, InboundFrame, DamagedIs DEF OnTheWay
            <3>2. t \in 0 .. Len(f) - 1 /\ rx[link] = LeftOf(f, t)
                  BY <2>2, <3>1 DEF OnTheWay
            <3> QED BY <3>2, LeftOfIs
      <2> QED BY <2>1, <2>2 DEF At, po, se
<1> QED BY <1>1, DeviceStarts, DeviceMoves, PTL DEF DeviceSpec

\* Only a packet that was sent moves the default interface, and it moves it to its link.
LEMMA DefaultMoves ==
    ASSUME DeviceInv, [DeviceNext]_device_vars, interface_last' # interface_last, call'.op = "eui_parse"
    PROVE  /\ interface_last' = call'.link
           /\ posted[call'.link] # << >>
           /\ call'.message = <<Last(posted[call'.link])>>
<1>1. CASE \E link \in Links : \E m \in Inbound : Post(link, m) \/ PostDamaged(link, m)
      BY <1>1, PostKeeps DEF vars
<1>2. CASE \E link \in Links : Poll(link)
      <2>1. PICK link \in Links : Handles(link)
            BY <1>2, PollKeeps
      <2>2. PICK m \in Inbound, before \in Seq(Inbound) :
                /\ \E counted \in Counts(m) : EuiParseOk(link, m, counted)
                /\ posted[link] = Append(before, m)
            BY <2>1 DEF Handles, vars, EuiParseError
      <2>3. interface_last' = link /\ call'.link = link /\ call'.message = <<m>>
            BY <2>2 DEF EuiParseOk, Call
      <2>4. posted[link] # << >> /\ Last(posted[link]) = m
            BY <2>2, AppendProperties DEF Last
      <2> QED BY <2>3, <2>4
<1>3. CASE Main
      <2>1. Application \/ Setup
            BY <1>3 DEF Main
      <2>2. ~Application
            BY DEF Application, EuiSendTracked, EuiSendTrackedOn, EuiSendUntracked, EuiSendUntrackedOn, Send, AppStore
      <2>3. CASE Setup
            BY <2>3 DEF Setup, EuiSetupInterfaces, EuiClearInterfaces, EuiSetupTracked, EuiSetupIdentifier, Call
      <2> QED BY <2>1, <2>2, <2>3
<1>4. CASE UNCHANGED device_vars
      BY <1>4 DEF device_vars, vars
<1> QED BY <1>1, <1>2, <1>3, <1>4 DEF DeviceNext

\* The default interface is the link of the packet that a peer sent last, whatever else
\* arrives: no byte, no damaged frame and no packet in the middle of its bytes moves it.
THEOREM DefaultIsGenuine == DeviceSpec => DefaultFollowsPackets
<1> DEFINE A == interface_last' # interface_last /\ call'.op = "eui_parse" =>
                    /\ interface_last' = call'.link
                    /\ posted[call'.link] # << >>
                    /\ call'.message = <<Last(posted[call'.link])>>
<1>1. DeviceInv /\ [DeviceNext]_device_vars => [A]_device_vars
      BY DefaultMoves
<1> QED BY <1>1, DeviceStarts, DeviceMoves, PTL DEF DeviceSpec, DefaultFollowsPackets

\* What the handlers promise of every packet they are given, the device promises of every
\* byte that arrives: it answers on the link that asked, acknowledges what was done, tells
\* and reports the values there are, and changes only what a packet addresses: what is
\* stored and acknowledged if the sums of the bounds check do not wrap.
THEOREM DeviceKeepsPromises ==
    DeviceSpec =>
        /\ []AnswersOnRequestLink /\ []StatusIsTrue
        /\ []QueryIsCurrent /\ []HandshakeListsAll /\ []HandshakeSendsValues
        /\ (PAYLOAD_SIZE_MAX >= 44 => []FitsBuffers)
        /\ (SumsHold => []AckedMeansDone /\ OnlyAddressedBytes)
        /\ FailureChangesNothing
<1>1. DeviceSpec => Spec
      BY DeviceImplements DEF ImplementsElectricUI
<1>2. PAYLOAD_SIZE_MAX >= 44 => (Spec => []FitsBuffers)
      BY BuffersSuffice
<1>3. SumsHold => (Spec => []AckedMeansDone /\ OnlyAddressedBytes)
      BY AcksAreTrue, OnlyAddressed
<1> QED BY <1>1, <1>2, <1>3, AnswersGoBack, StatusesAreTrue, QueriesAreCurrent,
           HandshakeTellsNames, HandshakeTellsValues, FailuresAreWhole
=============================================================================
