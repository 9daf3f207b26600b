--------------------------- MODULE RecoveryProofs ---------------------------
(* What a line that loses bytes cannot spoil: for any messages and any losses,  *)
(* a frame that arrives whole at a parser between packets is heard.             *)
EXTENDS LinkRecovery, TransportProofs

\* what was handed over when t bytes of a whole frame of m were polled
HeardOf(m, t) == IF t <= Len(BodyOf(m)) + 3 THEN << >> ELSE <<m>>

\* t bytes of the frame of m were polled, and none was lost
Following(m, t) ==
    /\ t \in 0 .. Len(BodyOf(m)) + 4
    /\ rx = LeftOf(Frame(m), t) /\ Midway(m, t, packet)
    /\ accepted = HeardOf(m, t)

\* An intact frame is being followed, or it was heard.
RecoveryInv ==
    /\ arriving \in Messages /\ faults \in Nat
    /\ intact =>
          \/ rx = << >> /\ accepted = <<arriving>> /\ Between(packet)
          \/ \E t \in Nat : Following(arriving, t)

LEMMA WholeFrame ==
    ASSUME NEW m, Deliverable(m)
    PROVE  Frame(m) \in Seq(Byte) /\ Len(Frame(m)) = Len(BodyOf(m)) + 5 /\ Len(BodyOf(m)) \in Nat
<1>1. BodyOf(m) \in Seq(Byte)
      BY BodyIs DEF Deliverable
<1> QED BY <1>1, FrameIs, LenProperties

\* Before its first byte, at a parser between packets, every frame is followed.
LEMMA FrameBegins ==
    ASSUME NEW m \in Messages, Deliverable(m), NEW p, Between(p)
    PROVE  /\ 0 \in 0 .. Len(BodyOf(m)) + 4 /\ FrameOf[m] = LeftOf(Frame(m), 0)
           /\ Midway(m, 0, p) /\ HeardOf(m, 0) = << >>
<1>1. Frame(m) \in Seq(Byte) /\ Len(BodyOf(m)) \in Nat
      BY WholeFrame
<1>2. FrameOf[m] = Frame(m)
      BY DEF FrameOf
<1>3. LeftOf(Frame(m), 0) = Frame(m)
      BY <1>1, LeftOfIs
<1>4. Midway(m, 0, p)
      BY DEF Midway, Between, ClearedPacket
<1> QED BY <1>1, <1>2, <1>3, <1>4 DEF HeardOf

LEMMA RecoveryStarts ==
    ASSUME \A m \in Messages : Deliverable(m), Init
    PROVE  RecoveryInv
<1>1. /\ arriving = Regular /\ rx = FrameOf[Regular] /\ packet = ZeroPacket /\ accepted = << >>
      /\ faults \in Nat
      BY DEF Init
<1>2. Regular \in Messages /\ Deliverable(Regular) /\ Between(ZeroPacket)
      BY DEF Messages, Between
<1>3. Following(Regular, 0)
      BY <1>1, <1>2, FrameBegins DEF Following
<1> QED BY <1>1, <1>2, <1>3 DEF RecoveryInv

LEMMA RecoverySends ==
    ASSUME \A m \in Messages : Deliverable(m), RecoveryInv, NEW m \in Messages, Send(m)
    PROVE  RecoveryInv'
<1>1. /\ arriving' = m /\ rx' = FrameOf[m] /\ packet' = packet /\ accepted' = << >>
      /\ intact' = Between(packet) /\ faults' \in Nat
      BY DEF Send, RecoveryInv
<1>2. ASSUME Between(packet) PROVE Following(m, 0)'
      <2>1. /\ 0 \in 0 .. Len(BodyOf(m)) + 4 /\ FrameOf[m] = LeftOf(Frame(m), 0)
            /\ Midway(m, 0, packet) /\ HeardOf(m, 0) = << >>
            BY <1>2, FrameBegins
      <2> QED BY <1>1, <2>1 DEF Following
<1> QED BY <1>1, <1>2 DEF RecoveryInv

LEMMA RecoveryParses ==
    ASSUME \A m \in Messages : Deliverable(m), RecoveryInv, EuiParse
    PROVE  RecoveryInv'
<1> DEFINE b == Head(rx)
           status == DecodePacket(b, packet).status
           step == ParseByte(b, packet)
<1>1. /\ rx # << >> /\ rx' = Tail(rx) /\ arriving' = arriving /\ intact' = intact
      /\ packet' = step.packet /\ accepted' = accepted \o Handed(step) /\ faults' \in Nat
      BY DEF EuiParse, Poll, frame_vars, RecoveryInv
<1>2. PICK m : m = arriving
      OBVIOUS
<1>3. m \in Messages /\ Deliverable(m)
      BY <1>2 DEF RecoveryInv
<1> SUFFICES ASSUME intact
             PROVE  \/ rx' = << >> /\ accepted' = <<m>> /\ Between(packet')
                    \/ \E t \in Nat : Following(m, t)'
      BY <1>1, <1>2, <1>3 DEF RecoveryInv
<1>4. PICK t \in Nat : Following(m, t)
      BY <1>1, <1>2 DEF RecoveryInv
<1> DEFINE L == Len(BodyOf(m))
<1>5. Frame(m) \in Seq(Byte) /\ Len(Frame(m)) = L + 5 /\ L \in Nat
      BY <1>3, WholeFrame
<1>6. t \in 0 .. L + 4 /\ t \in 0 .. Len(Frame(m)) - 1 /\ accepted = HeardOf(m, t)
      BY <1>4, <1>5 DEF Following
<1>7. b = Frame(m)[t + 1] /\ rx' = LeftOf(Frame(m), t + 1) /\ (t = L + 4 => rx' = << >>)
      <2>1. rx = LeftOf(Frame(m), t)
            BY <1>4 DEF Following
      <2>2. /\ \A k \in 0 .. Len(Frame(m)) - 1 :
                  /\ Head(LeftOf(Frame(m), k)) = Frame(m)[k + 1]
                  /\ Tail(LeftOf(Frame(m), k)) = LeftOf(Frame(m), k + 1)
            /\ LeftOf(Frame(m), Len(Frame(m))) = << >>
            BY <1>5, LeftOfIs
      <2>3. Head(rx) = Frame(m)[t + 1] /\ Tail(rx) = LeftOf(Frame(m), t + 1)
            BY <1>6, <2>1, <2>2
      <2>4. t = L + 4 => t + 1 = Len(Frame(m))
            BY <1>5
      <2> QED BY <1>1, <2>2, <2>3, <2>4
<1>8. Takes(m, t, status, step)
      <2>1. Midway(m, t, packet)
            BY <1>4 DEF Following
      <2> QED BY <1>3, <1>6, <1>7, <2>1, FrameByte
<1> HIDE DEF b, status, step
<1>9. /\ t < L + 4 => Midway(m, t + 1, packet')
      /\ t = L + 4 => packet' = ClearedPacket
      /\ accepted' = accepted \o (IF t = L + 3 THEN <<m>> ELSE << >>)
      BY <1>1, <1>8 DEF Takes
<1> HIDE DEF L
<1>10. accepted' = HeardOf(m, t + 1)
      <2>1. CASE t < L + 3
            <3>1. t <= L + 3 /\ t + 1 <= L + 3 /\ t # L + 3
                  BY <1>5, <1>6, <2>1
            <3>2. accepted = << >> /\ accepted' = accepted \o << >> /\ HeardOf(m, t + 1) = << >>
                  BY <1>6, <1>9, <3>1 DEF HeardOf, L
            <3> QED BY <3>2
      <2>2. CASE t = L + 3
            <3>1. t <= L + 3 /\ ~(t + 1 <= L + 3)
                  BY <1>5, <2>2
            <3>2. accepted = << >> /\ accepted' = accepted \o <<m>> /\ HeardOf(m, t + 1) = <<m>>
                  BY <1>6, <1>9, <2>2, <3>1 DEF HeardOf, L
            <3> QED BY <3>2
      <2>3. CASE t = L + 4
            <3>1. ~(t <= L + 3) /\ ~(t + 1 <= L + 3) /\ t # L + 3
                  BY <1>5, <2>3
            <3>2. accepted = <<m>> /\ accepted' = accepted \o << >> /\ HeardOf(m, t + 1) = <<m>>
                  BY <1>6, <1>9, <3>1 DEF HeardOf, L
            <3> QED BY <3>2
      <2> QED BY <1>5, <1>6, <2>1, <2>2, <2>3
<1>11. CASE t < L + 4
      <2>1. t + 1 \in 0 .. Len(BodyOf(m)) + 4 /\ t + 1 \in Nat
            BY <1>5, <1>6, <1>11 DEF L
      <2>2. Following(m, t + 1)'
            BY <1>7, <1>9, <1>10, <1>11, <2>1 DEF Following
      <2> QED BY <2>1, <2>2
<1>12. CASE t = L + 4
      <2>1. ~(t + 1 <= Len(BodyOf(m)) + 3)
            BY <1>5, <1>12 DEF L
      <2>2. accepted' = <<m>>
            BY <1>10, <2>1 DEF HeardOf
      <2>3. Between(packet')
            BY <1>9, <1>12 DEF Between, ClearedPacket
      <2> QED BY <1>7, <1>12, <2>2, <2>3
<1> QED BY <1>5, <1>6, <1>11, <1>12

LEMMA RecoveryMoves ==
    ASSUME \A m \in Messages : Deliverable(m), RecoveryInv, [Next]_vars
    PROVE  RecoveryInv'
<1>1. CASE SendRegular
      <2>1. Send(Regular) /\ Regular \in Messages
            BY <1>1 DEF SendRegular, Messages
      <2> QED BY <2>1, RecoverySends
<1>2. CASE SendOccasional
      <2>1. PICK m \in Occasional : Send(m)
            BY <1>2 DEF SendOccasional
      <2>2. m \in Messages
            BY DEF Messages
      <2> QED BY <2>1, <2>2, RecoverySends
<1>3. CASE EuiParse
      BY <1>3, RecoveryParses
<1>4. CASE \E n \in 1 .. Len(rx) : LoseBytes(n)
      BY <1>4 DEF LoseBytes, RecoveryInv
<1>5. CASE UNCHANGED vars
      BY <1>5 DEF vars, frame_vars, RecoveryInv, Following
<1> QED BY <1>1, <1>2, <1>3, <1>4, <1>5 DEF Next

LEMMA RecoveryHolds ==
    ASSUME \A m \in Messages : Deliverable(m)
    PROVE  Spec => []RecoveryInv
<1>1. Init => RecoveryInv
      BY RecoveryStarts
<1>2. RecoveryInv /\ [Next]_vars => RecoveryInv'
      BY RecoveryMoves
<1> QED BY <1>1, <1>2, PTL DEF Spec

\* Nothing is left to poll only once the whole frame was: it was heard.
LEMMA FrameEnds ==
    ASSUME \A m \in Messages : Deliverable(m), RecoveryInv, rx = << >>, intact
    PROVE  accepted = <<arriving>> /\ Between(packet)
<1>1. Deliverable(arriving)
      BY DEF RecoveryInv
<1>2. ASSUME NEW t \in Nat, Following(arriving, t) PROVE FALSE
      <2>1. t \in 0 .. Len(Frame(arriving)) - 1 /\ rx = LeftOf(Frame(arriving), t)
            BY <1>1, <1>2, WholeFrame DEF Following
      <2>2. Frame(arriving) \in Seq(Byte)
            BY <1>1, WholeFrame
      <2> QED BY <2>1, <2>2, LeftOfIs
<1> QED BY <1>2 DEF RecoveryInv

\* Whatever the messages and however many bytes are lost wherever: a frame that loses
\* nothing and meets a parser between packets is heard, and leaves it between packets.
THEOREM LossesStayLocal ==
    ASSUME \A m \in Messages : Deliverable(m)
    PROVE  Spec => []WholeFramesAreHeard
<1>1. RecoveryInv => WholeFramesAreHeard
      BY FrameEnds DEF WholeFramesAreHeard
<1> QED BY <1>1, RecoveryHolds, PTL

\* Once the parser is back at the frame boundaries only another loss can take it away from
\* them: no frame, whatever its message, leaves behind what would spoil the next one.
RecoveryLasts == [][intact /\ faults' = faults => intact']_vars

\* This holds of any messages and any losses before.
THEOREM OnlyLossesDisturb ==
    ASSUME \A m \in Messages : Deliverable(m)
    PROVE  Spec => RecoveryLasts
<1>1. ASSUME RecoveryInv, [Next]_vars
      PROVE  [intact /\ faults' = faults => intact']_vars
      <2> SUFFICES ASSUME Next, intact, faults' = faults PROVE intact'
            BY <1>1
      <2>1. ASSUME NEW m \in Messages, Send(m) PROVE intact'
            <3>1. rx = << >> /\ intact' = Between(packet)
                  BY <2>1 DEF Send
            <3> QED BY <1>1, <3>1, FrameEnds
      <2>2. CASE SendRegular
            BY <2>1, <2>2 DEF SendRegular, Messages
      <2>3. CASE SendOccasional
            BY <2>1, <2>3 DEF SendOccasional, Messages
      <2>4. CASE EuiParse
            BY <2>4 DEF EuiParse, Poll, frame_vars
      <2>5. CASE \E n \in 1 .. Len(rx) : LoseBytes(n)
            <3>1. faults' = faults + 1 /\ faults \in Nat
                  BY <2>5 DEF LoseBytes
            <3> QED BY <3>1
      <2> QED BY <2>2, <2>3, <2>4, <2>5 DEF Next
<1>2. RecoveryInv /\ [Next]_vars => [intact /\ faults' = faults => intact']_vars
      BY <1>1
<1> QED BY <1>2, RecoveryHolds, PTL DEF Spec, RecoveryLasts
=============================================================================
