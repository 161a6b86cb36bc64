-------------------------- MODULE TcpSessionProofs --------------------------
(***************************************************************************)
(* Proofs about TcpSession, for every sequence space, MSS and buffer size  *)
(* that SizesAssumption allows and any guest and server input.             *)
(***************************************************************************)
EXTENDS TcpSession, TLAPS, SequenceTheorems

-----------------------------------------------------------------------------
(* Sequence-number arithmetic and the helpers on byte sequences. *)

\* uint32_t addition stays in the sequence space.
LEMMA SeqAddType ==
  ASSUME NEW a \in SeqNo, NEW k \in Nat, k <= Half
  PROVE  SeqAdd(a, k) \in SeqNo
  BY SizesAssumption DEF SeqAdd, SeqNo, Modulus

\* Adding in two steps is adding once, across the wrap.
LEMMA SeqAddAssoc ==
  ASSUME NEW a \in SeqNo, NEW j \in Nat, NEW k \in Nat, j + k <= Half
  PROVE  SeqAdd(SeqAdd(a, j), k) = SeqAdd(a, j + k)
  BY SizesAssumption DEF SeqAdd, SeqNo, Modulus

\* Adding nothing changes nothing.
LEMMA SeqAddZero ==
  ASSUME NEW a \in SeqNo
  PROVE  SeqAdd(a, 0) = a
  BY SizesAssumption DEF SeqAdd, SeqNo, Modulus

\* The int32_t difference recovers what was added, if less than half the space.
LEMMA SeqDiffAdd ==
  ASSUME NEW a \in SeqNo, NEW k \in Nat, k < Half
  PROVE  SeqDiff(SeqAdd(a, k), a) = k
  BY SizesAssumption DEF SeqAdd, SeqDiff, SeqNo, Modulus

\* SeqDiff of two sequence numbers is an integer.
LEMMA SeqDiffType ==
  ASSUME NEW a \in SeqNo, NEW b \in SeqNo
  PROVE  SeqDiff(a, b) \in Int
  BY SizesAssumption DEF SeqDiff, SeqNo, Modulus

\* What First and Drop return.
LEMMA FirstFacts ==
  ASSUME NEW S, NEW s \in Seq(S), NEW n \in Nat
  PROVE  /\ First(s, n) \in Seq(S)
         /\ Len(First(s, n)) = Least(n, Len(s))
  <1>1. Least(n, Len(s)) \in 0 .. Len(s)
    BY DEF Least
  <1> QED BY <1>1, SubSeqProperties DEF First

\* Drop leaves the elements behind the first n, in their order.
LEMMA DropFacts ==
  ASSUME NEW S, NEW s \in Seq(S), NEW n \in 0 .. Len(s)
  PROVE  /\ Drop(s, n) \in Seq(S)
         /\ Len(Drop(s, n)) = Len(s) - n
         /\ \A i \in 1 .. Len(s) - n : Drop(s, n)[i] = s[i + n]
  BY SubSeqProperties DEF Drop

\* Store appends or keeps; it never overflows the buffer.
LEMMA StoreFacts ==
  ASSUME NEW S, NEW s \in Seq(S), NEW d \in Seq(S), Len(s) <= SbufCap
  PROVE  /\ Store(s, d) \in Seq(S)
         /\ Len(Store(s, d)) >= Len(s)
         /\ Len(Store(s, d)) <= SbufCap
         /\ \A i \in 1 .. Len(s) : Store(s, d)[i] = s[i]
  BY ConcatProperties, SizesAssumption DEF Store

\* A segment built from typed parts is a Segment.
LEMMA SegType ==
  ASSUME NEW fl \in SUBSET Flag, NEW seq \in SeqNo, NEW ack \in SeqNo, NEW d \in Seq(Byte)
  PROVE  Seg(fl, seq, ack, d) \in Segment
  BY DEF Seg, Segment

-----------------------------------------------------------------------------
(* What the two code fragments that move the send window do to it. *)

\* tcp_pump_locked keeps the types, the accounting and stop-and-wait, and sends one segment at most.
LEMMA PumpFacts ==
  ASSUME TypeOK, SeqAccounting, StopAndWait, NEW finPending \in BOOLEAN, Pump(finPending),
         sbuf' = sbuf, snd_una' = snd_una
  PROVE  /\ nxt' \in Nat /\ snd_nxt' \in SeqNo /\ fin_sent' \in BOOLEAN /\ rtoOver' \in BOOLEAN
         /\ emitted' \in Seq(Segment) /\ Len(emitted') <= 1
         /\ SeqAccounting' /\ StopAndWait'
         /\ nxt' >= nxt
  <1> USE SizesAssumption
  <1>1. CASE PumpNew
    <2> DEFINE n == Least(MSS, Len(sbuf))
    <2>1. n \in Nat /\ n <= MSS /\ n <= Len(sbuf) /\ n <= Half
      BY <1>1 DEF PumpNew, Least, TypeOK
    <2>2. snd_nxt' = SeqAdd(snd_nxt, n) /\ nxt' = n /\ nxt = 0 /\ UNCHANGED fin_sent
      BY <1>1 DEF PumpNew
    <2>3. SeqAdd(snd_nxt, n) \in SeqNo
      BY <2>1, SeqAddType DEF TypeOK
    <2>4. SeqAdd(snd_nxt, n) = SeqAdd(snd_una, n + (IF fin_sent THEN 1 ELSE 0))
      <3> DEFINE f == IF fin_sent THEN 1 ELSE 0
      <3>1. f \in Nat /\ f <= 1
        BY DEF TypeOK
      <3>2. snd_nxt = SeqAdd(snd_una, f)
        BY <2>2, <3>1 DEF SeqAccounting
      <3>3. f + n <= Half
        BY <2>1, <3>1
      <3>4. SeqAdd(SeqAdd(snd_una, f), n) = SeqAdd(snd_una, f + n)
        BY <2>1, <3>1, <3>3, SeqAddAssoc DEF TypeOK
      <3> QED BY <2>1, <3>1, <3>2, <3>4
    <2>5. First(sbuf, MSS) \in Seq(Byte)
      BY FirstFacts DEF TypeOK
    <2>6. Seg({"ACK", "PSH"}, snd_nxt, rcv_nxt, First(sbuf, MSS)) \in Segment
      BY <2>5, SegType DEF TypeOK, Flag
    <2>7. emitted' \in Seq(Segment) /\ Len(emitted') <= 1
      BY <1>1, <2>6 DEF PumpNew
    <2>8. SeqAccounting'
      BY <2>2, <2>4 DEF SeqAccounting
    <2>9. StopAndWait' /\ nxt' \in Nat /\ nxt' >= nxt
      BY <2>1, <2>2 DEF StopAndWait
    <2>10. rtoOver' \in BOOLEAN /\ fin_sent' \in BOOLEAN /\ snd_nxt' \in SeqNo
      BY <1>1, <2>2, <2>3 DEF PumpNew, TypeOK
    <2> QED BY <2>7, <2>8, <2>9, <2>10
  <1>2. CASE PumpRetransmit
    <2>1. First(sbuf, nxt) \in Seq(Byte)
      BY FirstFacts DEF TypeOK
    <2>2. Seg({"ACK", "PSH"}, snd_una, rcv_nxt, First(sbuf, nxt)) \in Segment
      BY <2>1, SegType DEF TypeOK, Flag
    <2>3. emitted' \in Seq(Segment) /\ Len(emitted') <= 1
      BY <1>2, <2>2 DEF PumpRetransmit
    <2>4. /\ nxt' = nxt /\ snd_una' = snd_una /\ snd_nxt' = snd_nxt /\ fin_sent' = fin_sent
          /\ sbuf' = sbuf /\ rtoOver' = FALSE
      BY <1>2 DEF PumpRetransmit
    <2>5. SeqAccounting' /\ StopAndWait'
      BY <2>4 DEF SeqAccounting, StopAndWait
    <2>6. nxt' \in Nat /\ snd_nxt' \in SeqNo /\ nxt' >= nxt
      BY <2>4 DEF TypeOK
    <2>7. fin_sent' \in BOOLEAN /\ rtoOver' \in BOOLEAN
      BY <2>4 DEF TypeOK
    <2> QED BY <2>3, <2>5, <2>6, <2>7
  <1>3. CASE PumpFin(finPending)
    <2>1. SeqAdd(snd_nxt, 1) \in SeqNo
      BY SeqAddType DEF TypeOK
    <2>2. SeqAdd(snd_nxt, 1) = SeqAdd(snd_una, 1)
      BY <1>3, SeqAddZero DEF PumpFin, TypeOK, SeqAccounting
    <2>3. << >> \in Seq(Byte)
      BY EmptySeq
    <2>4. Seg({"FIN", "ACK"}, snd_nxt, rcv_nxt, << >>) \in Segment
      BY <2>3, SegType DEF TypeOK, Flag
    <2>5. emitted' \in Seq(Segment) /\ Len(emitted') <= 1
      BY <1>3, <2>4 DEF PumpFin
    <2>6. SeqAccounting' /\ StopAndWait'
      BY <1>3, <2>2 DEF PumpFin, SeqAccounting, StopAndWait
    <2> QED BY <1>3, <2>1, <2>5, <2>6 DEF PumpFin, TypeOK
  <1>4. CASE PumpIdle(finPending)
    BY <1>4 DEF PumpIdle, TypeOK, SeqAccounting, StopAndWait
  <1> QED BY <1>1, <1>2, <1>3, <1>4 DEF Pump

\* The proofs ask of the two ends only what SizesAssumption can carry: any chunk of bytes, any
\* segment shorter than half the sequence space.
AnySegment == {seg \in Segment : Len(seg.data) < Half}
AnyChunk == Seq(Byte)

\* An ACK never acknowledges more than is in flight.
LEMMA AckedType ==
  ASSUME TypeOK, NEW seg \in AnySegment
  PROVE  Acked(seg) \in 0 .. nxt
  <1>1. seg.ack \in SeqNo
    BY DEF AnySegment, Segment
  <1>2. SeqDiff(seg.ack, snd_una) \in Int
    BY <1>1, SeqDiffType DEF TypeOK
  <1> QED BY <1>2 DEF Acked, Least, TypeOK

\* forward_tcp's ACK branch keeps the window consistent, whatever is appended behind it.
LEMMA AckFacts ==
  ASSUME TypeOK, SeqAccounting, StopAndWait, NEW seg \in AnySegment, AckOurData(seg),
         UNCHANGED <<snd_nxt, fin_sent>>
  PROVE  /\ nxt' \in Nat /\ nxt' = nxt - Acked(seg)
         /\ snd_una' \in SeqNo
         /\ SeqDiff(snd_una', snd_una) = Acked(seg)
         /\ SeqAccounting'
  <1> USE SizesAssumption
  <1> DEFINE k == Acked(seg)
             f == IF fin_sent THEN 1 ELSE 0
  <1>1. k \in 0 .. nxt /\ k < Half /\ nxt + 1 < Half
    BY AckedType DEF TypeOK, StopAndWait
  <1>2. snd_una' = SeqAdd(snd_una, k) /\ nxt' = nxt - k
    BY DEF AckOurData
  <1>3. SeqAdd(snd_una, k) \in SeqNo
    BY <1>1, SeqAddType DEF TypeOK
  <1>4. SeqDiff(SeqAdd(snd_una, k), snd_una) = k
    BY <1>1, SeqDiffAdd DEF TypeOK
  <1>5. SeqAdd(SeqAdd(snd_una, k), nxt - k + f) = SeqAdd(snd_una, nxt + f)
    <2>1. nxt - k + f \in Nat /\ k + (nxt - k + f) <= Half /\ k + (nxt - k + f) = nxt + f
      BY <1>1 DEF TypeOK
    <2>2. SeqAdd(SeqAdd(snd_una, k), nxt - k + f) = SeqAdd(snd_una, k + (nxt - k + f))
      BY <1>1, <2>1, SeqAddAssoc DEF TypeOK
    <2> QED BY <2>1, <2>2
  <1>6. SeqAccounting'
    BY <1>2, <1>5 DEF SeqAccounting
  <1> QED BY <1>1, <1>2, <1>3, <1>4, <1>6 DEF TypeOK

\* sbuf after a guest segment: the unacknowledged bytes unchanged in front, never too long.
LEMMA AfterPayloadFacts ==
  ASSUME TypeOK, StopAndWait, NEW seg \in AnySegment
  PROVE  LET k == Acked(seg)
             b == AfterPayload(seg)
         IN  /\ b \in Seq(Byte)
             /\ Len(b) >= Len(sbuf) - k /\ Len(b) <= SbufCap
             /\ \A i \in 1 .. Len(sbuf) - k : b[i] = sbuf[i + k]
  <1> DEFINE k == Acked(seg)
             u == Drop(sbuf, k)
  <1>1. k \in 0 .. Len(sbuf)
    BY AckedType DEF TypeOK, StopAndWait
  <1>2. /\ u \in Seq(Byte) /\ Len(u) = Len(sbuf) - k
        /\ \A i \in 1 .. Len(sbuf) - k : u[i] = sbuf[i + k]
    BY <1>1, DropFacts DEF TypeOK
  <1>3. Len(u) <= SbufCap
    BY <1>1, <1>2, SizesAssumption DEF StopAndWait, TypeOK
  <1>4. seg.data \in Seq(Byte)
    BY DEF AnySegment, Segment
  <1> HIDE DEF u, k
  <1>5. CASE InOrder(seg)
    <2>1. AfterPayload(seg) = Store(u, seg.data)
      BY <1>5 DEF AfterPayload, u, k
    <2>2. /\ Store(u, seg.data) \in Seq(Byte)
          /\ Len(Store(u, seg.data)) >= Len(u) /\ Len(Store(u, seg.data)) <= SbufCap
          /\ \A i \in 1 .. Len(u) : Store(u, seg.data)[i] = u[i]
      BY <1>2, <1>3, <1>4, StoreFacts
    <2> QED BY <1>2, <2>1, <2>2 DEF k
  <1>6. CASE ~InOrder(seg)
    <2>1. AfterPayload(seg) = u
      BY <1>6 DEF AfterPayload, u, k
    <2> QED BY <1>1, <1>2, <1>3, <2>1 DEF k, TypeOK
  <1> QED BY <1>5, <1>6

\* The segments forward_tcp answers with are typed, and two at most.
LEMMA ForwardReplies ==
  ASSUME TypeOK, NEW seg \in AnySegment, ForwardSegment(seg)
  PROVE  emitted' \in Seq(Segment) /\ Len(emitted') <= 2 /\ rcv_nxt' \in SeqNo
  <1> DEFINE n == Len(seg.data)
             afterData == IF InOrder(seg) THEN SeqAdd(rcv_nxt, n) ELSE rcv_nxt
             afterFin == SeqAdd(seg.seq, n + 1)
  <1>1. n \in Nat /\ n < Half /\ seg.seq \in SeqNo /\ seg.data \in Seq(Byte)
    BY DEF AnySegment, Segment
  <1>2. afterData \in SeqNo /\ afterFin \in SeqNo
    <2>1. SeqAdd(rcv_nxt, n) \in SeqNo
      BY <1>1, SeqAddType, SizesAssumption DEF TypeOK
    <2>2. n + 1 \in Nat /\ n + 1 <= Half
      BY <1>1, SizesAssumption
    <2>3. SeqAdd(seg.seq, n + 1) \in SeqNo
      BY <1>1, <2>2, SeqAddType
    <2> QED BY <2>1, <2>3 DEF TypeOK
  <1>3. << >> \in Seq(Byte) /\ {"ACK"} \in SUBSET Flag
    BY EmptySeq DEF Flag
  <1>4. /\ Seg({"ACK"}, snd_nxt, afterData, << >>) \in Segment
        /\ Seg({"ACK"}, snd_nxt, afterFin, << >>) \in Segment
    BY <1>2, <1>3, SegType DEF TypeOK
  <1> HIDE DEF afterData, afterFin
  <1> DEFINE dataAck == IF seg.data # << >>
                        THEN <<Seg({"ACK"}, snd_nxt, afterData, << >>)>> ELSE << >>
  <1>5. dataAck \in Seq(Segment) /\ Len(dataAck) <= 1
    BY <1>4
  <1>6. \/ emitted' = dataAck /\ rcv_nxt' = afterData
        \/ emitted' = Append(dataAck, Seg({"ACK"}, snd_nxt, afterFin, << >>)) /\ rcv_nxt' = afterFin
    BY DEF ForwardSegment, afterData, afterFin
  <1> HIDE DEF dataAck
  <1>7. /\ Append(dataAck, Seg({"ACK"}, snd_nxt, afterFin, << >>)) \in Seq(Segment)
        /\ Len(Append(dataAck, Seg({"ACK"}, snd_nxt, afterFin, << >>))) <= 2
    BY <1>4, <1>5, AppendProperties
  <1> QED BY <1>2, <1>5, <1>6, <1>7

-----------------------------------------------------------------------------
(* The send window over every step. *)

\* Actions that leave the send window alone.
QuietStep ==
    \/ ConnectReturns \/ BootWrite \/ BootCheck \/ LoopInactive
    \/ RecvTimeout \/ RecvError \/ ThreadClose
    \/ Find \/ Reap \/ ExitMark \/ ExitClose \/ ExitJoin \/ Clock

\* Actions that pump.
PumpStep == LoopClose \/ LoopDrain \/ LoopRecv \/ RecvEof

\* Every step of a session towards any two ends: quiet, a pump, a recv() of data, a guest segment.
AnyStep ==
    \/ QuietStep \/ PumpStep
    \/ \E chunk \in AnyChunk : RecvData(chunk)
    \/ \E seg \in AnySegment : ForwardRst(seg) \/ ForwardSegment(seg)

\* A step on the enumerated inputs is a step on inputs of their types.
LEMMA StepCases ==
  ASSUME Step
  PROVE  AnyStep
  <1>1. GuestSegs \subseteq AnySegment /\ ServerChunks \subseteq AnyChunk
    BY InputsAssumption DEF AnySegment, AnyChunk
  <1> QED BY <1>1 DEF Step, Receiver, LoopTop, RecvReturns, Emulator, Forward, AnyStep, QuietStep, PumpStep

\* A quiet step touches neither the window nor what was sent in it.
LEMMA QuietFacts ==
  ASSUME TypeOK, QuietStep
  PROVE  /\ UNCHANGED <<sbuf, nxt, snd_una, snd_nxt, rcv_nxt, our_isn, state, fin_sent>>
         /\ emitted' \in Seq(Segment)
  <1>1. << >> \in Seq(Segment)
    BY EmptySeq
  <1>2. CASE ConnectFail
    <2>1. Seg({"RST"}, snd_nxt, rcv_nxt, << >>) \in Segment
      BY SegType, EmptySeq DEF TypeOK, Flag
    <2> QED BY <1>2, <2>1 DEF ConnectFail, bufvars
  <1>3. CASE ConnectOk
    BY <1>1, <1>3 DEF ConnectOk, bufvars
  <1>4. CASE BootWrite
    BY <1>1, <1>4 DEF BootWrite, bufvars, flowvars
  <1>5. CASE BootCheck
    BY <1>1, <1>5 DEF BootCheck, bufvars, flowvars
  <1>6. CASE LoopInactive
    BY <1>1, <1>6 DEF LoopInactive, bufvars, flowvars
  <1>7. CASE RecvTimeout
    BY <1>1, <1>7 DEF RecvTimeout, bufvars, flowvars
  <1>8. CASE RecvError
    BY <1>1, <1>8 DEF RecvError, bufvars
  <1>9. CASE ThreadClose
    BY <1>1, <1>9 DEF ThreadClose, bufvars, flowvars
  <1>10. CASE Reap
    BY <1>1, <1>10 DEF Reap, bufvars, flowvars
  <1>11. CASE ExitMark
    BY <1>1, <1>11 DEF ExitMark, bufvars
  <1>12. CASE ExitClose
    BY <1>1, <1>12 DEF ExitClose, bufvars, flowvars
  <1>13. CASE ExitJoin
    BY <1>1, <1>13 DEF ExitJoin, bufvars, flowvars
  <1>14. CASE Clock
    BY <1>1, <1>14 DEF Clock, RtoExpires, GraceExpires, bufvars, flowvars
  <1>15. CASE Find
    BY <1>1, <1>15 DEF Find, bufvars, flowvars
  <1> QED BY <1>2, <1>3, <1>4, <1>5, <1>6, <1>7, <1>8, <1>9, <1>10, <1>11, <1>12, <1>13, <1>14, <1>15
         DEF QuietStep, ConnectReturns

\* The part of the invariant that the send window is about.
WindowOK ==
    /\ sbuf \in Seq(Byte) /\ nxt \in Nat
    /\ snd_una \in SeqNo /\ snd_nxt \in SeqNo /\ rcv_nxt \in SeqNo /\ our_isn \in SeqNo
    /\ fin_sent \in BOOLEAN
    /\ emitted \in Seq(Segment)
    /\ SeqAccounting /\ StopAndWait

\* Every step keeps the window consistent and the flight stable.
LEMMA WindowStep ==
  ASSUME TypeOK, SeqAccounting, StopAndWait, AnyStep
  PROVE  WindowOK' /\ FlightStable
  <1> USE SizesAssumption
  <1>0. SeqDiff(snd_una, snd_una) = 0
    BY SeqDiffAdd, SeqAddZero DEF TypeOK
  <1>1. CASE QuietStep
    <2>1. /\ sbuf' = sbuf /\ nxt' = nxt /\ snd_una' = snd_una /\ snd_nxt' = snd_nxt
          /\ rcv_nxt' = rcv_nxt /\ our_isn' = our_isn /\ fin_sent' = fin_sent
          /\ emitted' \in Seq(Segment)
      BY <1>1, QuietFacts
    <2>2. WindowOK'
      BY <2>1 DEF WindowOK, TypeOK, SeqAccounting, StopAndWait
    <2>3. FlightStable
      BY <1>0, <2>1 DEF FlightStable, StopAndWait, TypeOK
    <2> QED BY <2>2, <2>3
  <1>2. CASE PumpStep
    <2>1. /\ sbuf' = sbuf /\ snd_una' = snd_una /\ rcv_nxt' = rcv_nxt /\ our_isn' = our_isn
          /\ Pump(fin_pending) \/ Pump(TRUE)
      BY <1>2 DEF PumpStep, LoopClose, LoopDrain, LoopRecv, RecvEof
    <2>2. /\ nxt' \in Nat /\ snd_nxt' \in SeqNo /\ fin_sent' \in BOOLEAN
          /\ emitted' \in Seq(Segment) /\ SeqAccounting' /\ StopAndWait' /\ nxt' >= nxt
      BY <2>1, PumpFacts DEF TypeOK
    <2>3. WindowOK'
      BY <2>1, <2>2 DEF WindowOK, TypeOK
    <2>4. FlightStable
      BY <1>0, <2>1 DEF FlightStable, StopAndWait, TypeOK
    <2> QED BY <2>3, <2>4
  <1>3. ASSUME NEW chunk \in AnyChunk, RecvData(chunk)
        PROVE  WindowOK' /\ FlightStable
    <2>1. /\ sbuf' = Store(sbuf, chunk) /\ nxt' = nxt /\ snd_una' = snd_una /\ snd_nxt' = snd_nxt
          /\ rcv_nxt' = rcv_nxt /\ our_isn' = our_isn /\ fin_sent' = fin_sent /\ emitted' = << >>
      BY <1>3 DEF RecvData, flowvars
    <2>2. chunk \in Seq(Byte)
      BY DEF AnyChunk
    <2>3. /\ sbuf' \in Seq(Byte) /\ Len(sbuf') >= Len(sbuf) /\ Len(sbuf') <= SbufCap
          /\ \A i \in 1 .. Len(sbuf) : sbuf'[i] = sbuf[i]
      BY <2>1, <2>2, StoreFacts DEF TypeOK, StopAndWait
    <2>4. StopAndWait'
      BY <2>1, <2>3 DEF StopAndWait, TypeOK
    <2>5. SeqAccounting'
      BY <2>1 DEF SeqAccounting
    <2>6. WindowOK'
      BY <2>1, <2>3, <2>4, <2>5, EmptySeq DEF WindowOK, TypeOK
    <2>7. FlightStable
      BY <1>0, <2>1, <2>3 DEF FlightStable, StopAndWait, TypeOK
    <2> QED BY <2>6, <2>7
  <1>4. ASSUME NEW seg \in AnySegment, ForwardRst(seg) \/ ForwardSegment(seg)
        PROVE  WindowOK' /\ FlightStable
    <2> DEFINE k == Acked(seg)
    <2>1. AckOurData(seg) /\ snd_nxt' = snd_nxt /\ fin_sent' = fin_sent /\ our_isn' = our_isn
      BY <1>4 DEF ForwardRst, ForwardSegment
    <2>2. k \in 0 .. nxt
      BY AckedType
    <2>3. /\ nxt' \in Nat /\ nxt' = nxt - k /\ snd_una' \in SeqNo
          /\ SeqDiff(snd_una', snd_una) = k /\ SeqAccounting'
      BY <2>1, AckFacts
    <2>4. /\ sbuf' \in Seq(Byte) /\ Len(sbuf') >= Len(sbuf) - k /\ Len(sbuf') <= SbufCap
          /\ \A i \in 1 .. Len(sbuf) - k : sbuf'[i] = sbuf[i + k]
      <3>1. CASE ForwardRst(seg)
        <4>1. sbuf' = Drop(sbuf, k)
          BY <3>1 DEF ForwardRst
        <4>2. k \in 0 .. Len(sbuf) /\ sbuf \in Seq(Byte) /\ Len(sbuf) \in Nat
          BY <2>2 DEF TypeOK, StopAndWait
        <4>3. /\ Drop(sbuf, k) \in Seq(Byte) /\ Len(Drop(sbuf, k)) = Len(sbuf) - k
              /\ \A i \in 1 .. Len(sbuf) - k : Drop(sbuf, k)[i] = sbuf[i + k]
          BY <4>2, DropFacts
        <4> HIDE DEF k
        <4> QED BY <4>1, <4>2, <4>3 DEF StopAndWait
      <3>2. CASE ForwardSegment(seg)
        <4>1. sbuf' = AfterPayload(seg)
          BY <3>2 DEF ForwardSegment
        <4> QED BY <4>1, AfterPayloadFacts
      <3> QED BY <1>4, <3>1, <3>2
    <2>5. emitted' \in Seq(Segment) /\ rcv_nxt' \in SeqNo
      <3>1. CASE ForwardRst(seg)
        BY <3>1, EmptySeq DEF ForwardRst, TypeOK
      <3>2. CASE ForwardSegment(seg)
        BY <3>2, ForwardReplies
      <3> QED BY <1>4, <3>1, <3>2
    <2> HIDE DEF k
    <2>6. Len(sbuf) \in Nat /\ Len(sbuf') \in Nat
      BY <2>4, LenProperties DEF TypeOK
    <2>7. StopAndWait'
      BY <2>2, <2>3, <2>4, <2>6 DEF StopAndWait, TypeOK
    <2>8. WindowOK'
      BY <2>1, <2>3, <2>4, <2>5, <2>7 DEF WindowOK, TypeOK
    <2>9. FlightStable
      BY <2>2, <2>3, <2>4, <2>6 DEF FlightStable, StopAndWait, TypeOK
    <2> QED BY <2>8, <2>9
  <1> QED BY <1>1, <1>2, <1>3, <1>4 DEF AnyStep

-----------------------------------------------------------------------------
(* The session's life over every step. *)

\* The types of the variables that are not part of the send window.
LifeTypeOK ==
    /\ state \in {"SYN_RECV", "ESTABLISHED"}
    /\ active \in BOOLEAN /\ connected \in BOOLEAN
    /\ fin_pending \in BOOLEAN /\ remote_eof \in BOOLEAN /\ close_requested \in BOOLEAN
    /\ fd \in BOOLEAN /\ rtoOver \in BOOLEAN /\ graceOver \in BOOLEAN
    /\ pc \in RecvPlace /\ lfd \in BOOLEAN /\ boot \in Seq(Byte \cup {Junk})
    /\ epc \in EmuPlace /\ efd \in BOOLEAN
    /\ closes \in Nat
    /\ written \in Seq(Byte \cup {Junk})

\* Places from which a deactivated session's receiver sends nothing more.
Leaving == {"top", "close", "done"}

\* How many segments a step may emit for a deactivated session, and where it leaves the two
\* threads: nothing, one segment of the receiver, or the two ACKs of forward_tcp.
LateStep ==
    /\ active' => active
    /\ active /\ ~active' => epc' # "found" \/ pc' \in Leaving
    /\ ~active => \/ /\ emitted' = << >>
                     /\ pc \in Leaving => pc' \in Leaving
                     /\ epc' = "found" => epc = "found"
                  \/ /\ Len(emitted') <= 1
                     /\ pc \in {"connect", "recv"} /\ pc' \in {"top", "close"} /\ epc' = epc
                  \/ /\ Len(emitted') <= 2
                     /\ epc = "found" /\ epc' = "run" /\ pc' = pc

\* A quiet step keeps the life of the socket and of the session.
LEMMA LifeQuiet ==
  ASSUME TypeOK, FdOwnership, QuietStep
  PROVE  LifeTypeOK' /\ FdOwnership' /\ LateStep
  <1> USE DEF TypeOK, LifeTypeOK, FdOwnership, LateStep, Leaving, BoolNat, RecvPlace, EmuPlace,
              bufvars, flowvars, recvvars, emuvars, timers
  <1>1. CASE ConnectFail
    <2>1. LifeTypeOK'
      BY <1>1, EmptySeq DEF ConnectFail
    <2>2. FdOwnership'
      BY <1>1 DEF ConnectFail
    <2>3. LateStep
      BY <1>1, EmptySeq DEF ConnectFail
    <2> QED BY <2>1, <2>2, <2>3
  <1>2. CASE ConnectOk
    <2>1. Len(sbuf) \in Nat
      OBVIOUS
    <2>2. [i \in 1 .. Len(sbuf) |-> Junk] \in Seq(Byte \cup {Junk})
      BY <2>1
    <2>3. sbuf \in Seq(Byte \cup {Junk})
      BY SeqMonotonic
    <2>4. boot' \in Seq(Byte \cup {Junk})
      BY <1>2, <2>2, <2>3 DEF ConnectOk
    <2> QED BY <1>2, <2>4, EmptySeq DEF ConnectOk
  <1>3. CASE BootWrite
    BY <1>3, EmptySeq DEF BootWrite
  <1>4. CASE BootCheck
    <2>1. LifeTypeOK'
      BY <1>4, EmptySeq DEF BootCheck
    <2>2. FdOwnership'
      BY <1>4 DEF BootCheck
    <2>3. LateStep
      BY <1>4, EmptySeq DEF BootCheck
    <2> QED BY <2>1, <2>2, <2>3
  <1>5. CASE LoopInactive
    <2>1. LifeTypeOK'
      BY <1>5, EmptySeq DEF LoopInactive
    <2>2. FdOwnership'
      BY <1>5 DEF LoopInactive
    <2>3. LateStep
      BY <1>5, EmptySeq DEF LoopInactive
    <2> QED BY <2>1, <2>2, <2>3
  <1>6. CASE RecvTimeout
    BY <1>6, EmptySeq DEF RecvTimeout
  <1>7. CASE RecvError
    BY <1>7, EmptySeq DEF RecvError
  <1>8. CASE ThreadClose
    <2>0. closes' = closes \/ closes' = closes + 1
      BY <1>8 DEF ThreadClose
    <2>1. LifeTypeOK'
      <3>1. closes' \in Nat
        BY <2>0
      <3>2. written' \in Seq(Byte \cup {Junk})
        BY <1>8, EmptySeq DEF ThreadClose
      <3> QED BY <1>8, <3>1, <3>2 DEF ThreadClose
    <2>2. FdOwnership'
      BY <1>8 DEF ThreadClose
    <2>3. LateStep
      BY <1>8, EmptySeq DEF ThreadClose
    <2> QED BY <2>1, <2>2, <2>3
  <1>9. CASE Reap
    BY <1>9, EmptySeq DEF Reap
  <1>10. CASE ExitMark
    <2>1. LifeTypeOK'
      BY <1>10, EmptySeq DEF ExitMark
    <2>2. FdOwnership'
      BY <1>10 DEF ExitMark
    <2>3. LateStep
      BY <1>10, EmptySeq DEF ExitMark
    <2> QED BY <2>1, <2>2, <2>3
  <1>11. CASE ExitClose
    <2>0. closes' = closes \/ closes' = closes + 1
      BY <1>11 DEF ExitClose
    <2>1. LifeTypeOK'
      <3>1. closes' \in Nat
        BY <2>0
      <3>2. written' \in Seq(Byte \cup {Junk})
        BY <1>11, EmptySeq DEF ExitClose
      <3> QED BY <1>11, <3>1, <3>2 DEF ExitClose
    <2>2. FdOwnership'
      BY <1>11 DEF ExitClose
    <2>3. LateStep
      BY <1>11, EmptySeq DEF ExitClose
    <2> QED BY <2>1, <2>2, <2>3
  <1>12. CASE ExitJoin
    BY <1>12, EmptySeq DEF ExitJoin
  <1>13. CASE Clock
    <2>1. LifeTypeOK'
      <3>1. CASE RtoExpires
        BY <3>1, EmptySeq DEF RtoExpires
      <3>2. CASE GraceExpires
        BY <3>2, EmptySeq DEF GraceExpires
      <3> QED BY <1>13, <3>1, <3>2 DEF Clock
    <2>2. FdOwnership'
      BY <1>13 DEF Clock, RtoExpires, GraceExpires
    <2>3. LateStep
      BY <1>13, EmptySeq DEF Clock, RtoExpires, GraceExpires
    <2> QED BY <2>1, <2>2, <2>3
  <1>14. CASE Find
    BY <1>14, EmptySeq DEF Find
  <1> QED BY <1>1, <1>2, <1>3, <1>4, <1>5, <1>6, <1>7, <1>8, <1>9, <1>10, <1>11, <1>12, <1>13, <1>14
         DEF QuietStep, ConnectReturns

\* So does a pump,
LEMMA LifePump ==
  ASSUME TypeOK, SeqAccounting, StopAndWait, FdOwnership, PumpStep
  PROVE  LifeTypeOK' /\ FdOwnership' /\ LateStep
  <1>1. /\ sbuf' = sbuf /\ snd_una' = snd_una
        /\ Pump(fin_pending) \/ Pump(TRUE)
    BY DEF PumpStep, LoopClose, LoopDrain, LoopRecv, RecvEof
  <1>2. rtoOver' \in BOOLEAN /\ emitted' \in Seq(Segment) /\ Len(emitted') <= 1
    BY <1>1, PumpFacts DEF TypeOK
  <1> USE <1>2, EmptySeq
          DEF TypeOK, LifeTypeOK, FdOwnership, LateStep, Leaving, BoolNat, RecvPlace, EmuPlace,
              recvvars, emuvars
  <1>3. CASE LoopClose
    <2>1. LifeTypeOK'
      BY <1>3 DEF LoopClose
    <2>2. FdOwnership'
      BY <1>3 DEF LoopClose
    <2>3. LateStep
      BY <1>3 DEF LoopClose
    <2> QED BY <2>1, <2>2, <2>3
  <1>4. CASE LoopDrain
    BY <1>4 DEF LoopDrain
  <1>5. CASE LoopRecv
    BY <1>5 DEF LoopRecv
  <1>6. CASE RecvEof
    BY <1>6 DEF RecvEof
  <1> QED BY <1>3, <1>4, <1>5, <1>6 DEF PumpStep

\* and so do received data and forwarded segments.
LEMMA LifeOther ==
  ASSUME TypeOK, StopAndWait, FdOwnership,
         \/ \E chunk \in AnyChunk : RecvData(chunk)
         \/ \E seg \in AnySegment : ForwardRst(seg) \/ ForwardSegment(seg)
  PROVE  LifeTypeOK' /\ FdOwnership' /\ LateStep
  <1> USE EmptySeq
          DEF TypeOK, LifeTypeOK, FdOwnership, LateStep, Leaving, BoolNat, RecvPlace, EmuPlace,
              flowvars, recvvars, emuvars, timers
  <1>1. ASSUME NEW chunk \in AnyChunk, RecvData(chunk)
        PROVE  LifeTypeOK' /\ FdOwnership' /\ LateStep
    BY <1>1 DEF RecvData
  <1>2. ASSUME NEW seg \in AnySegment, ForwardRst(seg)
        PROVE  LifeTypeOK' /\ FdOwnership' /\ LateStep
    <2>1. LifeTypeOK'
      BY <1>2 DEF ForwardRst
    <2>2. FdOwnership'
      BY <1>2 DEF ForwardRst
    <2>3. LateStep
      BY <1>2 DEF ForwardRst
    <2> QED BY <2>1, <2>2, <2>3
  <1>3. ASSUME NEW seg \in AnySegment, ForwardSegment(seg)
        PROVE  LifeTypeOK' /\ FdOwnership' /\ LateStep
    <2>1. AfterPayload(seg) \in Seq(Byte)
      BY AfterPayloadFacts
    <2>2. First(AfterPayload(seg), WriteMax) \in Seq(Byte)
      BY <2>1, FirstFacts, SizesAssumption
    <2>3. First(AfterPayload(seg), WriteMax) \in Seq(Byte \cup {Junk})
      BY <2>2, SeqMonotonic
    <2>4. << >> \in Seq(Byte \cup {Junk})
      BY EmptySeq
    <2>5. written' \in Seq(Byte \cup {Junk})
      BY <1>3, <2>3, <2>4 DEF ForwardSegment
    <2>6. state' \in {"SYN_RECV", "ESTABLISHED"} /\ fin_pending' \in BOOLEAN /\ close_requested' \in BOOLEAN
      BY <1>3 DEF ForwardSegment
    <2>7. /\ active' = active /\ connected' = connected /\ remote_eof' = remote_eof
          /\ fd' = fd /\ rtoOver' = rtoOver /\ graceOver' = graceOver
          /\ pc' = pc /\ lfd' = lfd /\ boot' = boot /\ efd' = efd /\ closes' = closes
          /\ epc = "found" /\ epc' = "run"
      BY <1>3 DEF ForwardSegment
    <2>8. Len(emitted') <= 2
      BY <1>3, ForwardReplies
    <2>9. LifeTypeOK'
      BY <2>5, <2>6, <2>7
    <2>10. FdOwnership' /\ LateStep
      BY <2>7, <2>8
    <2> QED BY <2>9, <2>10
  <1> QED BY <1>1, <1>2, <1>3

\* Every step keeps the ownership of the socket and bounds what a dead session emits.
LEMMA LifeStep ==
  ASSUME TypeOK, SeqAccounting, StopAndWait, FdOwnership, AnyStep
  PROVE  LifeTypeOK' /\ FdOwnership' /\ LateStep
  BY LifeQuiet, LifePump, LifeOther DEF AnyStep

\* Winding down keeps the FIN due, and a close with nothing left to acknowledge has sent it.
LEMMA WindingDownStep ==
  ASSUME TypeOK, StopAndWait, WindingDown, AnyStep
  PROVE  WindingDown' /\ OrderlyClose
  <1> USE DEF flowvars, recvvars
  <1>1. CASE QuietStep
    <2>1. CASE ConnectReturns
      BY <2>1 DEF ConnectReturns, ConnectFail, ConnectOk, WindingDown, OrderlyClose
    <2>2. CASE BootWrite \/ BootCheck \/ LoopInactive
      BY <2>2 DEF BootWrite, BootCheck, LoopInactive, WindingDown, OrderlyClose
    <2>3. CASE RecvTimeout \/ RecvError \/ ThreadClose
      BY <2>3 DEF RecvTimeout, RecvError, ThreadClose, WindingDown, OrderlyClose
    <2>4. CASE Find \/ Reap \/ ExitMark \/ ExitClose \/ ExitJoin \/ Clock
      BY <2>4 DEF Find, Reap, ExitMark, ExitClose, ExitJoin, Clock, RtoExpires, GraceExpires,
                  WindingDown, OrderlyClose
    <2> QED BY <1>1, <2>1, <2>2, <2>3, <2>4 DEF QuietStep
  <1>2. CASE LoopClose
    <2>1. fin_pending /\ connected /\ Pump(fin_pending)
      BY <1>2 DEF LoopClose, WindDown, WindingDown
    <2>2. fin_sent' \/ sbuf # << >>
      <3>1. ASSUME sbuf = << >>
            PROVE  fin_sent'
        <4>1. Len(sbuf) = 0 /\ nxt = 0
          BY <3>1, EmptySeq DEF StopAndWait, TypeOK
        <4> QED BY <2>1, <3>1, <4>1 DEF Pump, PumpNew, PumpRetransmit, PumpFin, PumpIdle
      <3> QED BY <3>1
    <2>3. WindingDown'
      BY <1>2 DEF LoopClose, WindingDown
    <2> QED BY <2>2, <2>3 DEF OrderlyClose
  <1>3. CASE LoopDrain \/ LoopRecv \/ RecvEof
    <2>1. CASE LoopDrain
      BY <2>1 DEF LoopDrain, WindingDown, OrderlyClose
    <2>2. CASE LoopRecv
      BY <2>2 DEF LoopRecv, WindingDown, OrderlyClose
    <2>3. CASE RecvEof
      <3>1. fin_pending' = TRUE /\ connected' = connected /\ pc = "recv"
        BY <2>3 DEF RecvEof
      <3>2. connected
        BY <3>1 DEF WindingDown
      <3> QED BY <3>1, <3>2 DEF WindingDown, OrderlyClose
    <2> QED BY <1>3, <2>1, <2>2, <2>3
  <1>4. ASSUME NEW chunk \in AnyChunk, RecvData(chunk)
        PROVE  WindingDown' /\ OrderlyClose
    BY <1>4 DEF RecvData, WindingDown, OrderlyClose
  <1>5. ASSUME NEW seg \in AnySegment, ForwardRst(seg) \/ ForwardSegment(seg)
        PROVE  WindingDown' /\ OrderlyClose
    <2>1. CASE ForwardRst(seg)
      BY <2>1 DEF ForwardRst, WindingDown, OrderlyClose
    <2>2. CASE ForwardSegment(seg)
      <3>1. /\ pc' = pc /\ connected' = connected
            /\ \/ fin_pending'
               \/ fin_pending' = fin_pending /\ close_requested' = close_requested
        BY <2>2 DEF ForwardSegment
      <3> QED BY <3>1 DEF WindingDown, OrderlyClose
    <2> QED BY <1>5, <2>1, <2>2
  <1> QED BY <1>1, <1>2, <1>3, <1>4, <1>5 DEF AnyStep, PumpStep

-----------------------------------------------------------------------------
(* The invariant and what follows from it. *)

\* A session starts in the invariant.
LEMMA InitInvariant == Init => IInv
  <1> SUFFICES ASSUME Init PROVE IInv
    OBVIOUS
  <1> USE SizesAssumption, InputsAssumption
  <1>1. our_isn \in SeqNo /\ snd_una = SeqAdd(our_isn, 1) /\ snd_una \in SeqNo /\ snd_nxt = snd_una
    BY SeqAddType DEF Init
  <1>2. rcv_nxt \in SeqNo
    BY SeqAddType DEF Init
  <1>3. Seg({"SYN", "ACK"}, our_isn, rcv_nxt, << >>) \in Segment
    BY <1>1, <1>2, SegType, EmptySeq DEF Flag
  <1>4. emitted \in Seq(Segment)
    BY <1>3 DEF Init
  <1>5. TypeOK
    BY <1>1, <1>2, <1>4, EmptySeq DEF Init, TypeOK, RecvPlace, EmuPlace
  <1>6. SeqAccounting
    BY <1>1, SeqAddZero DEF Init, SeqAccounting
  <1>7. StopAndWait
    BY EmptySeq DEF Init, StopAndWait
  <1>8. FdOwnership /\ LateBound /\ WindingDown
    BY DEF Init, FdOwnership, LateBound, WindingDown, BoolNat
  <1> QED BY <1>5, <1>6, <1>7, <1>8 DEF IInv

\* Every step of the session keeps the invariant.
LEMMA StepInvariant ==
  ASSUME IInv, Counted(AnyStep)
  PROVE  IInv'
  <1>1. AnyStep /\ late' = late + (IF active THEN 0 ELSE Len(emitted'))
    BY DEF Counted
  <1>2. WindowOK' /\ LifeTypeOK' /\ FdOwnership' /\ LateStep
    BY <1>1, WindowStep, LifeStep DEF IInv
  <1>3. Len(emitted') \in Nat
    BY <1>2, LenProperties DEF WindowOK
  <1>4. LateBound' /\ late' \in Nat
    BY <1>1, <1>2, <1>3 DEF LateStep, Leaving, LateBound, IInv, TypeOK, LifeTypeOK
  <1>5. TypeOK'
    BY <1>2, <1>4 DEF WindowOK, LifeTypeOK, TypeOK
  <1>6. WindingDown'
    BY <1>1, WindingDownStep DEF IInv
  <1> QED BY <1>2, <1>4, <1>5, <1>6 DEF IInv, WindowOK

\* Every step keeps the invariant, counted or not.
LEMMA NextInvariant ==
  ASSUME IInv, [Next]_vars
  PROVE  IInv'
  <1>1. CASE Counted(Step)
    BY <1>1, StepCases, StepInvariant DEF Counted
  <1>2. CASE UNCHANGED vars
    BY <1>2 DEF vars, bufvars, flowvars, timers, recvvars, emuvars, outvars,
                IInv, TypeOK, SeqAccounting, StopAndWait, FdOwnership, LateBound, WindingDown,
                BoolNat
  <1> QED BY <1>1, <1>2 DEF Next

\* IInv holds throughout every session, of any sizes, towards any guest and server.
THEOREM Invariance == Spec => []IInv
  <1>1. IInv /\ [Next]_vars => IInv'
    BY NextInvariant
  <1> QED BY InitInvariant, <1>1, PTL DEF Spec

\* Every variable of the session keeps its type.
THEOREM TypeCorrect == Spec => []TypeOK
  <1>1. IInv => TypeOK
    BY DEF IInv
  <1> QED BY Invariance, <1>1, PTL

\* tcp_pump_locked and forward_tcp agree on snd_una, snd_nxt and the bytes in flight.
THEOREM AccountingHolds == Spec => []SeqAccounting
  <1>1. IInv => SeqAccounting
    BY DEF IInv
  <1> QED BY Invariance, <1>1, PTL

\* Never more than one segment in flight, never more buffered than sbuf holds.
THEOREM StopAndWaitHolds == Spec => []StopAndWait
  <1>1. IInv => StopAndWait
    BY DEF IInv
  <1> QED BY Invariance, <1>1, PTL

\* However receiver, reaper and ether_exit interleave, one close() reaches the socket.
THEOREM ClosedOnce == Spec => []ClosedExactlyOnce
  <1>1. IInv => ClosedExactlyOnce
    BY DEF IInv, FdOwnership, ClosedExactlyOnce, BoolNat, TypeOK
  <1> QED BY Invariance, <1>1, PTL

\* No close() under a connect(), write() or recv() of the receiver before ether_exit.
THEOREM NoCloseUnderCall == Spec => []ArmedSocketStaysOpen
  <1>1. IInv => ArmedSocketStaysOpen
    BY DEF IInv, FdOwnership, ArmedSocketStaysOpen, BoolNat, TypeOK
  <1> QED BY Invariance, <1>1, PTL

\* A deactivated session enqueues at most two more segments.
THEOREM FallsSilent == Spec => []DeadSessionFallsSilent
  <1>1. IInv => DeadSessionFallsSilent
    BY DEF IInv, LateBound, DeadSessionFallsSilent
  <1> QED BY Invariance, <1>1, PTL

\* A retransmission repeats the bytes first sent at its sequence numbers.
THEOREM FlightIsStable == Spec => FlightStableAlways
  <1>1. IInv /\ [Next]_vars => [FlightStable]_vars
    <2> SUFFICES ASSUME IInv, [Next]_vars PROVE [FlightStable]_vars
      OBVIOUS
    <2>1. CASE Counted(Step)
      BY <2>1, StepCases, WindowStep DEF Counted, IInv
    <2> QED BY <2>1 DEF Next
  <1> QED BY Invariance, <1>1, PTL DEF Spec, FlightStableAlways

\* A session that closes with everything acknowledged has sent its FIN.
THEOREM ClosesOrderly == Spec => OrderlyCloseAlways
  <1>1. IInv /\ [Next]_vars => [OrderlyClose]_vars
    <2> SUFFICES ASSUME IInv, [Next]_vars PROVE [OrderlyClose]_vars
      OBVIOUS
    <2>1. CASE Counted(Step)
      BY <2>1, StepCases, WindingDownStep DEF Counted, IInv
    <2> QED BY <2>1 DEF Next
  <1> QED BY Invariance, <1>1, PTL DEF Spec, OrderlyCloseAlways

\* The send window stays sound through every send, ACK, retransmission and FIN.
THEOREM WindowHolds == Spec => []WindowSound
<1>1. SeqAccounting /\ StopAndWait => WindowSound
  BY DEF WindowSound
<1> QED
  BY <1>1, AccountingHolds, StopAndWaitHolds, PTL

\* The real socket has one owner who closes it, and not under the receiver's call.
THEOREM SocketHolds == Spec => []SocketSafe
<1>1. ClosedExactlyOnce /\ ArmedSocketStaysOpen => SocketSafe
  BY DEF SocketSafe
<1> QED
  BY <1>1, ClosedOnce, NoCloseUnderCall, PTL

=============================================================================
