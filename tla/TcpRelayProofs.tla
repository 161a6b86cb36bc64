--------------------------- MODULE TcpRelayProofs ---------------------------
(***************************************************************************)
(* Proofs about TcpRelay: a session, the frame queue, a guest TCP and a     *)
(* server, for every queue length, number of bytes, losses and repetitions. *)
(***************************************************************************)
EXTENDS TcpRelay, TcpSessionProofs

-----------------------------------------------------------------------------
(* Places in the two streams. *)

\* Moving a number on by k moves its place by k.
LEMMA DiffAfterAdd ==
  ASSUME NEW x \in SeqNo, NEW b \in SeqNo, NEW k \in Nat,
         SeqDiff(x, b) \in Nat, SeqDiff(x, b) + k < Half
  PROVE  SeqDiff(SeqAdd(x, k), b) = SeqDiff(x, b) + k
  BY SizesAssumption DEF SeqAdd, SeqDiff, SeqNo, Modulus

\* The int32_t difference of two numbers is that of their places.
LEMMA DiffOfPlaces ==
  ASSUME NEW x \in SeqNo, NEW y \in SeqNo, NEW b \in SeqNo,
         SeqDiff(x, b) \in Nat, SeqDiff(y, b) \in Nat
  PROVE  SeqDiff(x, y) = SeqDiff(x, b) - SeqDiff(y, b)
  BY SizesAssumption DEF SeqDiff, SeqNo, Modulus

\* The guest numbers its bytes one after the other.
LEMMA GuestSeqFacts ==
  ASSUME RelayTypeOK, NEW i \in Nat, NEW j \in Nat, i + j <= Half
  PROVE  /\ GuestSeq(i) \in SeqNo
         /\ SeqAdd(GuestSeq(i), j) = GuestSeq(i + j)
         /\ GuestSeq(i) = GuestSeq(i + j) => j = 0
  BY SizesAssumption DEF RelayTypeOK, GuestSeq, SeqAdd, SeqNo, Modulus

\* What the window says of the session: how far it reaches, and where snd_nxt is.
InStreams == Pos(snd_una) \in Nat /\ Pos(snd_una) + Len(sbuf) <= g_sent + s_sent

\* What the window says of the places of the first and the last byte in sbuf.
LEMMA WindowBounds ==
  ASSUME IInv, RelayTypeOK, InStreams
  PROVE  /\ SeqAdd(our_isn, 1) \in SeqNo
         /\ SentEnd \in Nat /\ SentEnd < Half /\ SentEnd >= Pos(snd_una)
         /\ Pos(snd_nxt) = SentEnd
  <1> USE SizesAssumption, RelayAssumption
  <1>1. SeqAdd(our_isn, 1) \in SeqNo /\ snd_una \in SeqNo
    BY SeqAddType DEF IInv, TypeOK
  <1>2. /\ nxt \in Nat /\ nxt <= Len(sbuf) /\ Len(sbuf) \in Nat /\ fin_sent \in BOOLEAN
        /\ g_sent + s_sent + 1 < Half /\ g_sent + s_sent \in Nat
    BY DEF IInv, TypeOK, StopAndWait, RelayTypeOK
  <1> DEFINE m == nxt + BoolNat(fin_sent)
  <1>3. m \in Nat /\ m <= Len(sbuf) + 1
    BY <1>2 DEF BoolNat
  <1>4. Pos(snd_una) + m < Half
    BY <1>2, <1>3 DEF InStreams
  <1>5. snd_nxt = SeqAdd(snd_una, m)
    BY DEF IInv, SeqAccounting, BoolNat
  <1>6. Pos(snd_nxt) = Pos(snd_una) + m
    <2> HIDE DEF m
    <2> QED BY <1>1, <1>3, <1>4, <1>5, DiffAfterAdd DEF InStreams, Pos
  <1>7. SentEnd = Pos(snd_una) + m
    BY <1>2 DEF SentEnd, InStreams, BoolNat
  <1> QED BY <1>1, <1>3, <1>4, <1>6, <1>7 DEF InStreams

\* A longer queue and its newest frames: what enqueue_rx leaves was there or is new.
LEMMA QueueFacts ==
  ASSUME NEW S, NEW q \in Seq(S), NEW frames \in Seq(S)
  PROVE  /\ EnqueueAll(q, frames) \in Seq(S)
         /\ \A i \in DOMAIN EnqueueAll(q, frames) :
               \/ \E j \in DOMAIN q : EnqueueAll(q, frames)[i] = q[j]
               \/ \E j \in DOMAIN frames : EnqueueAll(q, frames)[i] = frames[j]
  <1> DEFINE all == q \o frames
             n == Least(RxMax, Len(all))
             from == Len(all) - n + 1
  <1>1. /\ all \in Seq(S) /\ Len(all) = Len(q) + Len(frames) /\ Len(q) \in Nat /\ Len(frames) \in Nat
        /\ \A i \in 1 .. Len(q) : all[i] = q[i]
        /\ \A i \in 1 .. Len(frames) : all[Len(q) + i] = frames[i]
    BY ConcatProperties, LenProperties
  <1>2. n \in 0 .. Len(all)
    BY <1>1, RelayAssumption DEF Least
  <1>3. EnqueueAll(q, frames) = SubSeq(all, from, Len(all))
    BY DEF EnqueueAll
  <1> HIDE DEF all, n
  <1>4. /\ SubSeq(all, from, Len(all)) \in Seq(S)
        /\ Len(SubSeq(all, from, Len(all))) = n
        /\ \A i \in 1 .. n : SubSeq(all, from, Len(all))[i] = all[from + i - 1]
    BY <1>1, <1>2, SubSeqProperties
  <1>5. ASSUME NEW i \in 1 .. n
        PROVE  \/ \E j \in DOMAIN q : all[from + i - 1] = q[j]
               \/ \E j \in DOMAIN frames : all[from + i - 1] = frames[j]
    <2> DEFINE k == from + i - 1
    <2>1. k \in 1 .. Len(q) + Len(frames)
      BY <1>1, <1>2
    <2>2. CASE k <= Len(q)
      BY <1>1, <2>1, <2>2
    <2>3. CASE k > Len(q)
      <3> DEFINE j == k - Len(q)
      <3>1. j \in 1 .. Len(frames) /\ Len(q) + j = k
        BY <1>1, <2>1, <2>3
      <3> HIDE DEF j
      <3>2. all[Len(q) + j] = frames[j]
        BY <1>1, <3>1
      <3>3. all[k] = frames[j] /\ j \in DOMAIN frames
        BY <3>1, <3>2
      <3> QED BY <3>3
    <2> QED BY <1>1, <2>1, <2>2, <2>3
  <1> DEFINE kept == SubSeq(all, from, Len(all))
  <1>6. DOMAIN kept = 1 .. n
    BY <1>4, LenProperties
  <1>7. ASSUME NEW i \in DOMAIN kept
        PROVE  \/ \E j \in DOMAIN q : kept[i] = q[j]
               \/ \E j \in DOMAIN frames : kept[i] = frames[j]
    <2>1. i \in 1 .. n /\ kept[i] = all[from + i - 1]
      BY <1>4, <1>6
    <2> QED BY <1>5, <2>1
  <1> HIDE DEF kept
  <1>8. EnqueueAll(q, frames) = kept /\ kept \in Seq(S)
    BY <1>3, <1>4 DEF kept
  <1> QED BY <1>7, <1>8

-----------------------------------------------------------------------------
(* What a step of the session does to window, stream and frames. *)

\* The frames of the last step, before enqueue_rx has them.
EmittedInWindow == \A i \in DOMAIN emitted : FrameInWindow(emitted[i])
EmittedOfStream == \A i \in DOMAIN emitted : FrameOfStream(emitted[i])

\* A segment with the first n bytes of s.
LEMMA DataSegment ==
  ASSUME NEW fl, NEW seq, NEW ack, NEW s \in Seq(Byte), NEW n \in Nat
  PROVE  LET f == Seg(fl, seq, ack, First(s, n))
             m == Least(n, Len(s))
         IN  /\ f.flags = fl /\ f.seq = seq
             /\ m \in Nat /\ m <= Len(s)
             /\ Len(f.data) = m /\ DOMAIN f.data = 1 .. m
             /\ \A i \in 1 .. m : f.data[i] = s[i]
  <1> DEFINE m == Least(n, Len(s))
             d == First(s, n)
  <1>1. m \in 0 .. Len(s) /\ Len(s) \in Nat
    BY DEF Least
  <1>2. d = SubSeq(s, 1, m)
    BY DEF First
  <1> HIDE DEF m, d
  <1>3. d \in Seq(Byte) /\ Len(d) = m /\ \A i \in 1 .. m : d[i] = s[i]
    BY <1>1, <1>2, SubSeqProperties
  <1>4. DOMAIN d = 1 .. m
    BY <1>3, LenProperties
  <1>5. LET f == Seg(fl, seq, ack, d) IN f.flags = fl /\ f.seq = seq /\ f.data = d
    BY DEF Seg
  <1> QED BY <1>1, <1>3, <1>4, <1>5 DEF m, d

\* A step that only adds an RST, or nothing, sends nothing the window could miss.
LEMMA QuietFrames ==
  ASSUME IInv, QuietStep
  PROVE  \A i \in DOMAIN emitted' : ~Carries(emitted'[i]) /\ "SYN" \notin emitted'[i].flags
  <1>1. CASE ConnectFail
    <2>1. emitted' = <<Seg({"RST"}, snd_nxt, rcv_nxt, << >>)>>
      BY <1>1 DEF ConnectFail
    <2> QED BY <2>1 DEF Carries, Seg
  <1>2. CASE emitted' = << >>
    BY <1>2
  <1> QED BY <1>1, <1>2
       DEF QuietStep, ConnectReturns, ConnectOk, BootWrite, BootCheck, LoopInactive, RecvTimeout,
           RecvError, ThreadClose, Find, Reap, ExitMark, ExitClose, ExitJoin, Clock, RtoExpires,
           GraceExpires

\* A step of the session that emits nothing.
LEMMA FramelessStep ==
  ASSUME \A i \in DOMAIN emitted' : ~Carries(emitted'[i]) /\ "SYN" \notin emitted'[i].flags
  PROVE  EmittedInWindow' /\ EmittedOfStream'
  BY DEF EmittedInWindow, EmittedOfStream, FrameInWindow, FrameOfStream, Carries

\* tcp_pump_locked sends behind what it sent before, or repeats the flight, and every byte it
\* sends is the server's byte of that place.
LEMMA PumpFrames ==
  ASSUME IInv, RelayTypeOK, InStreams, IInv', InStreams',
         NEW finPending \in BOOLEAN, Pump(finPending),
         UNCHANGED <<sbuf, snd_una, our_isn, s_sent>>
  PROVE  /\ SentEnd' >= SentEnd /\ EmittedInWindow'
         /\ BufferOfStream => BufferOfStream' /\ EmittedOfStream'
  <1> DEFINE u == Pos(snd_una)
             b == SeqAdd(our_isn, 1)
  <1>1. /\ u \in Nat /\ nxt \in Nat /\ nxt <= Len(sbuf) /\ Len(sbuf) \in Nat
        /\ fin_sent \in BOOLEAN /\ fin_sent' \in BOOLEAN /\ nxt' \in Nat
        /\ sbuf \in Seq(Byte) /\ MSS \in Nat \ {0}
    BY SizesAssumption DEF InStreams, IInv, TypeOK, StopAndWait
  <1>2. /\ Pos(snd_nxt) = SentEnd /\ SentEnd \in Nat
        /\ SentEnd = u + nxt + BoolNat(fin_sent)
        /\ SentEnd' = u + nxt' + BoolNat(fin_sent')
        /\ Pos(snd_una)' = u
    BY WindowBounds DEF SentEnd, Pos
  <1>3. BufferOfStream =>
           /\ u + Len(sbuf) = s_sent
           /\ \A i \in 1 .. Len(sbuf) : sbuf[i] = ServerByte(u + i) /\ u + i <= s_sent
           /\ fin_sent => sbuf = << >>
    BY <1>1 DEF BufferOfStream
  <1>4. BufferOfStream /\ (fin_sent' => sbuf = << >>) => BufferOfStream'
    BY <1>2 DEF BufferOfStream
  <1> HIDE DEF u
  <1>5. CASE PumpNew
    <2> DEFINE n == Least(MSS, Len(sbuf))
               f == Seg({"ACK", "PSH"}, snd_nxt, rcv_nxt, First(sbuf, MSS))
    <2>1. n \in Nat /\ n <= Len(sbuf)
      BY <1>1 DEF Least
    <2>2. /\ emitted' = <<f>> /\ nxt' = n /\ nxt = 0 /\ fin_sent' = fin_sent /\ sbuf # << >>
      BY <1>5 DEF PumpNew
    <2>3. /\ f.flags = {"ACK", "PSH"} /\ f.seq = snd_nxt
          /\ Len(f.data) = n /\ DOMAIN f.data = 1 .. n
          /\ \A i \in 1 .. n : f.data[i] = sbuf[i]
      BY <1>1, DataSegment
    <2> HIDE DEF f, n
    <2>4. SentEnd' = SentEnd + n
      BY <1>1, <1>2, <2>1, <2>2 DEF BoolNat
    <2>5. EmittedInWindow'
      <3>1. Pos(snd_nxt) + n + 0 <= SentEnd'
        BY <1>2, <2>1, <2>4
      <3>2. SeqDiff(f.seq, SeqAdd(our_isn', 1)) = Pos(snd_nxt)
        BY <2>3 DEF Pos
      <3>3. \A i \in DOMAIN emitted' : emitted'[i] = f
        BY <2>2
      <3> QED BY <1>2, <2>3, <3>1, <3>2, <3>3 DEF EmittedInWindow, FrameInWindow, Carries, Pos, BoolNat
    <2>6. ASSUME BufferOfStream
          PROVE  BufferOfStream' /\ EmittedOfStream'
      <3>1. ~fin_sent /\ Pos(snd_nxt) = u
        BY <1>1, <1>2, <1>3, <2>2, <2>6 DEF BoolNat
      <3>2. SeqDiff(f.seq, SeqAdd(our_isn', 1)) = u
        BY <2>3, <3>1 DEF Pos
      <3>3. \A i \in 1 .. n : f.data[i] = ServerByte(u + i) /\ u + i <= s_sent
        BY <1>1, <1>3, <2>1, <2>3, <2>6
      <3>4. \A i \in DOMAIN emitted' : emitted'[i] = f
        BY <2>2
      <3>5. EmittedOfStream'
        BY <2>3, <3>2, <3>3, <3>4 DEF EmittedOfStream, FrameOfStream, Carries, Pos
      <3> QED BY <1>4, <2>2, <2>6, <3>1, <3>5
    <2> QED BY <1>2, <2>1, <2>4, <2>5, <2>6
  <1>6. CASE PumpRetransmit
    <2> DEFINE f == Seg({"ACK", "PSH"}, snd_una, rcv_nxt, First(sbuf, nxt))
    <2>1. /\ emitted' = <<f>> /\ nxt' = nxt /\ nxt > 0 /\ fin_sent' = fin_sent
      BY <1>6 DEF PumpRetransmit
    <2>2. Least(nxt, Len(sbuf)) = nxt
      BY <1>1 DEF Least
    <2>3. /\ f.flags = {"ACK", "PSH"} /\ f.seq = snd_una
          /\ Len(f.data) = nxt /\ DOMAIN f.data = 1 .. nxt
          /\ \A i \in 1 .. nxt : f.data[i] = sbuf[i]
      BY <1>1, <2>2, DataSegment
    <2> HIDE DEF f
    <2>4. SentEnd' = SentEnd /\ u + nxt + 0 <= SentEnd'
      BY <1>1, <1>2, <2>1 DEF BoolNat
    <2>5. SeqDiff(f.seq, SeqAdd(our_isn', 1)) = u
      BY <2>3 DEF Pos, u
    <2>6. \A i \in DOMAIN emitted' : emitted'[i] = f
      BY <2>1
    <2>7. EmittedInWindow'
      <3>1. u \in Nat /\ u + Len(f.data) + 0 <= SentEnd'
        BY <1>1, <2>3, <2>4
      <3>2. "SYN" \notin f.flags /\ "FIN" \notin f.flags
        BY <2>3
      <3> QED BY <2>5, <2>6, <3>1, <3>2 DEF EmittedInWindow, FrameInWindow, Carries, Pos, BoolNat
    <2>8. ASSUME BufferOfStream
          PROVE  BufferOfStream' /\ EmittedOfStream'
      <3>1. \A i \in 1 .. nxt : f.data[i] = ServerByte(u + i) /\ u + i <= s_sent
        BY <1>1, <1>3, <2>3, <2>8
      <3>2. EmittedOfStream'
        BY <2>3, <2>5, <2>6, <3>1 DEF EmittedOfStream, FrameOfStream, Carries, Pos
      <3> QED BY <1>3, <1>4, <2>1, <2>8, <3>2
    <2> QED BY <1>2, <2>4, <2>7, <2>8
  <1>7. CASE PumpFin(finPending)
    <2> DEFINE f == Seg({"FIN", "ACK"}, snd_nxt, rcv_nxt, << >>)
    <2>1. /\ emitted' = <<f>> /\ nxt' = nxt /\ nxt = 0 /\ ~fin_sent /\ fin_sent' /\ sbuf = << >>
      BY <1>7 DEF PumpFin
    <2>2. f.flags = {"FIN", "ACK"} /\ f.seq = snd_nxt /\ f.data = << >> /\ Len(f.data) = 0
      BY DEF Seg
    <2> HIDE DEF f
    <2>3. SentEnd' = SentEnd + 1 /\ SentEnd = u
      BY <1>1, <1>2, <2>1 DEF BoolNat
    <2>4. SeqDiff(f.seq, SeqAdd(our_isn', 1)) = u
      BY <1>2, <2>2, <2>3 DEF Pos
    <2>5. \A i \in DOMAIN emitted' : emitted'[i] = f
      BY <2>1
    <2>6. EmittedInWindow'
      BY <1>1, <2>2, <2>3, <2>4, <2>5 DEF EmittedInWindow, FrameInWindow, Carries, Pos, BoolNat
    <2>7. ASSUME BufferOfStream
          PROVE  BufferOfStream' /\ EmittedOfStream'
      <3>1. u = s_sent
        BY <1>1, <1>3, <2>1, <2>7
      <3>2. EmittedOfStream'
        BY <2>1, <2>2, <2>4, <2>5, <3>1 DEF EmittedOfStream, FrameOfStream, Carries, Pos
      <3> QED BY <1>4, <2>1, <2>7, <3>2
    <2> QED BY <1>1, <1>2, <2>3, <2>6, <2>7
  <1>8. CASE PumpIdle(finPending)
    <2>1. emitted' = << >> /\ nxt' = nxt /\ fin_sent' = fin_sent
      BY <1>8 DEF PumpIdle
    <2>2. SentEnd' = SentEnd
      BY <1>2, <2>1
    <2>3. EmittedInWindow' /\ EmittedOfStream'
      BY <2>1, FramelessStep
    <2> QED BY <1>2, <1>3, <1>4, <2>1, <2>2, <2>3
  <1> QED BY <1>5, <1>6, <1>7, <1>8 DEF Pump

\* Nothing is received after the FIN, whatever is written or acknowledged meanwhile.
LEMMA FinLastStep ==
  ASSUME IInv, FinLast, AnyStep
  PROVE  FinLast'
  <1> USE DEF FinLast, flowvars, recvvars, bufvars
  <1>1. CASE QuietStep
    <2>1. UNCHANGED fin_sent
      BY <1>1, QuietFacts DEF IInv
    <2>2. CASE ConnectReturns \/ BootWrite \/ BootCheck \/ LoopInactive
      BY <2>1, <2>2 DEF ConnectReturns, ConnectFail, ConnectOk, BootWrite, BootCheck, LoopInactive
    <2>3. CASE RecvTimeout \/ RecvError \/ ThreadClose
      BY <2>1, <2>3 DEF RecvTimeout, RecvError, ThreadClose
    <2>4. CASE Find \/ Reap \/ ExitMark \/ ExitClose \/ ExitJoin \/ Clock
      BY <2>1, <2>4 DEF Find, Reap, ExitMark, ExitClose, ExitJoin, Clock, RtoExpires, GraceExpires
    <2> QED BY <1>1, <2>2, <2>3, <2>4 DEF QuietStep
  <1>2. CASE LoopClose
    BY <1>2 DEF LoopClose
  <1>3. CASE LoopDrain \/ LoopRecv
    <2>1. /\ Pump(fin_pending) /\ ~WindDown /\ pc = "top"
          /\ UNCHANGED <<fin_pending, close_requested, remote_eof>>
          /\ pc' = "top" \/ ~remote_eof
      BY <1>3 DEF LoopDrain, LoopRecv
    <2>2. fin_sent' = fin_sent
      <3>1. CASE PumpFin(fin_pending)
        BY <2>1, <3>1 DEF PumpFin, WindDown
      <3>2. CASE ~PumpFin(fin_pending)
        BY <2>1, <3>2 DEF Pump, PumpNew, PumpRetransmit, PumpIdle
      <3> QED BY <3>1, <3>2
    <2> QED BY <2>1, <2>2
  <1>4. CASE RecvEof
    BY <1>4 DEF RecvEof
  <1>5. ASSUME NEW chunk \in AnyChunk, RecvData(chunk)
        PROVE  FinLast'
    BY <1>5 DEF RecvData
  <1>6. ASSUME NEW seg \in AnySegment, ForwardRst(seg) \/ ForwardSegment(seg)
        PROVE  FinLast'
    <2>1. /\ UNCHANGED <<pc, remote_eof, fin_sent>>
          /\ close_requested' \/ UNCHANGED <<fin_pending, close_requested>>
      BY <1>6 DEF ForwardRst, ForwardSegment
    <2> QED BY <2>1
  <1> QED BY <1>1, <1>2, <1>3, <1>4, <1>5, <1>6 DEF AnyStep, PumpStep

\* A segment of the guest: it acknowledges at most what the guest has, its payload is counted
\* when it is taken, and what stays in sbuf stays in its place.
LEMMA SegmentStep ==
  ASSUME IInv, RelayTypeOK, InStreams, IInv', g_sent' \in Nat,
         NEW seg \in AnySegment, ForwardRst(seg) \/ ForwardSegment(seg),
         seg.ack = g_rcv, Pos(g_rcv) \in Pos(snd_una) .. SentEnd,
         g_sent' >= g_sent, InOrder(seg) => g_sent' = g_sent + Len(seg.data), s_sent' = s_sent
  PROVE  /\ our_isn' = our_isn /\ fin_sent' = fin_sent
         /\ InStreams' /\ SentEnd' = SentEnd /\ Pos(g_rcv) >= Pos(snd_una)'
         /\ EmittedInWindow' /\ EmittedOfStream'
         /\ BufferOfStream /\ seg.data = << >> => BufferOfStream'
  <1> DEFINE u == Pos(snd_una)
             k == Acked(seg)
             taken == IF InOrder(seg) THEN Len(seg.data) ELSE 0
  <1>1. /\ UNCHANGED <<our_isn, fin_sent, snd_nxt>> /\ AckOurData(seg)
    BY DEF ForwardRst, ForwardSegment
  <1>2. /\ u \in Nat /\ u + Len(sbuf) <= g_sent + s_sent
        /\ SeqAdd(our_isn, 1) \in SeqNo /\ SentEnd \in Nat /\ SentEnd < Half
        /\ Pos(snd_nxt) = SentEnd /\ SentEnd = u + nxt + BoolNat(fin_sent)
    BY WindowBounds DEF InStreams, SentEnd
  <1>3. /\ nxt \in Nat /\ nxt <= Len(sbuf) /\ Len(sbuf) \in Nat /\ sbuf \in Seq(Byte)
        /\ snd_una \in SeqNo /\ g_rcv \in SeqNo /\ fin_sent \in BOOLEAN
        /\ g_sent \in Nat /\ g_sent' \in Nat /\ s_sent \in Nat
        /\ seg.data \in Seq(Byte) /\ Len(seg.data) \in Nat
        /\ Len(sbuf') \in Nat /\ sbuf' \in Seq(Byte)
    <2>1. /\ nxt \in Nat /\ nxt <= Len(sbuf) /\ sbuf \in Seq(Byte)
          /\ snd_una \in SeqNo /\ fin_sent \in BOOLEAN
      BY DEF IInv, TypeOK, StopAndWait
    <2>2. g_rcv \in SeqNo /\ g_sent \in Nat /\ g_sent' \in Nat /\ s_sent \in Nat
      BY RelayAssumption DEF RelayTypeOK
    <2>3. seg.data \in Seq(Byte)
      BY DEF AnySegment, Segment
    <2>4. sbuf' \in Seq(Byte)
      BY DEF IInv, TypeOK
    <2>5. Len(sbuf) \in Nat /\ Len(sbuf') \in Nat /\ Len(seg.data) \in Nat
      BY <2>1, <2>3, <2>4, LenProperties
    <2> QED BY <2>1, <2>2, <2>3, <2>4, <2>5
  <1> DEFINE p == Pos(g_rcv)
  <1>0. p \in Int /\ p \in Nat /\ u <= p /\ p <= SentEnd
    <2>1. p \in Int
      BY <1>2, <1>3, SeqDiffType DEF Pos
    <2> QED BY <1>2, <2>1
  <1>4. k \in Nat /\ k <= nxt /\ k <= Len(sbuf) /\ k <= p - u
    <2>1. k \in 0 .. nxt
      BY AckedType DEF IInv
    <2>2. SeqDiff(g_rcv, snd_una) = p - u
      BY <1>0, <1>2, <1>3, DiffOfPlaces DEF Pos
    <2>3. k = 0 \/ k = Least(SeqDiff(g_rcv, snd_una), nxt)
      BY DEF Acked
    <2> HIDE DEF u, k, p
    <2>4. k = 0 \/ k = Least(p - u, nxt)
      BY <2>2, <2>3
    <2> QED BY <1>0, <1>2, <1>3, <2>1, <2>4 DEF Least
  <1>5. Pos(snd_una)' = u + k /\ nxt' = nxt - k
    <2>1. snd_una' = SeqAdd(snd_una, k) /\ nxt' = nxt - k
      BY <1>1 DEF AckOurData
    <2>2. u + k < Half
      <3> HIDE DEF u, k
      <3> QED BY <1>2, <1>3, <1>4, SizesAssumption DEF BoolNat
    <2>3. SeqDiff(SeqAdd(snd_una, k), SeqAdd(our_isn, 1)) = u + k
      <3> HIDE DEF k
      <3> QED BY <1>2, <1>3, <1>4, <2>2, DiffAfterAdd DEF Pos
    <2> QED BY <1>1, <2>1, <2>3 DEF Pos
  <1>6. /\ Drop(sbuf, k) \in Seq(Byte) /\ Len(Drop(sbuf, k)) = Len(sbuf) - k
        /\ \A i \in 1 .. Len(sbuf) - k : Drop(sbuf, k)[i] = sbuf[i + k]
    <2> HIDE DEF k
    <2>1. k \in 0 .. Len(sbuf)
      BY <1>3, <1>4
    <2> QED BY <1>3, <2>1, DropFacts
  <1>7. sbuf' = IF InOrder(seg) /\ "RST" \notin seg.flags THEN Store(Drop(sbuf, k), seg.data)
                ELSE Drop(sbuf, k)
    BY DEF ForwardRst, ForwardSegment, AfterPayload
  <1>8. Len(sbuf') <= Len(sbuf) - k + taken
    <2> HIDE DEF k
    <2>1. Len(Drop(sbuf, k) \o seg.data) = Len(sbuf) - k + Len(seg.data)
      <3> DEFINE d == Drop(sbuf, k)
      <3>1. d \in Seq(Byte) /\ Len(d) = Len(sbuf) - k
        BY <1>6
      <3> HIDE DEF d
      <3>2. Len(d \o seg.data) = Len(d) + Len(seg.data)
        BY <1>3, <3>1, ConcatProperties
      <3> QED BY <3>1, <3>2 DEF d
    <2> QED BY <1>3, <1>4, <1>6, <1>7, <2>1 DEF Store
  <1> HIDE DEF u, k
  <1>9. InStreams'
    <2>1. g_sent' >= g_sent + taken /\ taken \in Nat
      BY <1>3
    <2> HIDE DEF taken
    <2>2. u + k \in Nat /\ (u + k) + Len(sbuf') <= g_sent' + s_sent'
      <3> DEFINE n == Len(sbuf)
                 n2 == Len(sbuf')
                 g2 == g_sent'
      <3>1. /\ n \in Nat /\ n2 \in Nat /\ u \in Nat /\ k \in Nat /\ taken \in Nat
            /\ g_sent \in Nat /\ g2 \in Nat /\ s_sent \in Nat /\ s_sent' = s_sent
        BY <1>2, <1>3, <1>4, <2>1
      <3>2. u + n <= g_sent + s_sent /\ n2 <= n - k + taken /\ g_sent + taken <= g2
        BY <1>2, <1>3, <1>8, <2>1
      <3> HIDE DEF n, n2, g2
      <3>3. u + k \in Nat /\ (u + k) + n2 <= g2 + s_sent
        BY <3>1, <3>2
      <3> QED BY <3>1, <3>3 DEF n2, g2
    <2> QED BY <1>5, <2>2 DEF InStreams
  <1>10. SentEnd' = SentEnd /\ Pos(g_rcv) >= Pos(snd_una)'
    <2>1. SentEnd' = (u + k) + (nxt - k) + BoolNat(fin_sent)
      BY <1>1, <1>5 DEF SentEnd
    <2> HIDE DEF p
    <2>2. p >= u + k /\ u + k + (nxt - k) + BoolNat(fin_sent) = SentEnd
      BY <1>0, <1>2, <1>3, <1>4 DEF BoolNat
    <2> QED BY <1>5, <2>1, <2>2 DEF p
  <1>11. \A i \in DOMAIN emitted' :
            /\ emitted'[i].flags = {"ACK"} /\ emitted'[i].seq = snd_nxt
            /\ emitted'[i].data = << >>
    <2>1. CASE ForwardRst(seg)
      BY <2>1 DEF ForwardRst
    <2>2. CASE ForwardSegment(seg)
      <3> DEFINE dataAck(a) == IF seg.data # << >> THEN <<Seg({"ACK"}, snd_nxt, a, << >>)>> ELSE << >>
      <3>1. \E a, c : emitted' = dataAck(a) \/ emitted' = Append(dataAck(a), Seg({"ACK"}, snd_nxt, c, << >>))
        BY <2>2 DEF ForwardSegment
      <3>2. PICK a, c : emitted' = dataAck(a) \/ emitted' = Append(dataAck(a), Seg({"ACK"}, snd_nxt, c, << >>))
        BY <3>1
      <3>3. CASE seg.data = << >>
        <4>1. emitted' = << >> \/ emitted' = <<Seg({"ACK"}, snd_nxt, c, << >>)>>
          BY <3>2, <3>3
        <4> QED BY <4>1 DEF Seg
      <3>4. CASE seg.data # << >>
        <4>1. \/ emitted' = <<Seg({"ACK"}, snd_nxt, a, << >>)>>
              \/ emitted' = <<Seg({"ACK"}, snd_nxt, a, << >>), Seg({"ACK"}, snd_nxt, c, << >>)>>
          BY <3>2, <3>4
        <4> QED BY <4>1 DEF Seg
      <3> QED BY <3>3, <3>4
    <2> QED BY <2>1, <2>2
  <1>12. EmittedInWindow' /\ EmittedOfStream'
    <2>1. SeqDiff(snd_nxt, SeqAdd(our_isn', 1)) = SentEnd' /\ SentEnd' \in Nat
      BY <1>1, <1>2, <1>10 DEF Pos
    <2>2. EmittedInWindow'
      BY <1>11, <2>1 DEF EmittedInWindow, FrameInWindow, Carries, Pos, BoolNat
    <2>3. EmittedOfStream'
      BY <1>11 DEF EmittedOfStream, FrameOfStream
    <2> QED BY <2>2, <2>3
  <1>13. ASSUME BufferOfStream, seg.data = << >>
         PROVE  BufferOfStream'
    <2>1. sbuf' = Drop(sbuf, k)
      BY <1>7, <1>13 DEF InOrder
    <2>2. /\ u + Len(sbuf) = s_sent
          /\ fin_sent => Len(sbuf) = 0
          /\ \A i \in 1 .. Len(sbuf) : sbuf[i] = ServerByte(u + i)
      BY <1>3, <1>13 DEF BufferOfStream, u
    <2>3. (u + k) + Len(sbuf') = s_sent'
      <3>1. s_sent' = s_sent /\ Len(sbuf') = Len(sbuf) - k
        BY <1>6, <2>1
      <3>2. u \in Int /\ k \in Int /\ Len(sbuf) \in Int
        BY <1>2, <1>3, <1>4
      <3> DEFINE n == Len(sbuf)
      <3>3. u + n = s_sent /\ n \in Int /\ Len(sbuf') = n - k
        BY <2>2, <3>1, <3>2
      <3> HIDE DEF n
      <3>4. u + k + (n - k) = s_sent
        BY <3>2, <3>3
      <3> QED BY <3>1, <3>3, <3>4
    <2>4. \A i \in 1 .. Len(sbuf') : sbuf'[i] = ServerByte((u + k) + i)
      <3>1. ASSUME NEW i \in 1 .. Len(sbuf')
            PROVE  sbuf'[i] = ServerByte((u + k) + i)
        <4>1. i \in 1 .. Len(sbuf) - k /\ i + k \in 1 .. Len(sbuf) /\ u + (i + k) = (u + k) + i
          <5> DEFINE n == Len(sbuf)
          <5>1. Len(sbuf') = n - k /\ n \in Nat /\ u \in Nat /\ k \in Nat
            BY <1>2, <1>3, <1>4, <1>6, <2>1
          <5>2. i \in 1 .. n - k
            BY <5>1
          <5> HIDE DEF n
          <5>3. i \in 1 .. n - k /\ i + k \in 1 .. n /\ u + (i + k) = (u + k) + i
            BY <5>1, <5>2
          <5> QED BY <5>3 DEF n
        <4> QED BY <1>6, <2>1, <2>2, <4>1
      <3> QED BY <3>1
    <2>5. fin_sent' => sbuf' = << >>
      <3>1. fin_sent => Len(sbuf') = 0
        <4>1. Len(sbuf') = Len(sbuf) - k
          BY <1>6, <2>1
        <4> QED BY <1>3, <1>4, <2>2, <4>1
      <3> QED BY <1>1, <1>3, <3>1, EmptySeq
    <2> QED BY <1>3, <1>5, <2>3, <2>4, <2>5 DEF BufferOfStream
  <1> QED BY <1>1, <1>9, <1>10, <1>12, <1>13

\* The bytes of one recv() are server bytes.
LEMMA ChunkType ==
  ASSUME RelayTypeOK, NEW n \in 1 .. Least(ChunkMax, ServerBytes - s_sent)
  PROVE  /\ n \in Nat /\ s_sent + n \in 0 .. ServerBytes
         /\ [i \in 1 .. n |-> ServerByte(s_sent + i)] \in AnyChunk
  <1>1. n \in Nat /\ s_sent \in Nat /\ ServerBytes \in Nat /\ s_sent + n <= ServerBytes
    BY RelayAssumption DEF RelayTypeOK, Least
  <1>2. ASSUME NEW i \in 1 .. n
        PROVE  ServerByte(s_sent + i) \in Byte
    <2>1. s_sent + i \in 1 .. ServerBytes
      BY <1>1
    <2> QED BY <2>1, RelayAssumption DEF ServerByte
  <1>3. [i \in 1 .. n |-> ServerByte(s_sent + i)] \in [1 .. n -> Byte]
    BY <1>2
  <1> QED BY <1>1, <1>3 DEF AnyChunk

\* Bytes of recv() go behind those in sbuf, or are dropped.
LEMMA ChunkStep ==
  ASSUME IInv, RelayTypeOK, InStreams, FinLast, IInv',
         NEW n \in 1 .. Least(ChunkMax, ServerBytes - s_sent),
         RecvData([i \in 1 .. n |-> ServerByte(s_sent + i)]),
         s_sent' = s_sent + n, g_sent' = g_sent
  PROVE  /\ our_isn' = our_isn /\ ~fin_sent /\ ~fin_sent'
         /\ InStreams' /\ SentEnd' = SentEnd /\ Pos(snd_una)' = Pos(snd_una)
         /\ EmittedInWindow' /\ EmittedOfStream'
         /\ BufferOfStream /\ Len(sbuf') # Len(sbuf) => BufferOfStream'
  <1> DEFINE chunk == [i \in 1 .. n |-> ServerByte(s_sent + i)]
             u == Pos(snd_una)
  <1>1. /\ UNCHANGED <<our_isn, fin_sent, snd_una, nxt>> /\ pc = "recv"
        /\ sbuf' = Store(sbuf, chunk) /\ emitted' = << >>
    BY DEF RecvData, flowvars
  <1>2. ~fin_sent
    BY <1>1 DEF FinLast
  <1>3. /\ u \in Nat /\ g_sent \in Nat /\ s_sent \in Nat /\ sbuf \in Seq(Byte) /\ Len(sbuf) \in Nat
        /\ u + Len(sbuf) <= g_sent + s_sent
    <2>1. sbuf \in Seq(Byte)
      BY DEF IInv, TypeOK
    <2>2. g_sent \in Nat /\ s_sent \in Nat
      BY RelayAssumption DEF RelayTypeOK
    <2> QED BY <2>1, <2>2, LenProperties DEF InStreams
  <1>4. n \in Nat /\ chunk \in Seq(Byte)
    BY ChunkType DEF AnyChunk
  <1>5. Len(chunk) = n /\ \A i \in 1 .. n : chunk[i] = ServerByte(s_sent + i)
    BY <1>4
  <1>6. Pos(snd_una)' = u /\ SentEnd' = SentEnd
    BY <1>1 DEF Pos, SentEnd
  <1> HIDE DEF chunk, u
  <1>7. /\ Len(sbuf \o chunk) = Len(sbuf) + n
        /\ \A i \in 1 .. Len(sbuf) : (sbuf \o chunk)[i] = sbuf[i]
        /\ \A i \in 1 .. n : (sbuf \o chunk)[Len(sbuf) + i] = chunk[i]
    <2>1. /\ Len(sbuf \o chunk) = Len(sbuf) + Len(chunk)
          /\ \A i \in 1 .. Len(sbuf) : (sbuf \o chunk)[i] = sbuf[i]
          /\ \A i \in 1 .. Len(chunk) : (sbuf \o chunk)[Len(sbuf) + i] = chunk[i]
      BY <1>3, <1>4, ConcatProperties
    <2> QED BY <1>5, <2>1
  <1>8. sbuf' = sbuf \o chunk \/ sbuf' = sbuf
    BY <1>1 DEF Store
  <1>9. InStreams'
    <2>1. Len(sbuf') \in Nat /\ Len(sbuf') <= Len(sbuf) + n
      BY <1>3, <1>4, <1>7, <1>8
    <2>2. u + Len(sbuf') <= g_sent' + s_sent'
      BY <1>3, <1>4, <2>1
    <2> QED BY <1>3, <1>6, <2>2 DEF InStreams
  <1>10. ASSUME BufferOfStream, Len(sbuf') # Len(sbuf)
         PROVE  BufferOfStream'
    <2>1. sbuf' = sbuf \o chunk
      BY <1>8, <1>10
    <2>2. u + Len(sbuf) = s_sent /\ \A i \in 1 .. Len(sbuf) : sbuf[i] = ServerByte(u + i)
      BY <1>3, <1>10 DEF BufferOfStream, u
    <2> DEFINE m == Len(sbuf)
    <2>6. m \in Nat /\ u + m = s_sent
      BY <1>3, <2>2
    <2> HIDE DEF m
    <2>3. Len(sbuf') = m + n /\ u + Len(sbuf') = s_sent'
      <3>1. Len(sbuf') = m + n
        BY <1>7, <2>1 DEF m
      <3> QED BY <1>3, <1>4, <2>6, <3>1
    <2>4. ASSUME NEW i \in 1 .. Len(sbuf')
          PROVE  sbuf'[i] = ServerByte(u + i)
      <3>1. CASE i <= m
        <4>1. i \in 1 .. m
          BY <1>4, <2>3, <2>6, <3>1
        <4> QED BY <1>7, <2>1, <2>2, <4>1 DEF m
      <3>2. CASE i > m
        <4> DEFINE j == i - m
        <4>1. j \in 1 .. n /\ m + j = i /\ s_sent + j = u + i
          BY <1>3, <1>4, <2>3, <2>6, <3>2
        <4> HIDE DEF j
        <4>2. (sbuf \o chunk)[m + j] = ServerByte(s_sent + j)
          BY <1>5, <1>7, <4>1 DEF m
        <4> QED BY <2>1, <4>1, <4>2
      <3> QED BY <1>4, <2>3, <2>6, <3>1, <3>2
    <2>5. sbuf' \in Seq(Byte) /\ DOMAIN sbuf' = 1 .. Len(sbuf')
      <3>1. sbuf' \in Seq(Byte)
        BY <1>3, <1>4, <2>1, ConcatProperties
      <3> QED BY <3>1, LenProperties
    <2> QED BY <1>1, <1>2, <1>6, <2>3, <2>4, <2>5 DEF BufferOfStream
  <1>11. EmittedInWindow' /\ EmittedOfStream'
    BY <1>1, FramelessStep
  <1> QED BY <1>1, <1>2, <1>6, <1>9, <1>10, <1>11 DEF u

-----------------------------------------------------------------------------
(* The frame queue. *)

\* FrameInWindow and FrameOfStream, of any frame and any state of the session.
PlacedIn(f, isn, end) ==
  /\ "SYN" \in f.flags => f.seq = isn
  /\ Carries(f) =>
        /\ SeqDiff(f.seq, SeqAdd(isn, 1)) \in Nat
        /\ SeqDiff(f.seq, SeqAdd(isn, 1)) + Len(f.data) + BoolNat("FIN" \in f.flags) <= end
PieceOf(f, isn, n, fin) ==
  Carries(f) =>
      /\ \A i \in DOMAIN f.data :
            /\ f.data[i] = ServerByte(SeqDiff(f.seq, SeqAdd(isn, 1)) + i)
            /\ SeqDiff(f.seq, SeqAdd(isn, 1)) + i <= n
      /\ "FIN" \in f.flags => fin /\ f.data = << >> /\ SeqDiff(f.seq, SeqAdd(isn, 1)) = n

\* Frames stay in their place while the session goes on.
LEMMA FramesStay ==
  ASSUME NEW f \in Segment, NEW isn \in SeqNo, NEW end \in Nat, NEW end2 \in Nat, end <= end2,
         NEW n \in Nat, NEW n2 \in Nat, n <= n2, NEW fin \in BOOLEAN, NEW fin2 \in BOOLEAN,
         fin => fin2 /\ n2 = n
  PROVE  /\ PlacedIn(f, isn, end) => PlacedIn(f, isn, end2)
         /\ PieceOf(f, isn, n, fin) => PieceOf(f, isn, n2, fin2)
  <1> DEFINE at == SeqDiff(f.seq, SeqAdd(isn, 1))
  <1>1. at \in Int /\ f.data \in Seq(Byte) /\ Len(f.data) \in Nat /\ DOMAIN f.data = 1 .. Len(f.data)
    <2>1. f.seq \in SeqNo /\ f.data \in Seq(Byte)
      BY DEF Segment
    <2>2. SeqAdd(isn, 1) \in SeqNo
      BY SizesAssumption, SeqAddType
    <2> QED BY <2>1, <2>2, SeqDiffType, LenProperties
  <1>2. PlacedIn(f, isn, end) <=>
          /\ "SYN" \in f.flags => f.seq = isn
          /\ Carries(f) => at \in Nat /\ at + Len(f.data) + BoolNat("FIN" \in f.flags) <= end
    BY DEF PlacedIn
  <1>3. PlacedIn(f, isn, end2) <=>
          /\ "SYN" \in f.flags => f.seq = isn
          /\ Carries(f) => at \in Nat /\ at + Len(f.data) + BoolNat("FIN" \in f.flags) <= end2
    BY DEF PlacedIn
  <1>4. PieceOf(f, isn, n, fin) =>
          (Carries(f) =>
              /\ \A i \in DOMAIN f.data : f.data[i] = ServerByte(at + i) /\ at + i <= n
              /\ "FIN" \in f.flags => fin /\ f.data = << >> /\ at = n)
    BY DEF PieceOf
  <1>5. (Carries(f) =>
              /\ \A i \in DOMAIN f.data : f.data[i] = ServerByte(at + i) /\ at + i <= n2
              /\ "FIN" \in f.flags => fin2 /\ f.data = << >> /\ at = n2)
        => PieceOf(f, isn, n2, fin2)
    BY DEF PieceOf
  <1> HIDE DEF at
  <1>6. PlacedIn(f, isn, end) => PlacedIn(f, isn, end2)
    <2>1. at \in Nat => at + Len(f.data) + BoolNat("FIN" \in f.flags) \in Nat
      <3> DEFINE c == BoolNat("FIN" \in f.flags)
      <3>1. c \in Nat
        BY DEF BoolNat
      <3> HIDE DEF c
      <3>2. at \in Nat => at + Len(f.data) + c \in Nat
        BY <1>1, <3>1
      <3> QED BY <3>2 DEF c
    <2> QED BY <1>2, <1>3, <2>1
  <1>7. ASSUME NEW i \in DOMAIN f.data, at + i <= n
        PROVE  at + i <= n2
    BY <1>1, <1>7
  <1> QED BY <1>4, <1>5, <1>6, <1>7

\* The queue after a step of the session: what was there, moved along, and what is new.
LEMMA QueueStep ==
  ASSUME RelayTypeOK, our_isn \in SeqNo, our_isn' = our_isn,
         fin_sent \in BOOLEAN, fin_sent' \in BOOLEAN,
         SentEnd \in Nat, SentEnd' \in Nat, SentEnd' >= SentEnd,
         s_sent' \in Nat, s_sent' >= s_sent, fin_sent => fin_sent' /\ s_sent' = s_sent,
         QueueInWindow, emitted' \in Seq(Segment), EmittedInWindow',
         rx' = EnqueueAll(rx, emitted') \/ rx' = rx
  PROVE  /\ rx' \in Seq(Segment \cup {Other})
         /\ QueueInWindow'
         /\ /\ \A i \in DOMAIN rx : rx[i] = Other \/ FrameOfStream(rx[i])
            /\ EmittedOfStream'
            => (\A i \in DOMAIN rx : rx[i] = Other \/ FrameOfStream(rx[i]))'
  <1> DEFINE T == Segment \cup {Other}
  <1>1. rx \in Seq(T) /\ emitted' \in Seq(T) /\ s_sent \in Nat
    BY RelayAssumption, SeqMonotonic DEF RelayTypeOK
  <1>2. /\ rx' \in Seq(T)
        /\ \A i \in DOMAIN rx' : \/ \E j \in DOMAIN rx : rx'[i] = rx[j]
                                 \/ \E j \in DOMAIN emitted' : rx'[i] = emitted'[j]
    BY <1>1, QueueFacts
  <1> HIDE DEF T
  <1>3. /\ \A j \in DOMAIN rx : rx[j] = Other \/ rx[j] \in Segment
        /\ \A j \in DOMAIN rx : rx[j] = Other \/ PlacedIn(rx[j], our_isn, SentEnd)
    BY <1>1 DEF T, QueueInWindow, FrameInWindow, PlacedIn, Pos
  <1>4. \A j \in DOMAIN emitted' : PlacedIn(emitted'[j], our_isn, SentEnd')
    BY DEF EmittedInWindow, FrameInWindow, PlacedIn, Pos
  <1>5. \A j \in DOMAIN rx : rx[j] = Other \/ PlacedIn(rx[j], our_isn, SentEnd')
    BY <1>1, <1>3, FramesStay
  <1>6. \A i \in DOMAIN rx' : rx'[i] = Other \/ PlacedIn(rx'[i], our_isn, SentEnd')
    BY <1>2, <1>4, <1>5
  <1>7. QueueInWindow'
    BY <1>6 DEF QueueInWindow, FrameInWindow, PlacedIn, Pos
  <1>8. ASSUME \A i \in DOMAIN rx : rx[i] = Other \/ FrameOfStream(rx[i]), EmittedOfStream'
        PROVE  (\A i \in DOMAIN rx : rx[i] = Other \/ FrameOfStream(rx[i]))'
    <2>1. \A j \in DOMAIN rx : rx[j] = Other \/ PieceOf(rx[j], our_isn, s_sent, fin_sent)
      BY <1>8 DEF FrameOfStream, PieceOf, Pos
    <2>2. \A j \in DOMAIN emitted' : PieceOf(emitted'[j], our_isn, s_sent', fin_sent')
      BY <1>8 DEF EmittedOfStream, FrameOfStream, PieceOf, Pos
    <2>3. \A j \in DOMAIN rx : rx[j] = Other \/ PieceOf(rx[j], our_isn, s_sent', fin_sent')
      BY <1>1, <1>3, <2>1, FramesStay
    <2>4. \A i \in DOMAIN rx' : rx'[i] = Other \/ PieceOf(rx'[i], our_isn, s_sent', fin_sent')
      BY <1>2, <2>2, <2>3
    <2> QED BY <2>4 DEF FrameOfStream, PieceOf, Pos
  <1> QED BY <1>2, <1>7, <1>8 DEF T

\* A step of the session and of what surrounds it, where only the session sends.
LEMMA AfterStep ==
  ASSUME RInv, IInv', FinLast', our_isn' = our_isn,
         fin_sent => fin_sent' /\ s_sent' = s_sent, s_sent' \in s_sent .. ServerBytes,
         InStreams', SentEnd' >= SentEnd, EmittedInWindow',
         rx' = EnqueueAll(rx, emitted') \/ rx' = rx,
         UNCHANGED <<g_isn, g_una, g_rcv, g_got>>,
         g_sent' \in g_sent .. GuestBytes, g_fin' \in BOOLEAN, g_ackDue' \in BOOLEAN,
         dropped' \in BOOLEAN,
         g_state' = g_state \/ g_state' = "closed",
         g_state = "open" => Pos(g_rcv) >= Pos(snd_una)',
         g_state = "syn_sent" => Pos(snd_una)' = Pos(snd_una),
         (rcv_nxt = GuestSeq(g_sent + 1 + BoolNat(g_fin)))',
         ~fouled' => ~fouled /\ (BufferOfStream => BufferOfStream' /\ EmittedOfStream')
  PROVE  RInv'
  <1>1. /\ g_sent \in Nat /\ s_sent \in Nat /\ s_sent' \in Nat /\ our_isn \in SeqNo
        /\ fin_sent \in BOOLEAN /\ fin_sent' \in BOOLEAN /\ nxt' \in Nat
        /\ emitted' \in Seq(Segment) /\ s_sent' >= s_sent /\ g_sent' \in 0 .. GuestBytes
    <2>1. our_isn \in SeqNo /\ fin_sent \in BOOLEAN
      BY DEF RInv, IInv, TypeOK
    <2>2. fin_sent' \in BOOLEAN /\ nxt' \in Nat /\ emitted' \in Seq(Segment)
      BY DEF IInv, TypeOK
    <2>3. g_sent \in Nat /\ s_sent \in Nat
      BY RelayAssumption DEF RInv, RelayTypeOK
    <2>4. s_sent' \in Nat /\ s_sent' >= s_sent /\ g_sent' \in 0 .. GuestBytes
      BY <2>3, RelayAssumption
    <2> QED BY <2>1, <2>2, <2>3, <2>4
  <1>2. SentEnd \in Nat /\ SentEnd' \in Nat
    <2>1. SentEnd \in Nat
      BY WindowBounds DEF RInv, Window, InStreams
    <2>2. SentEnd' \in Nat
      BY <1>1 DEF SentEnd, InStreams, BoolNat
    <2> QED BY <2>1, <2>2
  <1>3. /\ rx' \in Seq(Segment \cup {Other}) /\ QueueInWindow'
        /\ /\ \A i \in DOMAIN rx : rx[i] = Other \/ FrameOfStream(rx[i])
           /\ EmittedOfStream'
           => (\A i \in DOMAIN rx : rx[i] = Other \/ FrameOfStream(rx[i]))'
    BY <1>1, <1>2, QueueStep DEF RInv
  <1>4. RelayTypeOK'
    <2>1. g_una' \in 0 .. g_sent'
      BY <1>1 DEF RInv, RelayTypeOK
    <2>2. g_state' \in {"syn_sent", "open", "closed"} /\ s_sent' \in 0 .. ServerBytes
      BY <1>1, RelayAssumption DEF RInv, RelayTypeOK
    <2>3. g_isn' \in SeqNo /\ g_rcv' \in SeqNo /\ g_got' \in Seq(Byte)
      BY DEF RInv, RelayTypeOK
    <2> QED BY <1>1, <1>3, <2>1, <2>2, <2>3 DEF RelayTypeOK
  <1>5. Window'
    <2>1. g_state' = "syn_sent" => Pos(snd_una)' = 0
      BY DEF RInv, Window
    <2>2. ASSUME g_state' = "open"
          PROVE  Pos(g_rcv)' \in Pos(snd_una)' .. SentEnd'
      <3>1. g_state = "open" /\ Pos(g_rcv) \in Pos(snd_una) .. SentEnd
        BY <2>2 DEF RInv, Window
      <3>2. Pos(g_rcv)' = Pos(g_rcv)
        BY DEF Pos
      <3>3. Pos(snd_una)' \in Nat
        BY DEF InStreams
      <3> QED BY <1>2, <3>1, <3>2, <3>3
    <2> QED BY <2>1, <2>2 DEF Window, InStreams
  <1>6. PiecesOfStream'
    <2>1. SUFFICES ASSUME ~fouled'
                   PROVE  (/\ BufferOfStream /\ GuestOfStream
                           /\ \A i \in DOMAIN rx : rx[i] = Other \/ FrameOfStream(rx[i]))'
      BY DEF PiecesOfStream
    <2>2. ~fouled /\ (BufferOfStream => BufferOfStream' /\ EmittedOfStream')
      BY <2>1
    <2>3. /\ BufferOfStream /\ GuestOfStream
          /\ \A i \in DOMAIN rx : rx[i] = Other \/ FrameOfStream(rx[i])
      BY <2>2 DEF RInv, PiecesOfStream
    <2>4. GuestOfStream'
      <3>1. Len(g_got') = Len(g_got) /\ Len(g_got) \in Nat /\ Len(g_got) <= s_sent
        BY <2>3, LenProperties DEF GuestOfStream, RInv, RelayTypeOK
      <3>2. Len(g_got') <= s_sent' /\ g_got' = ServerStream(Len(g_got'))
        BY <1>1, <2>3, <3>1 DEF GuestOfStream
      <3>3. Pos(g_rcv)' = Pos(g_rcv)
        BY DEF Pos
      <3>4. g_state' = "syn_sent" => g_got' = << >>
        BY <2>3 DEF GuestOfStream
      <3>5. g_state' = "open" =>
              \/ Pos(g_rcv)' = Len(g_got')
              \/ fin_sent' /\ Len(g_got') = s_sent' /\ Pos(g_rcv)' = s_sent' + 1
        BY <2>3, <3>1, <3>3 DEF GuestOfStream
      <3> QED BY <3>2, <3>4, <3>5 DEF GuestOfStream
    <2> QED BY <1>3, <2>2, <2>3, <2>4
  <1> QED BY <1>3, <1>4, <1>5, <1>6 DEF RInv

-----------------------------------------------------------------------------
(* The guest's segments. *)

\* What is asked of a segment the guest hands to forward_tcp.
ForwardsOne(seg) ==
  /\ GuestSends(seg)
  /\ seg.ack = g_rcv
  /\ g_state' = g_state \/ g_state' = "closed"
  /\ g_sent' \in g_sent .. GuestBytes
  /\ seg.data # << >> => g_sent' > 0
  /\ InOrder(seg) => g_sent' = g_sent + Len(seg.data)
  /\ g_fin' \in BOOLEAN /\ g_ackDue' \in BOOLEAN
  /\ (rcv_nxt = GuestSeq(g_sent + 1 + BoolNat(g_fin)))'

\* Where forward_tcp leaves rcv_nxt.
LEMMA ReceivedNext ==
  ASSUME NEW seg, ForwardSegment(seg) \/ ForwardRst(seg)
  PROVE  rcv_nxt' = IF "RST" \in seg.flags THEN rcv_nxt
                    ELSE IF "FIN" \in seg.flags THEN SeqAdd(seg.seq, Len(seg.data) + 1)
                    ELSE IF InOrder(seg) THEN SeqAdd(rcv_nxt, Len(seg.data)) ELSE rcv_nxt
  BY DEF ForwardSegment, ForwardRst

\* A segment of the guest is one the session's proofs speak of.
LEMMA GuestSegment ==
  ASSUME RelayTypeOK, NEW fl \in SUBSET Flag, NEW q \in SeqNo, NEW d \in Seq(Byte), Len(d) < Half
  PROVE  Seg(fl, q, g_rcv, d) \in AnySegment
  <1>1. Seg(fl, q, g_rcv, d) \in Segment
    BY SegType DEF RelayTypeOK
  <1> QED BY <1>1 DEF AnySegment, Seg

\* forward_tcp with a segment of the guest: rcv_nxt stays within what the guest sent, and no byte is lost.
LEMMA GuestForwardsOne ==
  ASSUME RelayTypeOK, Window, GuestForwards
  PROVE  \E seg \in AnySegment : ForwardsOne(seg)
  <1> DEFINE s == g_sent
             o == BoolNat(g_fin)
  <1>1. /\ s \in Nat /\ s <= GuestBytes /\ GuestBytes \in Nat /\ GuestBytes + 2 <= Half /\ Half \in Nat
        /\ g_una \in Nat /\ g_una <= s /\ o \in {0, 1} /\ g_fin \in BOOLEAN /\ g_ackDue \in BOOLEAN
        /\ rcv_nxt = GuestSeq(s + 1 + o)
    BY SizesAssumption, RelayAssumption DEF RelayTypeOK, Window, BoolNat
  <1>2. \A i, j \in Nat : i + j <= Half =>
            /\ GuestSeq(i) \in SeqNo
            /\ SeqAdd(GuestSeq(i), j) = GuestSeq(i + j)
            /\ GuestSeq(i) = GuestSeq(i + j) => j = 0
    BY GuestSeqFacts
  <1>3. g_isn' = g_isn /\ \A i : GuestSeq(i)' = SeqAdd(g_isn', i)
    BY DEF GuestForwards, GuestData, GuestResends, GuestResendsFin, GuestAcks, GuestFin, GuestRst,
           GuestSends, GuestSeq
  <1>4. << >> \in Seq(Byte) /\ Len(<< >>) = 0
    BY EmptySeq
  <1>5. ASSUME NEW i \in 1 .. GuestBytes
        PROVE  <<GuestByte(i)>> \in Seq(Byte) /\ Len(<<GuestByte(i)>>) = 1
    <2>1. GuestByte(i) \in Byte
      BY RelayAssumption DEF GuestByte
    <2> QED BY <2>1
  <1>6. ASSUME NEW seg \in AnySegment, GuestSends(seg)
        PROVE  /\ g_state = "open"
               /\ ForwardSegment(seg) \/ ForwardRst(seg)
    BY <1>6 DEF GuestSends, SessionStep, Counted
  <1>7. CASE GuestData
    <2> DEFINE seg == Seg({"ACK"}, GuestSeq(s + 1), g_rcv, <<GuestByte(s + 1)>>)
    <2>1. GuestSends(seg) /\ ~g_fin /\ s < GuestBytes /\ g_sent' = s + 1 /\ ~g_ackDue'
          /\ g_state' = g_state /\ g_fin' = g_fin
      BY <1>7 DEF GuestData
    <2>2. /\ seg \in AnySegment /\ seg.flags = {"ACK"} /\ seg.seq = GuestSeq(s + 1)
          /\ seg.ack = g_rcv /\ seg.data = <<GuestByte(s + 1)>> /\ Len(seg.data) = 1
      <3>1. s + 1 \in 1 .. GuestBytes /\ s + 1 \in Nat /\ (s + 1) + 0 <= Half
        BY <1>1, <2>1
      <3> DEFINE d == <<GuestByte(s + 1)>>
                 q == GuestSeq(s + 1)
      <3>2. d \in Seq(Byte) /\ Len(d) = 1 /\ Len(d) < Half
        BY <1>1, <1>4, <1>5, <3>1
      <3>3. q \in SeqNo
        BY <1>1, <1>2, <3>1
      <3>4. {"ACK"} \in SUBSET Flag
        BY DEF Flag
      <3>5. seg.flags = {"ACK"} /\ seg.seq = q /\ seg.ack = g_rcv /\ seg.data = d
        BY DEF Seg
      <3>6. seg = Seg({"ACK"}, q, g_rcv, d)
        OBVIOUS
      <3> HIDE DEF d, q, seg
      <3>7. seg \in AnySegment
        BY <3>2, <3>3, <3>4, <3>6, GuestSegment
      <3> QED BY <3>2, <3>5, <3>7 DEF d, q
    <2> HIDE DEF seg
    <2>3. o = 0 /\ seg.seq = rcv_nxt
      BY <1>1, <2>1, <2>2 DEF BoolNat
    <2>4. rcv_nxt' = SeqAdd(rcv_nxt, 1) /\ seg.data # << >>
      <3>1. seg.data # << >>
        BY <2>2
      <3> QED BY <1>6, <2>1, <2>2, <2>3, <3>1, ReceivedNext DEF InOrder
    <2>5. rcv_nxt' = GuestSeq(s + 2)
      BY <1>1, <1>2, <2>1, <2>3, <2>4
    <2>6. (rcv_nxt = GuestSeq(g_sent + 1 + BoolNat(g_fin)))'
      BY <1>1, <1>3, <2>1, <2>5 DEF GuestSeq, BoolNat
    <2>7. /\ s + 1 \in s .. GuestBytes /\ s + 1 > 0 /\ s + 1 = s + Len(seg.data)
          /\ g_fin' \in BOOLEAN /\ g_ackDue' \in BOOLEAN
      <3>1. g_ackDue' = FALSE
        BY <1>7 DEF GuestData
      <3>2. g_fin' \in BOOLEAN
        BY <1>1, <2>1
      <3>3. s + 1 \in s .. GuestBytes /\ s + 1 > 0 /\ s + 1 = s + Len(seg.data)
        BY <1>1, <2>1, <2>2
      <3> QED BY <3>1, <3>2, <3>3
    <2>8. ForwardsOne(seg)
      BY <2>1, <2>2, <2>6, <2>7 DEF ForwardsOne
    <2> QED BY <2>2, <2>8
  <1>8. CASE GuestResends
    <2> DEFINE seg == Seg({"ACK"}, GuestSeq(g_una + 1), g_rcv, <<GuestByte(g_una + 1)>>)
    <2>1. GuestSends(seg) /\ g_una < s /\ g_sent' = s /\ ~g_ackDue' /\ g_state' = g_state /\ g_fin' = g_fin
      BY <1>8 DEF GuestResends
    <2>2. /\ seg \in AnySegment /\ seg.flags = {"ACK"} /\ seg.seq = GuestSeq(g_una + 1)
          /\ seg.ack = g_rcv
      <3>1. g_una + 1 \in 1 .. GuestBytes /\ g_una + 1 \in Nat /\ (g_una + 1) + 0 <= Half
        BY <1>1, <2>1
      <3> DEFINE d == <<GuestByte(g_una + 1)>>
                 q == GuestSeq(g_una + 1)
      <3>2. d \in Seq(Byte) /\ Len(d) = 1 /\ Len(d) < Half
        BY <1>1, <1>4, <1>5, <3>1
      <3>3. q \in SeqNo
        BY <1>1, <1>2, <3>1
      <3>4. {"ACK"} \in SUBSET Flag
        BY DEF Flag
      <3>5. seg.flags = {"ACK"} /\ seg.seq = q /\ seg.ack = g_rcv /\ seg.data = d
        BY DEF Seg
      <3>6. seg = Seg({"ACK"}, q, g_rcv, d)
        OBVIOUS
      <3> HIDE DEF d, q, seg
      <3>7. seg \in AnySegment
        BY <3>2, <3>3, <3>4, <3>6, GuestSegment
      <3> QED BY <3>2, <3>5, <3>7 DEF d, q
    <2> HIDE DEF seg
    <2>3. seg.seq # rcv_nxt
      <3> DEFINE j == (s + 1 + o) - (g_una + 1)
      <3>1. j \in Nat /\ j # 0 /\ g_una + 1 \in Nat /\ (g_una + 1) + j = s + 1 + o /\ (g_una + 1) + j <= Half
        BY <1>1, <2>1
      <3> HIDE DEF j
      <3>2. GuestSeq(g_una + 1) # GuestSeq((g_una + 1) + j)
        BY <1>2, <3>1
      <3> QED BY <1>1, <2>2, <3>1, <3>2
    <2>4. rcv_nxt' = rcv_nxt
      BY <1>6, <2>1, <2>2, <2>3, ReceivedNext DEF InOrder
    <2>5. (rcv_nxt = GuestSeq(g_sent + 1 + BoolNat(g_fin)))'
      BY <1>1, <1>3, <2>1, <2>4 DEF GuestSeq
    <2>6. /\ s \in s .. GuestBytes /\ s > 0
          /\ g_fin' \in BOOLEAN /\ g_ackDue' \in BOOLEAN
      <3>1. g_ackDue' = FALSE
        BY <1>8 DEF GuestResends
      <3>2. g_fin' \in BOOLEAN
        BY <1>1, <2>1
      <3>3. s \in s .. GuestBytes /\ s > 0
        BY <1>1, <2>1
      <3> QED BY <3>1, <3>2, <3>3
    <2>7. ForwardsOne(seg)
      BY <2>1, <2>2, <2>3, <2>5, <2>6 DEF ForwardsOne, InOrder
    <2> QED BY <2>2, <2>7
  <1>9. CASE GuestResendsFin \/ GuestFin
    <2> DEFINE seg == Seg({"ACK", "FIN"}, GuestSeq(s + 1), g_rcv, << >>)
    <2>1. GuestSends(seg) /\ g_sent' = s /\ ~g_ackDue' /\ g_state' = g_state /\ g_fin'
      BY <1>1, <1>9 DEF GuestResendsFin, GuestFin
    <2>2. /\ seg \in AnySegment /\ seg.flags = {"ACK", "FIN"} /\ seg.seq = GuestSeq(s + 1)
          /\ seg.ack = g_rcv /\ seg.data = << >> /\ Len(seg.data) = 0
      <3>1. s + 1 \in Nat /\ (s + 1) + 0 <= Half
        BY <1>1
      <3> DEFINE d == << >>
                 q == GuestSeq(s + 1)
      <3>2. d \in Seq(Byte) /\ Len(d) = 0 /\ Len(d) < Half
        BY <1>1, <1>4
      <3>3. q \in SeqNo
        BY <1>1, <1>2, <3>1
      <3>4. {"ACK", "FIN"} \in SUBSET Flag
        BY DEF Flag
      <3>5. seg.flags = {"ACK", "FIN"} /\ seg.seq = q /\ seg.ack = g_rcv /\ seg.data = d
        BY DEF Seg
      <3>6. seg = Seg({"ACK", "FIN"}, q, g_rcv, d)
        OBVIOUS
      <3> HIDE DEF d, q, seg
      <3>7. seg \in AnySegment
        BY <3>2, <3>3, <3>4, <3>6, GuestSegment
      <3> QED BY <3>2, <3>5, <3>7 DEF d, q
    <2> HIDE DEF seg
    <2>3. rcv_nxt' = SeqAdd(seg.seq, 1)
      BY <1>6, <2>1, <2>2, ReceivedNext
    <2>4. rcv_nxt' = GuestSeq(s + 2)
      BY <1>1, <1>2, <2>2, <2>3
    <2>5. (rcv_nxt = GuestSeq(g_sent + 1 + BoolNat(g_fin)))'
      BY <1>1, <1>3, <2>1, <2>4 DEF GuestSeq, BoolNat
    <2>6. g_fin' \in BOOLEAN
      BY <1>9, <1>1 DEF GuestResendsFin, GuestFin
    <2>7. ForwardsOne(seg)
      <3>1. s \in s .. GuestBytes /\ g_ackDue' = FALSE
        BY <1>1, <1>9 DEF GuestResendsFin, GuestFin
      <3> QED BY <2>1, <2>2, <2>5, <2>6, <3>1 DEF ForwardsOne, InOrder
    <2> QED BY <2>2, <2>7
  <1>10. CASE GuestAcks \/ GuestRst
    <2>1. \E fl \in {{"ACK"}, {"RST"}}, i \in 0 .. GuestBytes + 2 :
              GuestSends(Seg(fl, GuestSeq(i), g_rcv, << >>))
      <3>1. s + 1 \in 0 .. GuestBytes + 2 /\ s + 1 + o \in 0 .. GuestBytes + 2
        BY <1>1
      <3> QED BY <1>10, <3>1 DEF GuestAcks, GuestRst
    <2>2. PICK fl \in {{"ACK"}, {"RST"}}, i \in 0 .. GuestBytes + 2 :
              GuestSends(Seg(fl, GuestSeq(i), g_rcv, << >>))
      BY <2>1
    <2> DEFINE seg == Seg(fl, GuestSeq(i), g_rcv, << >>)
    <2>3. seg \in AnySegment /\ seg.flags = fl /\ seg.ack = g_rcv /\ seg.data = << >>
      <3>1. i \in Nat /\ i + 0 <= Half
        BY <1>1, <2>2
      <3> DEFINE d == << >>
                 q == GuestSeq(i)
      <3>2. d \in Seq(Byte) /\ Len(d) = 0 /\ Len(d) < Half
        BY <1>1, <1>4
      <3>3. q \in SeqNo
        BY <1>1, <1>2, <3>1
      <3>4. fl \in SUBSET Flag
        BY <2>2 DEF Flag
      <3>5. seg.flags = fl /\ seg.seq = q /\ seg.ack = g_rcv /\ seg.data = d
        BY DEF Seg
      <3>6. seg = Seg(fl, q, g_rcv, d)
        OBVIOUS
      <3> HIDE DEF d, q, seg
      <3>7. seg \in AnySegment
        BY <3>2, <3>3, <3>4, <3>6, GuestSegment
      <3> QED BY <3>2, <3>5, <3>7 DEF d, q
    <2>4. GuestSends(seg)
      BY <2>2
    <2> HIDE DEF seg
    <2>5. rcv_nxt' = rcv_nxt
      BY <1>6, <2>3, <2>4, ReceivedNext DEF InOrder
    <2>6. /\ g_sent' = s /\ g_fin' = g_fin /\ g_ackDue' \in BOOLEAN
          /\ g_state' = g_state \/ g_state' = "closed"
      BY <1>1, <1>10 DEF GuestAcks, GuestRst
    <2>7. (rcv_nxt = GuestSeq(g_sent + 1 + BoolNat(g_fin)))'
      BY <1>1, <1>3, <2>5, <2>6 DEF GuestSeq
    <2>8. g_sent' \in g_sent .. GuestBytes /\ g_fin' \in BOOLEAN
      BY <1>1, <2>6
    <2>9. ForwardsOne(seg)
      BY <2>3, <2>4, <2>6, <2>7, <2>8 DEF ForwardsOne, InOrder
    <2> QED BY <2>3, <2>9
  <1> QED BY <1>7, <1>8, <1>9, <1>10 DEF GuestForwards

\* The guest sends one of its segments, in order or repeated, and forward_tcp takes it.
LEMMA GuestStep ==
  ASSUME RInv, NEW seg \in AnySegment, ForwardsOne(seg)
  PROVE  RInv'
  <1>1. /\ g_state = "open"
        /\ ForwardSegment(seg) \/ ForwardRst(seg)
        /\ late' = late + (IF active THEN 0 ELSE Len(emitted'))
        /\ rx' = EnqueueAll(rx, emitted')
        /\ UNCHANGED <<g_isn, g_una, g_rcv, g_got, s_sent, dropped>>
    BY DEF ForwardsOne, GuestSends, SessionStep, Counted
  <1>2. AnyStep
    BY <1>1 DEF AnyStep
  <1>3. IInv' /\ FinLast'
    BY <1>1, <1>2, StepInvariant, FinLastStep DEF RInv, Counted
  <1>4. /\ RelayTypeOK /\ InStreams /\ IInv /\ s_sent \in 0 .. ServerBytes /\ g_sent \in Nat
        /\ Pos(g_rcv) \in Pos(snd_una) .. SentEnd
    BY <1>1, RelayAssumption DEF RInv, RelayTypeOK, Window, InStreams
  <1>5. /\ seg.ack = g_rcv /\ g_sent' \in g_sent .. GuestBytes
        /\ InOrder(seg) => g_sent' = g_sent + Len(seg.data)
        /\ seg.data # << >> => g_sent' > 0
    BY DEF ForwardsOne
  <1>6. g_sent' \in Nat /\ g_sent' >= g_sent
    BY <1>4, <1>5, RelayAssumption
  <1>7. /\ our_isn' = our_isn /\ fin_sent' = fin_sent
        /\ InStreams' /\ SentEnd' = SentEnd /\ Pos(g_rcv) >= Pos(snd_una)'
        /\ EmittedInWindow' /\ EmittedOfStream'
        /\ BufferOfStream /\ seg.data = << >> => BufferOfStream'
    BY <1>1, <1>3, <1>4, <1>5, <1>6, SegmentStep
  <1>8. ~fouled' => ~fouled /\ (BufferOfStream => BufferOfStream' /\ EmittedOfStream')
    <2>1. SUFFICES ASSUME ~fouled'
                   PROVE  ~fouled /\ seg.data = << >>
      BY <1>7
    <2>2. ~(g_sent' > 0) /\ ~dropped
      BY <1>1, <2>1 DEF fouled
    <2> QED BY <1>4, <1>5, <1>6, <2>2 DEF fouled
  <1>9. SentEnd' >= SentEnd
    <2>1. SentEnd \in Nat
      BY <1>4, WindowBounds
    <2> QED BY <1>7, <2>1
  <1>10. s_sent' \in s_sent .. ServerBytes /\ s_sent' = s_sent
    BY <1>1, <1>4, RelayAssumption
  <1>11. dropped' \in BOOLEAN
    BY <1>1 DEF RInv, RelayTypeOK
  <1>12. /\ g_fin' \in BOOLEAN /\ g_ackDue' \in BOOLEAN
         /\ g_state' = g_state \/ g_state' = "closed"
         /\ (rcv_nxt = GuestSeq(g_sent + 1 + BoolNat(g_fin)))'
    BY DEF ForwardsOne
  <1>13. g_state # "syn_sent"
    BY <1>1
  <1> QED BY <1>1, <1>3, <1>5, <1>7, <1>8, <1>9, <1>10, <1>11, <1>12, <1>13, AfterStep

-----------------------------------------------------------------------------
(* The receiver's steps, the clock, and forward_tcp's look-up. *)

\* What they leave alone.
LEMMA SessionAlone ==
  ASSUME RInv, Counted(AnyStep), rcv_nxt' = rcv_nxt, our_isn' = our_isn, snd_una' = snd_una,
         rx' = EnqueueAll(rx, emitted') \/ rx' = rx,
         UNCHANGED guestvars, s_sent' \in s_sent .. ServerBytes, dropped' \in BOOLEAN,
         fin_sent => fin_sent' /\ s_sent' = s_sent,
         InStreams', SentEnd' >= SentEnd, EmittedInWindow',
         ~fouled' => ~fouled /\ (BufferOfStream => BufferOfStream' /\ EmittedOfStream')
  PROVE  RInv'
  <1>1. IInv' /\ FinLast'
    BY StepInvariant, FinLastStep DEF RInv, Counted
  <1>2. UNCHANGED <<g_state, g_isn, g_sent, g_una, g_fin, g_rcv, g_got, g_ackDue>>
    BY DEF guestvars
  <1>3. /\ g_sent \in 0 .. GuestBytes /\ g_fin \in BOOLEAN /\ g_ackDue \in BOOLEAN
        /\ rcv_nxt = GuestSeq(g_sent + 1 + BoolNat(g_fin))
        /\ g_state = "open" => Pos(g_rcv) \in Pos(snd_una) .. SentEnd
    BY DEF RInv, RelayTypeOK, Window
  <1>4. g_sent' \in g_sent .. GuestBytes /\ g_fin' \in BOOLEAN /\ g_ackDue' \in BOOLEAN
    BY <1>2, <1>3, RelayAssumption
  <1>5. (rcv_nxt = GuestSeq(g_sent + 1 + BoolNat(g_fin)))'
    BY <1>2, <1>3 DEF GuestSeq
  <1>6. Pos(snd_una)' = Pos(snd_una)
    BY DEF Pos
  <1>7. g_state = "open" => Pos(g_rcv) >= Pos(snd_una)'
    BY <1>3, <1>6
  <1> QED BY <1>1, <1>2, <1>4, <1>5, <1>6, <1>7, AfterStep

\* A quiet step, and a step that pumps.
LEMMA QuietRelayStep ==
  ASSUME RInv, QuietStep, Counted(AnyStep),
         rx' = EnqueueAll(rx, emitted') \/ rx' = rx,
         UNCHANGED <<guestvars, s_sent, dropped>>
  PROVE  RInv'
  <1>1. UNCHANGED <<sbuf, nxt, snd_una, rcv_nxt, our_isn, fin_sent>>
    BY QuietFacts DEF RInv, IInv
  <1>2. /\ s_sent \in 0 .. ServerBytes /\ dropped \in BOOLEAN /\ InStreams /\ UNCHANGED g_sent
        /\ SentEnd \in Nat
    BY WindowBounds DEF RInv, RelayTypeOK, Window, InStreams, guestvars
  <1>3. EmittedInWindow' /\ EmittedOfStream'
    BY QuietFrames, FramelessStep DEF RInv
  <1>4. SentEnd' = SentEnd /\ Pos(snd_una)' = Pos(snd_una) /\ InStreams'
    BY <1>1, <1>2 DEF SentEnd, Pos, InStreams
  <1>5. s_sent' \in s_sent .. ServerBytes /\ s_sent' = s_sent /\ dropped' \in BOOLEAN /\ SentEnd' >= SentEnd
    BY <1>2, <1>4, RelayAssumption
  <1>6. ~fouled' => ~fouled /\ (BufferOfStream => BufferOfStream' /\ EmittedOfStream')
    BY <1>1, <1>2, <1>3, <1>4, <1>5 DEF fouled, BufferOfStream
  <1>7. UNCHANGED guestvars
    OBVIOUS
  <1> QED BY <1>1, <1>3, <1>4, <1>5, <1>6, <1>7, SessionAlone

\* A step that pumps: the segment it sends fits the stream the guest has.
LEMMA PumpRelayStep ==
  ASSUME RInv, PumpStep, Counted(AnyStep),
         rx' = EnqueueAll(rx, emitted'), UNCHANGED <<guestvars, s_sent, dropped>>
  PROVE  RInv'
  <1>1. /\ UNCHANGED <<sbuf, snd_una, rcv_nxt, our_isn>>
        /\ Pump(fin_pending) \/ Pump(TRUE)
    BY DEF PumpStep, LoopClose, LoopDrain, LoopRecv, RecvEof
  <1>2. IInv'
    BY StepInvariant DEF RInv
  <1>3. /\ IInv /\ RelayTypeOK /\ InStreams /\ UNCHANGED g_sent /\ fin_pending \in BOOLEAN
        /\ s_sent \in 0 .. ServerBytes /\ dropped \in BOOLEAN /\ SentEnd \in Nat
    BY WindowBounds DEF RInv, IInv, TypeOK, RelayTypeOK, Window, InStreams, guestvars
  <1>4. fin_sent => fin_sent'
    BY <1>1, <1>3 DEF Pump, PumpNew, PumpRetransmit, PumpFin, PumpIdle
  <1>5. InStreams'
    BY <1>1, <1>3 DEF InStreams, Pos
  <1>6. /\ SentEnd' >= SentEnd /\ EmittedInWindow'
        /\ BufferOfStream => BufferOfStream' /\ EmittedOfStream'
    <2>1. UNCHANGED <<sbuf, snd_una, our_isn, s_sent>>
      BY <1>1
    <2>2. CASE Pump(fin_pending)
      BY <1>2, <1>3, <1>5, <2>1, <2>2, PumpFrames
    <2>3. CASE Pump(TRUE)
      BY <1>2, <1>3, <1>5, <2>1, <2>3, PumpFrames
    <2> QED BY <1>1, <2>2, <2>3
  <1>7. s_sent' \in s_sent .. ServerBytes /\ s_sent' = s_sent /\ dropped' \in BOOLEAN
    BY <1>3, RelayAssumption
  <1>8. ~fouled' => ~fouled /\ (BufferOfStream => BufferOfStream' /\ EmittedOfStream')
    BY <1>3, <1>6 DEF fouled
  <1>9. UNCHANGED guestvars
    OBVIOUS
  <1> QED BY <1>1, <1>4, <1>5, <1>6, <1>7, <1>8, <1>9, SessionAlone

\* recv() returned the server's next bytes.
LEMMA ServerStep ==
  ASSUME RInv, ServerSends
  PROVE  RInv'
  <1>1. PICK n \in 1 .. Least(ChunkMax, ServerBytes - s_sent) :
            /\ SessionStep(RecvData([i \in 1 .. n |-> ServerByte(s_sent + i)]))
            /\ rx' = EnqueueAll(rx, emitted')
            /\ s_sent' = s_sent + n
            /\ dropped' = (dropped \/ Len(sbuf') = Len(sbuf))
            /\ UNCHANGED <<guestvars, budgets>>
    BY DEF ServerSends
  <1> DEFINE chunk == [i \in 1 .. n |-> ServerByte(s_sent + i)]
  <1>2. RelayTypeOK /\ IInv /\ FinLast /\ InStreams /\ g_sent' = g_sent
    BY <1>1 DEF RInv, Window, InStreams, guestvars
  <1>3. n \in Nat /\ s_sent + n \in 0 .. ServerBytes /\ chunk \in AnyChunk
    BY <1>1, <1>2, ChunkType
  <1> HIDE DEF chunk
  <1>4. Counted(RecvData(chunk))
    BY <1>1 DEF SessionStep, chunk
  <1>5. Counted(AnyStep) /\ RecvData(chunk)
    BY <1>3, <1>4 DEF Counted, AnyStep
  <1>6. IInv'
    BY <1>2, <1>5, StepInvariant
  <1>7. /\ our_isn' = our_isn /\ ~fin_sent /\ ~fin_sent'
        /\ InStreams' /\ SentEnd' = SentEnd /\ Pos(snd_una)' = Pos(snd_una)
        /\ EmittedInWindow' /\ EmittedOfStream'
        /\ BufferOfStream /\ Len(sbuf') # Len(sbuf) => BufferOfStream'
    BY <1>1, <1>2, <1>5, <1>6, ChunkStep DEF chunk
  <1>8. rcv_nxt' = rcv_nxt /\ snd_una' = snd_una
    BY <1>5 DEF RecvData
  <1>9. s_sent' \in s_sent .. ServerBytes /\ SentEnd' >= SentEnd
    <2>1. s_sent \in Nat
      BY <1>2, RelayAssumption DEF RelayTypeOK
    <2>2. SentEnd \in Nat
      BY <1>2, WindowBounds
    <2> QED BY <1>1, <1>3, <1>7, <2>1, <2>2, RelayAssumption
  <1>10. dropped' \in BOOLEAN
    BY <1>1
  <1>11. ~fouled' => ~fouled /\ (BufferOfStream => BufferOfStream' /\ EmittedOfStream')
    BY <1>1, <1>2, <1>7 DEF fouled
  <1>12. UNCHANGED guestvars /\ rx' = EnqueueAll(rx, emitted')
    BY <1>1
  <1> QED BY <1>5, <1>7, <1>8, <1>9, <1>10, <1>11, <1>12, SessionAlone


-----------------------------------------------------------------------------
(* What the guest takes off the queue, and the steps beside it. *)

\* The bytes of a segment that the guest has not seen, by the places of both.
LEMMA FreshFacts ==
  ASSUME RelayTypeOK, SeqAdd(our_isn, 1) \in SeqNo, NEW seg \in Segment,
         Pos(g_rcv) \in Nat, Pos(seg.seq) \in Nat
  PROVE  LET skip == Pos(g_rcv) - Pos(seg.seq)
         IN  /\ Fresh(seg) \in Seq(Byte)
             /\ skip \in 0 .. Len(seg.data) - 1 =>
                   /\ Len(Fresh(seg)) = Len(seg.data) - skip
                   /\ \A i \in 1 .. Len(seg.data) - skip : Fresh(seg)[i] = seg.data[i + skip]
             /\ skip \notin 0 .. Len(seg.data) - 1 => Fresh(seg) = << >>
  <1> DEFINE skip == Pos(g_rcv) - Pos(seg.seq)
             d == seg.data
  <1>1. seg.seq \in SeqNo /\ d \in Seq(Byte) /\ g_rcv \in SeqNo
    BY DEF Segment, RelayTypeOK
  <1>2. SeqDiff(g_rcv, seg.seq) = skip /\ skip \in Int /\ Len(d) \in Nat
    BY <1>1, DiffOfPlaces, LenProperties DEF Pos
  <1>3. Fresh(seg) = IF skip >= 0 /\ skip < Len(d) THEN Drop(d, skip) ELSE << >>
    BY <1>2 DEF Fresh
  <1> HIDE DEF skip, d
  <1>4. CASE skip >= 0 /\ skip < Len(d)
    <2>1. skip \in 0 .. Len(d) /\ skip \in 0 .. Len(d) - 1
      BY <1>2, <1>4
    <2>2. /\ Drop(d, skip) \in Seq(Byte) /\ Len(Drop(d, skip)) = Len(d) - skip
          /\ \A i \in 1 .. Len(d) - skip : Drop(d, skip)[i] = d[i + skip]
      BY <1>1, <2>1, DropFacts
    <2> QED BY <1>3, <1>4, <2>1, <2>2 DEF skip, d
  <1>5. CASE ~(skip >= 0 /\ skip < Len(d))
    <2>1. skip \notin 0 .. Len(d) - 1 /\ Fresh(seg) = << >>
      BY <1>2, <1>3, <1>5
    <2> QED BY <2>1, EmptySeq DEF skip, d
  <1> QED BY <1>4, <1>5

\* An open guest takes a frame that carries data or a FIN: it stays inside the window, and what
\* it holds remains the beginning of the server's stream.
LEMMA GuestTakes ==
  ASSUME RInv, g_state = "open", NEW seg \in Segment, Carries(seg), FrameInWindow(seg),
         g_got' = g_got \o Fresh(seg), our_isn' = our_isn,
         g_rcv' = SeqAdd(g_rcv, Len(Fresh(seg)) + BoolNat("FIN" \in seg.flags /\ seg.seq = g_rcv))
  PROVE  /\ g_got' \in Seq(Byte) /\ g_rcv' \in SeqNo
         /\ Pos(g_rcv)' \in Pos(g_rcv) .. SentEnd
         /\ GuestOfStream /\ FrameOfStream(seg) =>
               /\ Len(g_got') <= s_sent /\ g_got' = ServerStream(Len(g_got'))
               /\ \/ Pos(g_rcv)' = Len(g_got')
                  \/ fin_sent /\ Len(g_got') = s_sent /\ Pos(g_rcv)' = s_sent + 1
  <1> DEFINE p == Pos(g_rcv)
             q == Pos(seg.seq)
             n == Len(seg.data)
             fin == "FIN" \in seg.flags
             end == BoolNat(fin /\ seg.seq = g_rcv)
             f == Fresh(seg)
             m == Len(f)
             b == SeqAdd(our_isn, 1)
             g == Len(g_got)
  <1>1. /\ RelayTypeOK /\ IInv /\ InStreams /\ b \in SeqNo /\ SentEnd \in Nat /\ SentEnd < Half
        /\ p \in Pos(snd_una) .. SentEnd /\ Pos(snd_una) \in Nat
    BY WindowBounds DEF RInv, Window, InStreams
  <1>2. g_rcv \in SeqNo /\ g_got \in Seq(Byte) /\ seg.seq \in SeqNo /\ seg.data \in Seq(Byte)
    BY <1>1 DEF RelayTypeOK, Segment
  <1>3. g \in Nat /\ n \in Nat /\ g_got \in Seq(Byte)
    BY <1>2, LenProperties
  <1>4. p \in Nat /\ p <= SentEnd /\ q \in Nat /\ q + n + BoolNat(fin) <= SentEnd
    <2>1. q \in Nat /\ q + n + BoolNat(fin) <= SentEnd
      BY DEF FrameInWindow
    <2> QED BY <1>1, <2>1
  <1>5. end \in {0, 1} /\ (end = 1 => fin /\ p = q) /\ (end = 0 => ~fin \/ p # q)
    <2>1. seg.seq = g_rcv => p = q
      OBVIOUS
    <2>2. p = q => seg.seq = g_rcv
      <3>1. SeqDiff(g_rcv, seg.seq) = SeqDiff(g_rcv, b) - SeqDiff(seg.seq, b)
        BY <1>1, <1>2, <1>4, DiffOfPlaces DEF Pos
      <3>2. p = q => SeqDiff(g_rcv, seg.seq) = 0
        BY <1>4, <3>1 DEF Pos
      <3>3. SeqDiff(g_rcv, seg.seq) = 0 => g_rcv = seg.seq
        BY <1>2, SizesAssumption DEF SeqDiff, SeqNo, Modulus
      <3> QED BY <3>2, <3>3
    <2> QED BY <2>1, <2>2 DEF BoolNat
  <1>6. /\ f \in Seq(Byte) /\ m \in Nat
        /\ p - q \in 0 .. n - 1 => m = n - (p - q)
        /\ p - q \in 0 .. n - 1 => \A i \in 1 .. n - (p - q) : f[i] = seg.data[i + (p - q)]
        /\ p - q \notin 0 .. n - 1 => f = << >> /\ m = 0
    <2>1. /\ f \in Seq(Byte)
          /\ p - q \in 0 .. n - 1 =>
               m = n - (p - q) /\ \A i \in 1 .. n - (p - q) : f[i] = seg.data[i + (p - q)]
          /\ p - q \notin 0 .. n - 1 => f = << >>
      BY <1>1, <1>4, FreshFacts
    <2>2. f = << >> => m = 0
      OBVIOUS
    <2>3. m \in Nat
      BY <2>1, LenProperties
    <2> QED BY <2>1, <2>2, <2>3
  <1>7. SeqDiff(g_rcv, b) = p /\ SeqDiff(SeqAdd(g_rcv, m + end), b) = Pos(g_rcv)'
    BY DEF Pos
  <1>8. g_got' \in Seq(Byte) /\ g_got' = g_got \o f
    BY <1>2, <1>6, ConcatProperties
  <1>9. fin \in BOOLEAN /\ BoolNat(fin) \in {0, 1} /\ (fin => BoolNat(fin) = 1)
    BY DEF BoolNat
  <1>10. g_rcv' = SeqAdd(g_rcv, m + end)
    OBVIOUS
  <1> HIDE DEF p, q, n, fin, end, f, m, b, g
  <1>11. m + end \in Nat /\ p + (m + end) <= SentEnd
    <2>1. CASE p - q \in 0 .. n - 1
      <3> DEFINE c == BoolNat(fin)
      <3>1. p + m = q + n /\ end <= c /\ c \in Nat /\ end \in Nat /\ q + n + c <= SentEnd
        BY <1>3, <1>4, <1>5, <1>6, <1>9, <2>1
      <3> HIDE DEF c
      <3> QED BY <1>1, <1>3, <1>4, <1>6, <3>1
    <2>2. CASE p - q \notin 0 .. n - 1
      BY <1>1, <1>3, <1>4, <1>5, <1>6, <1>9, <2>2
    <2> QED BY <2>1, <2>2
  <1>12. Pos(g_rcv)' = p + (m + end)
    <2>1. SeqDiff(SeqAdd(g_rcv, m + end), b) = SeqDiff(g_rcv, b) + (m + end)
      <3> DEFINE k == m + end
      <3>1. k \in Nat /\ SeqDiff(g_rcv, b) \in Nat /\ SeqDiff(g_rcv, b) + k < Half
        BY <1>1, <1>4, <1>7, <1>11, SizesAssumption
      <3> HIDE DEF k
      <3>2. SeqDiff(SeqAdd(g_rcv, k), b) = SeqDiff(g_rcv, b) + k
        BY <1>1, <1>2, <3>1, DiffAfterAdd
      <3> QED BY <3>2 DEF k
    <2> QED BY <1>7, <2>1
  <1>13. g_rcv' \in SeqNo
    <2>1. m + end <= Half
      BY <1>1, <1>4, <1>11, SizesAssumption
    <2> QED BY <1>2, <1>10, <1>11, <2>1, SeqAddType
  <1>14. Pos(g_rcv)' \in p .. SentEnd
    BY <1>1, <1>4, <1>11, <1>12
  <1>15. ASSUME GuestOfStream, FrameOfStream(seg)
         PROVE  /\ Len(g_got') <= s_sent /\ g_got' = ServerStream(Len(g_got'))
                /\ \/ Pos(g_rcv)' = Len(g_got')
                   \/ fin_sent /\ Len(g_got') = s_sent /\ Pos(g_rcv)' = s_sent + 1
    <2>1. /\ g <= s_sent /\ g_got = ServerStream(g) /\ s_sent \in Nat
          /\ p = g \/ (fin_sent /\ g = s_sent /\ p = s_sent + 1)
      BY <1>1, <1>15, RelayAssumption DEF GuestOfStream, RelayTypeOK, g, p
    <2>2. /\ \A i \in 1 .. n : seg.data[i] = ServerByte(q + i) /\ q + i <= s_sent
          /\ fin => fin_sent /\ n = 0 /\ q = s_sent
      <3>1. DOMAIN seg.data = 1 .. n
        BY <1>2, LenProperties DEF n
      <3>2. seg.data = << >> => n = 0
        BY DEF n
      <3> QED BY <1>15, <3>1, <3>2 DEF FrameOfStream, q, fin
    <2>3. n > 0 => q + n <= s_sent
      BY <1>3, <2>2
    <2>4. CASE m = 0
      <3>1. f = << >>
        BY <1>6, <2>4, EmptySeq DEF m
      <3>2. g_got' = g_got
        BY <1>2, <1>8, <3>1
      <3>3. end = 1 => fin_sent /\ p = s_sent
        BY <1>5, <2>2
      <3>4. Pos(g_rcv)' = p + end
        BY <1>4, <1>5, <1>12, <2>4
      <3>5. \/ Pos(g_rcv)' = g
            \/ fin_sent /\ g = s_sent /\ Pos(g_rcv)' = s_sent + 1
        BY <1>3, <1>4, <1>5, <2>1, <3>3, <3>4
      <3> QED BY <2>1, <3>2, <3>5 DEF g
    <2>5. CASE m # 0
      <3>1. p - q \in 0 .. n - 1 /\ m = n - (p - q) /\ n > 0
        BY <1>3, <1>4, <1>6, <2>5
      <3>2. p + m <= s_sent /\ p = g /\ end = 0
        <4>1. p + m = q + n
          BY <1>3, <1>4, <3>1
        <4>2. end = 0
          BY <1>5, <2>2, <3>1
        <4> QED BY <1>3, <1>4, <1>6, <2>1, <2>3, <2>5, <3>1, <4>1, <4>2
      <3>3. Len(g_got') = g + m
        BY <1>2, <1>6, <1>8, ConcatProperties DEF g, m
      <3>4. ASSUME NEW i \in 1 .. g + m
            PROVE  g_got'[i] = ServerByte(i)
        <4>1. CASE i <= g
          <5>1. i \in 1 .. g
            BY <1>3, <3>4, <4>1
          <5>2. g_got'[i] = g_got[i]
            BY <1>2, <1>6, <1>8, <5>1, ConcatProperties DEF g
          <5>3. ServerStream(g)[i] = ServerByte(i)
            BY <5>1 DEF ServerStream
          <5> QED BY <2>1, <5>2, <5>3
        <4>2. CASE i > g
          <5> DEFINE j == i - g
          <5>1. j \in 1 .. m /\ g + j = i /\ j \in 1 .. n - (p - q) /\ j + (p - q) \in 1 .. n
                /\ q + (j + (p - q)) = i
            BY <1>3, <1>4, <1>6, <3>1, <3>2, <4>2
          <5> HIDE DEF j
          <5>2. g_got'[i] = f[j]
            <6>1. (g_got \o f)[g + j] = f[j]
              BY <1>2, <1>6, <5>1, ConcatProperties DEF g, m
            <6> QED BY <1>8, <5>1, <6>1
          <5> DEFINE x == j + (p - q)
          <5>3. f[j] = seg.data[x] /\ x \in 1 .. n /\ q + x = i
            BY <1>6, <3>1, <5>1
          <5> HIDE DEF x
          <5> DEFINE y == q + x
          <5>4. seg.data[x] = ServerByte(y) /\ y = i
            BY <2>2, <5>3
          <5> HIDE DEF y
          <5>5. g_got'[i] = ServerByte(y)
            BY <5>2, <5>3, <5>4
          <5> QED BY <5>4, <5>5
        <4>3. i <= g \/ i > g
          <5>1. i \in 1 .. g + m /\ g + m \in Nat /\ g \in Nat
            BY <1>3, <1>6, <3>4
          <5> QED BY <5>1
        <4> QED BY <4>1, <4>2, <4>3
      <3>5. g_got' = ServerStream(g + m)
        <4> DEFINE k == g + m
        <4>1. g_got' \in [1 .. k -> Byte]
          BY <1>8, <3>3, LenProperties
        <4>2. \A i \in 1 .. k : g_got'[i] = ServerByte(i)
          BY <3>4
        <4> HIDE DEF k
        <4>3. g_got' = [i \in 1 .. k |-> ServerByte(i)]
          BY <4>1, <4>2
        <4> QED BY <4>3 DEF ServerStream, k
      <3>6. Pos(g_rcv)' = g + m /\ g + m <= s_sent
        BY <1>3, <1>6, <1>12, <3>2
      <3> QED BY <3>3, <3>5, <3>6
    <2> QED BY <2>4, <2>5
  <1> QED BY <1>8, <1>13, <1>14, <1>15 DEF p

\* The rest of a queue was in the queue.
LEMMA TailOld ==
  ASSUME NEW S, NEW q \in Seq(S), q # << >>
  PROVE  /\ Tail(q) \in Seq(S)
         /\ \A i \in DOMAIN Tail(q) : \E j \in DOMAIN q : Tail(q)[i] = q[j]
         /\ 1 \in DOMAIN q /\ Head(q) = q[1]
  <1>1. /\ Tail(q) \in Seq(S) /\ Len(Tail(q)) = Len(q) - 1 /\ Len(q) \in Nat /\ Len(q) >= 1
        /\ \A i \in 1 .. Len(Tail(q)) : Tail(q)[i] = q[i + 1]
    BY HeadTailProperties, LenProperties, EmptySeq
  <1>2. DOMAIN Tail(q) = 1 .. Len(q) - 1 /\ DOMAIN q = 1 .. Len(q)
    BY <1>1, LenProperties
  <1>3. ASSUME NEW i \in DOMAIN Tail(q)
        PROVE  \E j \in DOMAIN q : Tail(q)[i] = q[j]
    <2>1. i + 1 \in DOMAIN q /\ Tail(q)[i] = q[i + 1]
      BY <1>1, <1>2
    <2> QED BY <2>1
  <1> QED BY <1>1, <1>2, <1>3

\* A step beside the session: no frame is new but those of other traffic.
LEMMA Beside ==
  ASSUME RInv, UNCHANGED <<vars, s_sent, dropped, g_isn, g_sent, g_fin>>,
         rx' \in Seq(Segment \cup {Other}),
         \A i \in DOMAIN rx' : rx'[i] = Other \/ \E j \in DOMAIN rx : rx'[i] = rx[j],
         g_una' \in 0 .. g_sent, g_ackDue' \in BOOLEAN, g_got' \in Seq(Byte), g_rcv' \in SeqNo,
         g_state' \in {"syn_sent", "open", "closed"},
         g_state' = "syn_sent" => g_state = "syn_sent",
         g_state' = "open" => Pos(g_rcv)' \in Pos(snd_una) .. SentEnd,
         ~fouled => GuestOfStream'
  PROVE  RInv'
  <1>1. IInv'
    BY NextInvariant DEF RInv
  <1>2. /\ UNCHANGED <<sbuf, nxt, snd_una, rcv_nxt, our_isn, fin_sent, fin_pending, close_requested,
                       pc, remote_eof>>
        /\ UNCHANGED <<s_sent, dropped, g_isn, g_sent, g_fin>>
    BY DEF vars, bufvars, flowvars, recvvars
  <1>3. Pos(snd_una)' = Pos(snd_una) /\ SentEnd' = SentEnd
    BY <1>2 DEF Pos, SentEnd
  <1>4. RelayTypeOK'
    BY <1>2 DEF RInv, RelayTypeOK
  <1>5. Window'
    BY <1>2, <1>3 DEF RInv, Window, GuestSeq
  <1>6. FinLast'
    BY <1>2 DEF RInv, FinLast
  <1>7. QueueInWindow'
    <2>1. \A j \in DOMAIN rx : rx[j] = Other \/ PlacedIn(rx[j], our_isn, SentEnd)
      BY DEF RInv, QueueInWindow, FrameInWindow, PlacedIn, Pos
    <2>2. \A i \in DOMAIN rx' : rx'[i] = Other \/ PlacedIn(rx'[i], our_isn', SentEnd')
      BY <1>2, <1>3, <2>1
    <2> QED BY <2>2 DEF QueueInWindow, FrameInWindow, PlacedIn, Pos
  <1>8. PiecesOfStream'
    <2>1. SUFFICES ASSUME ~fouled
                   PROVE  (/\ BufferOfStream /\ GuestOfStream
                           /\ \A i \in DOMAIN rx : rx[i] = Other \/ FrameOfStream(rx[i]))'
      BY <1>2 DEF PiecesOfStream, fouled
    <2>2. /\ BufferOfStream
          /\ \A j \in DOMAIN rx : rx[j] = Other \/ PieceOf(rx[j], our_isn, s_sent, fin_sent)
      BY <2>1 DEF RInv, PiecesOfStream, FrameOfStream, PieceOf, Pos
    <2>3. BufferOfStream'
      BY <1>2, <1>3, <2>2 DEF BufferOfStream
    <2>4. \A i \in DOMAIN rx' : rx'[i] = Other \/ PieceOf(rx'[i], our_isn', s_sent', fin_sent')
      BY <1>2, <2>2
    <2>5. (\A i \in DOMAIN rx : rx[i] = Other \/ FrameOfStream(rx[i]))'
      BY <2>4 DEF FrameOfStream, PieceOf, Pos
    <2> QED BY <2>1, <2>3, <2>5
  <1> QED BY <1>1, <1>4, <1>5, <1>6, <1>7, <1>8 DEF RInv

\* What the guest's own state says when it does not change.
LEMMA GuestAsBefore ==
  ASSUME RInv, UNCHANGED <<our_isn, s_sent, fin_sent, g_state, g_got, g_rcv>>
  PROVE  /\ g_got \in Seq(Byte) /\ g_rcv \in SeqNo /\ g_state \in {"syn_sent", "open", "closed"}
         /\ g_una \in 0 .. g_sent /\ g_ackDue \in BOOLEAN
         /\ g_state = "open" => Pos(g_rcv)' \in Pos(snd_una) .. SentEnd
         /\ ~fouled => GuestOfStream'
  <1>1. Pos(g_rcv)' = Pos(g_rcv)
    BY DEF Pos
  <1>2. GuestOfStream => GuestOfStream'
    BY <1>1 DEF GuestOfStream
  <1> QED BY <1>1, <1>2 DEF RInv, RelayTypeOK, Window, PiecesOfStream

\* Frames of other traffic, a lost frame, and a guest talking to nobody.
LEMMA OtherStep ==
  ASSUME RInv, FrameLost \/ OtherTraffic \/ GuestTalksToNobody \/ UNCHANGED relayvars
  PROVE  RInv'
  <1>1. /\ UNCHANGED <<vars, s_sent, dropped, g_isn, g_sent, g_fin, g_state, g_una, g_rcv, g_got>>
        /\ UNCHANGED g_ackDue \/ g_ackDue' = FALSE
    BY DEF FrameLost, OtherTraffic, GuestTalksToNobody, relayvars, guestvars, servervars
  <1>2. UNCHANGED <<our_isn, fin_sent>>
    BY <1>1 DEF vars, flowvars
  <1>3. rx \in Seq(Segment \cup {Other})
    BY DEF RInv, RelayTypeOK
  <1>4. /\ rx' \in Seq(Segment \cup {Other})
        /\ \A i \in DOMAIN rx' : rx'[i] = Other \/ \E j \in DOMAIN rx : rx'[i] = rx[j]
    <2>1. CASE FrameLost
      <3>1. rx # << >> /\ rx' = Tail(rx)
        BY <2>1 DEF FrameLost
      <3> QED BY <1>3, <3>1, TailOld
    <2>2. CASE OtherTraffic
      <3>1. rx' = EnqueueAll(rx, <<Other>>)
        BY <2>2 DEF OtherTraffic, Enqueue
      <3> DEFINE one == <<Other>>
      <3>2. one \in Seq(Segment \cup {Other}) /\ \A j \in DOMAIN one : one[j] = Other
        OBVIOUS
      <3> HIDE DEF one
      <3>3. /\ EnqueueAll(rx, one) \in Seq(Segment \cup {Other})
            /\ \A i \in DOMAIN EnqueueAll(rx, one) :
                  \/ \E j \in DOMAIN rx : EnqueueAll(rx, one)[i] = rx[j]
                  \/ \E j \in DOMAIN one : EnqueueAll(rx, one)[i] = one[j]
        BY <1>3, <3>2, QueueFacts
      <3>4. rx' = EnqueueAll(rx, one)
        BY <3>1 DEF one
      <3> QED BY <3>2, <3>3, <3>4
    <2>3. CASE GuestTalksToNobody \/ UNCHANGED relayvars
      BY <1>3, <2>3 DEF GuestTalksToNobody, relayvars
    <2> QED BY <2>1, <2>2, <2>3
  <1>5. g_ackDue' \in BOOLEAN
    BY <1>1 DEF RInv, RelayTypeOK
  <1>6. /\ g_got \in Seq(Byte) /\ g_rcv \in SeqNo /\ g_state \in {"syn_sent", "open", "closed"}
        /\ g_una \in 0 .. g_sent
        /\ g_state = "open" => Pos(g_rcv)' \in Pos(snd_una) .. SentEnd
        /\ ~fouled => GuestOfStream'
    BY <1>1, <1>2, GuestAsBefore
  <1> QED BY <1>1, <1>4, <1>5, <1>6, Beside

\* The VBL tick hands the guest the frame at the head of the queue.
LEMMA InterruptStep ==
  ASSUME RInv, EtherInterrupt
  PROVE  RInv'
  <1>1. /\ rx # << >> /\ rx' = Tail(rx)
        /\ UNCHANGED <<vars, s_sent, dropped>>
        /\ IF Head(rx) = Other THEN UNCHANGED guestvars
           ELSE GuestHandles(Head(rx)) /\ UNCHANGED <<g_isn, g_sent, g_fin>>
    BY DEF EtherInterrupt, servervars
  <1>2. UNCHANGED <<our_isn, fin_sent>>
    BY <1>1 DEF vars, flowvars
  <1>3. rx \in Seq(Segment \cup {Other})
    BY DEF RInv, RelayTypeOK
  <1>4. /\ rx' \in Seq(Segment \cup {Other})
        /\ \A i \in DOMAIN rx' : rx'[i] = Other \/ \E j \in DOMAIN rx : rx'[i] = rx[j]
        /\ 1 \in DOMAIN rx /\ Head(rx) = rx[1]
    BY <1>1, <1>3, TailOld
  <1>5. CASE Head(rx) = Other
    <2>1. UNCHANGED <<g_state, g_isn, g_sent, g_una, g_fin, g_rcv, g_got, g_ackDue>>
      BY <1>1, <1>5 DEF guestvars
    <2>2. /\ g_got \in Seq(Byte) /\ g_rcv \in SeqNo /\ g_state \in {"syn_sent", "open", "closed"}
          /\ g_una \in 0 .. g_sent /\ g_ackDue \in BOOLEAN
          /\ g_state = "open" => Pos(g_rcv)' \in Pos(snd_una) .. SentEnd
          /\ ~fouled => GuestOfStream'
      BY <1>1, <1>2, <2>1, GuestAsBefore
    <2> QED BY <1>1, <1>4, <2>1, <2>2, Beside
  <1>6. CASE Head(rx) # Other
    <2> DEFINE seg == Head(rx)
    <2>1. /\ seg \in Segment /\ FrameInWindow(seg) /\ GuestHandles(seg)
          /\ ~fouled => FrameOfStream(seg) /\ GuestOfStream
          /\ UNCHANGED <<g_isn, g_sent, g_fin>>
      BY <1>1, <1>3, <1>4, <1>6 DEF RInv, QueueInWindow, PiecesOfStream
    <2>2. seg.seq \in SeqNo /\ seg.ack \in SeqNo
      BY <2>1 DEF Segment
    <2> HIDE DEF seg
    <2>3. /\ RelayTypeOK /\ IInv /\ InStreams /\ SeqAdd(our_isn, 1) \in SeqNo
          /\ SentEnd \in Nat /\ SentEnd >= Pos(snd_una) /\ Pos(snd_una) \in Nat
      BY WindowBounds DEF RInv, Window, InStreams
    <2>4. /\ g_got \in Seq(Byte) /\ g_rcv \in SeqNo /\ g_una \in 0 .. g_sent /\ g_sent \in Nat
          /\ g_state \in {"syn_sent", "open", "closed"} /\ g_ackDue \in BOOLEAN /\ s_sent \in Nat
      BY <2>3, RelayAssumption DEF RelayTypeOK
    <2>5. CASE g_state = "syn_sent" /\ g_state' = "open"
      <3>1. /\ "SYN" \in seg.flags /\ g_rcv' = SeqAdd(seg.seq, 1) /\ g_ackDue' = TRUE
            /\ UNCHANGED <<g_got, g_una>>
        BY <2>1, <2>5 DEF GuestHandles
      <3>2. g_rcv' = SeqAdd(our_isn, 1) /\ Pos(snd_una) = 0
        BY <2>1, <2>5, <3>1 DEF FrameInWindow, RInv, Window
      <3>3. Pos(g_rcv)' = 0
        <4>1. SeqDiff(SeqAdd(our_isn, 1), SeqAdd(our_isn, 1)) = 0
          BY <2>3, SizesAssumption DEF SeqDiff, SeqNo, Modulus
        <4> QED BY <1>2, <3>2, <4>1 DEF Pos
      <3>4. Pos(g_rcv)' \in Pos(snd_una) .. SentEnd
        BY <2>3, <3>2, <3>3
      <3>5. ~fouled => GuestOfStream'
        <4>1. ASSUME ~fouled
              PROVE  GuestOfStream'
          <5>1. GuestOfStream /\ g_got = << >>
            BY <2>1, <2>5, <4>1 DEF GuestOfStream
          <5>2. Len(g_got') = 0 /\ g_got' = g_got
            BY <3>1, <5>1
          <5> QED BY <1>1, <2>5, <3>3, <5>1, <5>2 DEF GuestOfStream
        <4> QED BY <4>1
      <3> QED BY <1>1, <1>4, <2>1, <2>3, <2>4, <2>5, <3>1, <3>2, <3>4, <3>5, Beside
    <2>6. CASE g_state' = "closed"
      <3>1. UNCHANGED <<g_got, g_rcv, g_una, g_ackDue>>
        BY <2>1, <2>6 DEF GuestHandles
      <3>2. ~fouled => GuestOfStream'
        BY <1>1, <2>1, <2>6, <3>1 DEF GuestOfStream
      <3> QED BY <1>1, <1>4, <2>1, <2>4, <2>6, <3>1, <3>2, Beside
    <2>7. CASE g_state = "open" /\ "RST" \notin seg.flags /\ "SYN" \notin seg.flags
      <3>1. /\ g_got' = g_got \o Fresh(seg)
            /\ g_rcv' = SeqAdd(g_rcv, Len(Fresh(seg))
                                      + BoolNat("FIN" \in seg.flags /\ seg.seq = g_rcv))
            /\ g_una' = AckedByRelay(seg)
            /\ g_ackDue' = (g_ackDue \/ seg.data # << >> \/ "FIN" \in seg.flags)
            /\ g_state' = "open"
        BY <2>1, <2>7 DEF GuestHandles
      <3>2. Carries(seg)
        BY <2>7 DEF Carries
      <3>3. /\ g_got' \in Seq(Byte) /\ g_rcv' \in SeqNo
            /\ Pos(g_rcv)' \in Pos(g_rcv) .. SentEnd
            /\ GuestOfStream /\ FrameOfStream(seg) =>
                  /\ Len(g_got') <= s_sent /\ g_got' = ServerStream(Len(g_got'))
                  /\ \/ Pos(g_rcv)' = Len(g_got')
                     \/ fin_sent /\ Len(g_got') = s_sent /\ Pos(g_rcv)' = s_sent + 1
        BY <1>2, <2>1, <2>7, <3>1, <3>2, GuestTakes
      <3>4. Pos(g_rcv)' \in Pos(snd_una) .. SentEnd
        <4>1. Pos(g_rcv) \in Pos(snd_una) .. SentEnd
          BY <2>7 DEF RInv, Window
        <4> QED BY <2>3, <3>3, <4>1
      <3>5. g_una' \in 0 .. g_sent
        <4> DEFINE n == SeqDiff(seg.ack, GuestSeq(1))
        <4>1. 1 + 0 <= Half
          BY SizesAssumption
        <4>2. n \in Int
          BY <2>2, <2>3, <4>1, GuestSeqFacts, SeqDiffType
        <4>3. g_una' = IF n > g_una THEN Least(n, g_sent) ELSE g_una
          BY <3>1 DEF AckedByRelay
        <4> HIDE DEF n
        <4> QED BY <2>4, <4>2, <4>3 DEF Least
      <3>6. ~fouled => GuestOfStream'
        BY <1>1, <1>2, <2>1, <3>1, <3>3 DEF GuestOfStream
      <3>7. g_ackDue' \in BOOLEAN
        BY <3>1
      <3> QED BY <1>1, <1>4, <2>1, <3>1, <3>3, <3>4, <3>5, <3>6, <3>7, Beside
    <2>8. CASE UNCHANGED <<g_state, g_got, g_rcv, g_una, g_ackDue>>
      <3>1. /\ g_state = "open" => Pos(g_rcv)' \in Pos(snd_una) .. SentEnd
            /\ ~fouled => GuestOfStream'
        BY <1>1, <1>2, <2>8, GuestAsBefore
      <3> QED BY <1>1, <1>4, <2>1, <2>4, <2>8, <3>1, Beside
    <2> QED BY <2>1, <2>5, <2>6, <2>7, <2>8 DEF GuestHandles
  <1> QED BY <1>5, <1>6

-----------------------------------------------------------------------------
(* The invariant holds in every session of the composition. *)

\* The session begins with the guest's numbers and nothing sent but the SYN-ACK.
LEMMA RelayInitInvariant == RelayInit => RInv
  <1> SUFFICES ASSUME RelayInit PROVE RInv
    OBVIOUS
  <1> USE SizesAssumption, InputsAssumption, RelayAssumption
  <1> DEFINE syn == Seg({"SYN", "ACK"}, our_isn, rcv_nxt, << >>)
  <1>1. IInv
    BY InitInvariant DEF RelayInit
  <1>2. /\ our_isn \in SeqNo /\ g_isn \in SeqNo /\ rcv_nxt = SeqAdd(g_isn, 1)
        /\ snd_una = SeqAdd(our_isn, 1) /\ snd_una \in SeqNo
        /\ sbuf = << >> /\ nxt = 0 /\ ~fin_sent /\ ~fin_pending
        /\ rx = <<syn>> /\ emitted = <<syn>>
    BY <1>1 DEF RelayInit, Init, IInv, TypeOK
  <1>3. /\ g_state = "syn_sent" /\ g_sent = 0 /\ g_una = 0 /\ g_fin = FALSE /\ g_rcv = 0
        /\ g_got = << >> /\ g_ackDue = FALSE /\ s_sent = 0 /\ dropped = FALSE
    BY DEF RelayInit
  <1>4. syn \in Segment
    <2>1. rcv_nxt \in SeqNo
      BY <1>1 DEF IInv, TypeOK
    <2>2. {"SYN", "ACK"} \in SUBSET Flag /\ << >> \in Seq(Byte)
      BY EmptySeq DEF Flag
    <2> QED BY <1>2, <2>1, <2>2, SegType
  <1>5. syn.flags = {"SYN", "ACK"} /\ syn.seq = our_isn
    BY DEF Seg
  <1> HIDE DEF syn
  <1>6. rx \in Seq(Segment \cup {Other}) /\ \A i \in DOMAIN rx : rx[i] = syn
    BY <1>2, <1>4
  <1>7. RelayTypeOK
    <2>1. 0 \in SeqNo
      BY DEF SeqNo, Modulus
    <2>2. 0 \in 0 .. GuestBytes /\ 0 \in 0 .. ServerBytes /\ 0 \in 0 .. 0
      OBVIOUS
    <2>3. g_sent \in 0 .. GuestBytes /\ g_una \in 0 .. g_sent /\ s_sent \in 0 .. ServerBytes
      BY <1>3, <2>2
    <2>4. g_fin \in BOOLEAN /\ g_ackDue \in BOOLEAN /\ dropped \in BOOLEAN
      BY <1>3
    <2>5. g_got \in Seq(Byte) /\ g_rcv \in SeqNo /\ g_state \in {"syn_sent", "open", "closed"}
      BY <1>3, <2>1, EmptySeq
    <2> QED BY <1>2, <1>6, <2>3, <2>4, <2>5 DEF RelayTypeOK
  <1>8. Pos(snd_una) = 0
    BY <1>2 DEF Pos, SeqDiff, SeqNo, Modulus
  <1>9. Window
    BY <1>2, <1>3, <1>8 DEF Window, GuestSeq, BoolNat
  <1>10. QueueInWindow
    BY <1>5, <1>6 DEF QueueInWindow, FrameInWindow, Carries
  <1>11. FinLast
    BY <1>2 DEF FinLast, RelayInit, Init
  <1>12. PiecesOfStream
    <2>1. BufferOfStream
      BY <1>2, <1>3, <1>8 DEF BufferOfStream
    <2>2. GuestOfStream
      BY <1>3 DEF GuestOfStream, ServerStream
    <2>3. \A i \in DOMAIN rx : FrameOfStream(rx[i])
      BY <1>5, <1>6 DEF FrameOfStream, Carries
    <2> QED BY <2>1, <2>2, <2>3 DEF PiecesOfStream
  <1> QED BY <1>1, <1>7, <1>9, <1>10, <1>11, <1>12 DEF RInv

\* Every step of the composition keeps the invariant.
LEMMA RelayNextInvariant ==
  ASSUME RInv, [RelayNext]_relayvars
  PROVE  RInv'
  <1>1. CASE GuestFinds
    <2>1. QuietStep /\ Counted(AnyStep) /\ rx' = rx /\ UNCHANGED <<guestvars, s_sent, dropped>>
      BY <1>1 DEF GuestFinds, SessionStep, Counted, AnyStep, QuietStep
    <2> QED BY <2>1, QuietRelayStep
  <1>2. CASE GuestForwards
    <2>1. PICK seg \in AnySegment : ForwardsOne(seg)
      BY <1>2, GuestForwardsOne DEF RInv
    <2> QED BY <2>1, GuestStep
  <1>3. CASE EtherInterrupt
    BY <1>3, InterruptStep
  <1>4. CASE FrameLost \/ OtherTraffic \/ GuestTalksToNobody \/ UNCHANGED relayvars
    BY <1>4, OtherStep
  <1>5. CASE ServerSends
    BY <1>5, ServerStep
  <1>6. CASE OtherReceiverStep(ReceiverRuns) \/ OtherReceiverStep(Clock)
    <2>1. QuietStep \/ PumpStep
      BY <1>6 DEF OtherReceiverStep, SessionStep, Counted, ReceiverRuns, LoopTop, ServerCloses,
                  QuietStep, PumpStep
    <2>2. /\ Counted(AnyStep) /\ rx' = EnqueueAll(rx, emitted')
          /\ UNCHANGED <<guestvars, s_sent, dropped>>
      BY <1>6, <2>1 DEF OtherReceiverStep, SessionStep, Counted, AnyStep
    <2> QED BY <2>1, <2>2, QuietRelayStep, PumpRelayStep
  <1> QED BY <1>1, <1>2, <1>3, <1>4, <1>5, <1>6 DEF RelayNext, Guest

\* RInv holds of every session, queue, guest and server, whatever is lost, repeated or crowded out.
THEOREM RelayInvariance == RelaySpec => []RInv
  <1>1. RInv /\ [RelayNext]_relayvars => RInv'
    BY RelayNextInvariant
  <1> QED BY RelayInitInvariant, <1>1, PTL DEF RelaySpec

\* The relay never acknowledges a byte or a FIN that the guest has not sent.
THEOREM AcksOnlyWhatWasSent == RelaySpec => []NeverAcksUnsent
  <1>1. RInv => NeverAcksUnsent
    <2> SUFFICES ASSUME RInv PROVE NeverAcksUnsent
      OBVIOUS
    <2> DEFINE j == g_sent + BoolNat(g_fin)
    <2>1. /\ RelayTypeOK /\ j \in Nat /\ 1 + j <= Half /\ j < Half /\ 1 + 0 <= Half
          /\ g_sent + 1 + BoolNat(g_fin) = 1 + j
      BY SizesAssumption, RelayAssumption DEF RInv, RelayTypeOK, BoolNat
    <2>2. rcv_nxt = GuestSeq(g_sent + 1 + BoolNat(g_fin))
      BY DEF RInv, Window
    <2>3. rcv_nxt = GuestSeq(1 + j)
      BY <2>1, <2>2
    <2> HIDE DEF j
    <2>4. GuestSeq(1) \in SeqNo /\ SeqAdd(GuestSeq(1), j) = GuestSeq(1 + j)
      BY <2>1, GuestSeqFacts
    <2>5. SeqDiff(rcv_nxt, GuestSeq(1)) = j
      BY <2>1, <2>3, <2>4, SeqDiffAdd
    <2> QED BY <2>1, <2>5 DEF NeverAcksUnsent, j
  <1> QED BY RelayInvariance, <1>1, PTL

\* What the relay takes as acknowledged the guest has, and what the guest has was sent.
THEOREM WindowsAgree == RelaySpec => []GuestWindowAgrees
  <1>1. RInv => GuestWindowAgrees
    <2> SUFFICES ASSUME RInv, g_state = "open"
                 PROVE  SeqDiff(g_rcv, snd_una) >= 0 /\ SeqDiff(snd_nxt, g_rcv) >= 0
      BY DEF GuestWindowAgrees
    <2>1. /\ SeqAdd(our_isn, 1) \in SeqNo /\ SentEnd \in Nat /\ Pos(snd_nxt) = SentEnd
          /\ Pos(g_rcv) \in Pos(snd_una) .. SentEnd /\ Pos(snd_una) \in Nat
      BY WindowBounds DEF RInv, Window, InStreams
    <2>2. snd_una \in SeqNo /\ snd_nxt \in SeqNo /\ g_rcv \in SeqNo
      BY DEF RInv, IInv, TypeOK, RelayTypeOK
    <2>3. Pos(g_rcv) \in Nat
      BY <2>1
    <2>4. /\ SeqDiff(g_rcv, snd_una) = Pos(g_rcv) - Pos(snd_una)
          /\ SeqDiff(snd_nxt, g_rcv) = Pos(snd_nxt) - Pos(g_rcv)
      BY <2>1, <2>2, <2>3, DiffOfPlaces DEF Pos
    <2> QED BY <2>1, <2>3, <2>4
  <1> QED BY RelayInvariance, <1>1, PTL

-----------------------------------------------------------------------------
(* The relay implements ByteStream. *)

\* The beginning of a longer stream is the shorter stream.
LEMMA StreamPrefix ==
  ASSUME NEW n \in Nat, NEW m \in 0 .. n
  PROVE  /\ Len(ServerStream(n)) = n
         /\ SubSeq(ServerStream(n), 1, m) = ServerStream(m)
  <1> DEFINE S == {ServerByte(i) : i \in Nat}
  <1>1. ASSUME NEW k \in Nat
        PROVE  ServerStream(k) \in Seq(S) /\ Len(ServerStream(k)) = k
    <2>1. ServerStream(k) \in [1 .. k -> S]
      BY DEF ServerStream
    <2> QED BY <2>1, LenProperties
  <1> HIDE DEF S
  <1>2. /\ SubSeq(ServerStream(n), 1, m) \in Seq(S) /\ Len(SubSeq(ServerStream(n), 1, m)) = m
        /\ \A i \in 1 .. m : SubSeq(ServerStream(n), 1, m)[i] = ServerStream(n)[i]
    BY <1>1, SubSeqProperties
  <1>3. ASSUME NEW i \in 1 .. m
        PROVE  ServerStream(n)[i] = ServerStream(m)[i]
    BY DEF ServerStream
  <1>4. ServerStream(m) \in Seq(S) /\ Len(ServerStream(m)) = m
    BY <1>1
  <1> QED BY <1>1, <1>2, <1>3, <1>4, SeqEqual

\* Once fouled, always fouled.
LEMMA FouledStays ==
  ASSUME RInv, RelayNext
  PROVE  fouled => fouled'
  <1>1. g_sent \in Nat
    BY RelayAssumption DEF RInv, RelayTypeOK
  <1>2. CASE GuestForwards
    <2>1. PICK seg \in AnySegment : ForwardsOne(seg)
      BY <1>2, GuestForwardsOne DEF RInv
    <2>2. g_sent' \in g_sent .. GuestBytes /\ dropped' = dropped
      BY <2>1 DEF ForwardsOne, GuestSends
    <2> QED BY <1>1, <2>2, RelayAssumption DEF fouled
  <1>3. CASE ServerSends
    BY <1>3 DEF ServerSends, guestvars, fouled
  <1>4. CASE ~GuestForwards /\ ~ServerSends
    <2>1. g_sent' = g_sent /\ dropped' = dropped
      BY <1>4 DEF RelayNext, Guest, GuestFinds, GuestTalksToNobody, EtherInterrupt, FrameLost,
                  OtherTraffic, OtherReceiverStep, guestvars, servervars, relayvars
    <2> QED BY <2>1 DEF fouled
  <1> QED BY <1>2, <1>3, <1>4

\* What one step does to the stream: the server sends, or the guest takes, or neither.
LEMMA StreamMoves ==
  ASSUME RInv, RelayNext
  PROVE  \/ UNCHANGED <<s_sent, g_got>>
         \/ s_sent' \in Nat /\ s_sent' > s_sent /\ UNCHANGED g_got
         \/ UNCHANGED s_sent /\ \E f \in Seq(Byte) : g_got' = g_got \o f
  <1>1. CASE GuestForwards
    <2>1. PICK seg \in AnySegment : ForwardsOne(seg)
      BY <1>1, GuestForwardsOne DEF RInv
    <2> QED BY <2>1 DEF ForwardsOne, GuestSends
  <1>2. CASE ServerSends
    <2>1. PICK n \in 1 .. Least(ChunkMax, ServerBytes - s_sent) :
              s_sent' = s_sent + n /\ UNCHANGED guestvars
      BY <1>2 DEF ServerSends
    <2>2. n \in Nat /\ n > 0 /\ s_sent \in Nat
      BY <2>1, RelayAssumption DEF RInv, RelayTypeOK, Least
    <2> QED BY <2>1, <2>2 DEF guestvars
  <1>3. CASE EtherInterrupt
    <2>1. s_sent' = s_sent
      BY <1>3 DEF EtherInterrupt, servervars
    <2>2. CASE g_got' = g_got
      BY <2>1, <2>2
    <2>3. CASE g_got' # g_got
      <3> DEFINE seg == Head(rx)
      <3>1. rx # << >> /\ seg # Other /\ GuestHandles(seg)
        BY <1>3, <2>3 DEF EtherInterrupt, guestvars
      <3>2. /\ g_state = "open" /\ "RST" \notin seg.flags /\ "SYN" \notin seg.flags
            /\ g_got' = g_got \o Fresh(seg)
        BY <2>3, <3>1 DEF GuestHandles
      <3>3. /\ RelayTypeOK /\ SeqAdd(our_isn, 1) \in SeqNo /\ SentEnd \in Nat
            /\ Pos(g_rcv) \in Pos(snd_una) .. SentEnd /\ Pos(snd_una) \in Nat
        BY <3>2, WindowBounds DEF RInv, Window, InStreams
      <3>4. 1 \in DOMAIN rx /\ Head(rx) = rx[1] /\ rx \in Seq(Segment \cup {Other})
        BY <3>1, <3>3, TailOld DEF RelayTypeOK
      <3>5. seg \in Segment /\ FrameInWindow(seg)
        BY <3>1, <3>4 DEF RInv, QueueInWindow
      <3> HIDE DEF seg
      <3>6. Pos(seg.seq) \in Nat
        BY <3>2, <3>5 DEF FrameInWindow, Carries
      <3>7. Pos(g_rcv) \in Nat
        BY <3>3
      <3>8. Fresh(seg) \in Seq(Byte)
        BY <3>3, <3>5, <3>6, <3>7, FreshFacts
      <3> QED BY <2>1, <3>2, <3>8
    <2> QED BY <2>2, <2>3
  <1>4. CASE ~GuestForwards /\ ~ServerSends /\ ~EtherInterrupt
    BY <1>4 DEF RelayNext, Guest, GuestFinds, GuestTalksToNobody, FrameLost, OtherTraffic,
                OtherReceiverStep, guestvars, servervars, relayvars
  <1> QED BY <1>1, <1>2, <1>3, <1>4

\* A step of the composition is a step of the abstract stream, or none.
LEMMA StreamStep ==
  ASSUME RInv, RInv', RelayNext
  PROVE  [Stream!Next]_(Stream!vars)
  <1> SUFFICES ASSUME ~fouled'
               PROVE  [Stream!Next]_(Stream!vars)
    BY DEF Stream!Next
  <1>1. ~fouled
    BY FouledStays
  <1>2. /\ s_sent \in Nat /\ s_sent' \in Nat /\ g_got \in Seq(Byte) /\ g_got' \in Seq(Byte)
        /\ fouled \in BOOLEAN /\ fouled' \in BOOLEAN
    BY RelayAssumption DEF RInv, RelayTypeOK, fouled
  <1>3. /\ GuestOfStream /\ Len(g_got) <= s_sent
        /\ Len(g_got') <= s_sent' /\ g_got' = ServerStream(Len(g_got'))
    BY <1>1 DEF RInv, PiecesOfStream, GuestOfStream
  <1>4. Len(g_got) \in Nat /\ Len(g_got') \in Nat
    BY <1>2, LenProperties
  <1>5. CASE UNCHANGED <<s_sent, g_got>>
    <2>1. ServerStream(s_sent)' = ServerStream(s_sent)
      BY <1>5 DEF ServerStream, ServerByte
    <2>2. fouled' = fouled
      BY <1>1, <1>2
    <2> QED BY <1>5, <2>1, <2>2 DEF Stream!vars
  <1>6. CASE s_sent' > s_sent /\ UNCHANGED g_got
    <2>1. s_sent \in 0 .. s_sent'
      BY <1>2, <1>6
    <2>2. /\ Len(ServerStream(s_sent)) = s_sent /\ Len(ServerStream(s_sent')) = s_sent'
          /\ SubSeq(ServerStream(s_sent'), 1, s_sent) = ServerStream(s_sent)
      BY <1>2, <2>1, StreamPrefix
    <2>3. Stream!Send
      BY <1>2, <1>6, <2>2 DEF Stream!Send
    <2> QED BY <1>1, <2>3 DEF Stream!Next
  <1>7. CASE UNCHANGED s_sent /\ \E f \in Seq(Byte) : g_got' = g_got \o f
    <2>1. PICK f \in Seq(Byte) : g_got' = g_got \o f
      BY <1>7
    <2>2. CASE f = << >>
      <3>1. g_got' = g_got
        BY <1>2, <2>1, <2>2
      <3> QED BY <1>5, <1>7, <3>1
    <2>3. CASE f # << >>
      <3>1. Len(g_got') = Len(g_got) + Len(f) /\ Len(f) \in Nat /\ Len(f) # 0
        BY <1>2, <2>1, <2>3, ConcatProperties, LenProperties, EmptySeq
      <3>2. Len(g_got) < Len(g_got') /\ Len(g_got') \in 0 .. s_sent
        BY <1>2, <1>3, <1>4, <1>7, <3>1
      <3> DEFINE k == Len(g_got')
      <3>3. k \in 0 .. s_sent /\ g_got' = ServerStream(k) /\ k <= s_sent
        BY <1>3, <3>2
      <3> HIDE DEF k
      <3>4. Len(ServerStream(s_sent)) = s_sent /\ SubSeq(ServerStream(s_sent), 1, k) = ServerStream(k)
        BY <1>2, <3>3, StreamPrefix
      <3>5. /\ Len(g_got') <= Len(ServerStream(s_sent))
            /\ g_got' = SubSeq(ServerStream(s_sent), 1, Len(g_got'))
        BY <3>3, <3>4 DEF k
      <3>6. Stream!Deliver
        BY <1>7, <3>2, <3>5 DEF Stream!Deliver
      <3> QED BY <1>1, <3>6 DEF Stream!Next
    <2> QED BY <2>2, <2>3
  <1> QED BY <1>5, <1>6, <1>7, StreamMoves

\* Towards a guest that only listens the relay is a reliable byte stream, whatever is lost,
\* repeated or crowded out, and however long queue, buffer and streams are.
THEOREM RelayIsStream == RelaySpec => ImplementsStream
  <1>1. RelayInit => Stream!Init
    <2> SUFFICES ASSUME RelayInit PROVE Stream!Init
      OBVIOUS
    <2>1. s_sent = 0 /\ g_got = << >> /\ g_sent = 0 /\ dropped = FALSE
      BY DEF RelayInit
    <2>2. ServerStream(0) = << >>
      BY DEF ServerStream
    <2>3. fouled = FALSE
      BY <2>1 DEF fouled
    <2> QED BY <2>1, <2>2, <2>3 DEF Stream!Init
  <1>2. RInv /\ RInv' /\ [RelayNext]_relayvars => [Stream!Next]_(Stream!vars)
    <2> SUFFICES ASSUME RInv, RInv', [RelayNext]_relayvars
                 PROVE  [Stream!Next]_(Stream!vars)
      OBVIOUS
    <2>1. CASE RelayNext
      BY <2>1, StreamStep
    <2>2. CASE UNCHANGED relayvars
      BY <2>2 DEF relayvars, guestvars, servervars, Stream!vars, fouled, ServerStream, ServerByte
    <2> QED BY <2>1, <2>2
  <1> QED BY RelayInvariance, <1>1, <1>2, PTL DEF RelaySpec, ImplementsStream, Stream!Spec
=============================================================================
