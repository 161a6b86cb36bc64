------------------------------ MODULE TcpRelay ------------------------------
(***************************************************************************)
(* A TcpSession between the two ends it connects: the guest's TCP, reached *)
(* by ether_write and by the inbound frame queue that EtherInterrupt       *)
(* drains, and the server behind the real socket.                          *)
(*                                                                         *)
(* The queue is the code's (enqueue_rx, EtherInterrupt): bounded, dropping *)
(* the oldest frame, shared with all other traffic.  The guest's TCP is    *)
(* external: it sends its bytes in order, retransmits, accepts in-order    *)
(* data and acknowledges what it has.                                      *)
(***************************************************************************)
EXTENDS TcpSession, SequencesExt

CONSTANTS
    RxMax,        \* RX_QUEUE_MAX
    GuestBytes,   \* bytes the guest sends
    ServerBytes,  \* bytes the server sends
    ChunkMax,     \* most bytes one recv() returns here
    MaxOther,     \* bound on frames of other traffic, and on frames the guest fails to take
    MaxResend,    \* bound on guest retransmissions
    Other         \* a frame of another session or protocol

ASSUME RelayAssumption ==
    /\ RxMax \in Nat \ {0} /\ GuestBytes \in Nat /\ ServerBytes \in Nat
    /\ ChunkMax \in Nat \ {0} /\ MaxOther \in Nat /\ MaxResend \in Nat
    /\ ({"g"} \X (1 .. GuestBytes)) \cup ({"s"} \X (1 .. ServerBytes)) \subseteq Byte
    /\ GuestBytes + 1 < Half /\ GuestBytes + ServerBytes + 1 < Half

VARIABLES
    rx,                         \* the inbound frame queue
    g_state,                    \* guest TCP: "syn_sent", "open", "closed"
    g_isn, g_sent, g_una,       \* guest bytes sent and acknowledged (as counts)
    g_fin,                      \* the guest has sent its FIN
    g_rcv, g_got,               \* next sequence number expected; bytes received
    g_ackDue,                   \* a received segment is to be acknowledged
    s_sent, s_got,              \* bytes the server sent (count) / received
    dropped,                    \* recv() returned bytes that did not fit in sbuf
    others, resends             \* bounded environment steps taken

guestvars == <<g_state, g_isn, g_sent, g_una, g_fin, g_rcv, g_got, g_ackDue>>
servervars == <<s_sent, s_got, dropped>>
budgets == <<others, resends>>
relayvars == <<vars, rx, guestvars, servervars, budgets>>

GuestByte(i) == <<"g", i>>
ServerByte(i) == <<"s", i>>
ServerStream(n) == [i \in 1 .. n |-> ServerByte(i)]

-----------------------------------------------------------------------------
\* enqueue_rx: a full queue gives up its oldest frame for each new one
EnqueueAll(q, frames) ==
    LET all == q \o frames
    IN  SubSeq(all, Len(all) - Least(RxMax, Len(all)) + 1, Len(all))
Enqueue(q, frame) == EnqueueAll(q, <<frame>>)

\* a step of the session: what it emits enters the queue, what it writes reaches the server
SessionStep(A) ==
    /\ Counted(A)
    /\ s_got' = s_got \o written'

-----------------------------------------------------------------------------
RelayInit ==
    /\ Init
    /\ rx = emitted
    /\ g_state = "syn_sent"
    /\ g_isn \in Isns /\ rcv_nxt = SeqAdd(g_isn, 1)
    /\ g_sent = 0 /\ g_una = 0 /\ g_fin = FALSE
    /\ g_rcv = 0 /\ g_got = << >> /\ g_ackDue = FALSE
    /\ s_sent = 0 /\ s_got = << >> /\ dropped = FALSE
    /\ others = 0 /\ resends = 0

\* sequence number of the guest's byte i; its FIN follows the last byte sent
GuestSeq(i) == SeqAdd(g_isn, i)

\* the guest hands one segment to ether_write -> forward_tcp: the session is looked up ...
GuestFinds ==
    /\ g_state = "open"
    /\ SessionStep(Find)
    /\ UNCHANGED <<rx, guestvars, s_sent, dropped, budgets>>

\* ... and the segment handled
GuestSends(seg) ==
    /\ g_state = "open"
    /\ SessionStep(ForwardSegment(seg) \/ ForwardRst(seg))
    /\ rx' = EnqueueAll(rx, emitted')
    /\ UNCHANGED <<g_isn, g_una, g_rcv, g_got, s_sent, dropped, others>>

GuestData ==
    /\ g_sent < GuestBytes /\ ~g_fin
    /\ GuestSends(Seg({"ACK"}, GuestSeq(g_sent + 1), g_rcv, <<GuestByte(g_sent + 1)>>))
    /\ g_sent' = g_sent + 1
    /\ g_ackDue' = FALSE
    /\ UNCHANGED <<g_state, g_fin, resends>>

GuestResends ==
    /\ g_una < g_sent /\ resends < MaxResend
    /\ GuestSends(Seg({"ACK"}, GuestSeq(g_una + 1), g_rcv, <<GuestByte(g_una + 1)>>))
    /\ resends' = resends + 1
    /\ g_ackDue' = FALSE
    /\ UNCHANGED <<g_state, g_sent, g_fin>>

GuestResendsFin ==
    /\ g_fin /\ resends < MaxResend
    /\ GuestSends(Seg({"ACK", "FIN"}, GuestSeq(g_sent + 1), g_rcv, << >>))
    /\ resends' = resends + 1
    /\ g_ackDue' = FALSE
    /\ UNCHANGED <<g_state, g_sent, g_fin>>

GuestAcks ==
    /\ g_ackDue
    /\ GuestSends(Seg({"ACK"}, GuestSeq(g_sent + 1 + BoolNat(g_fin)), g_rcv, << >>))
    /\ g_ackDue' = FALSE
    /\ UNCHANGED <<g_state, g_sent, g_fin, resends>>

GuestFin ==
    /\ ~g_fin
    /\ GuestSends(Seg({"ACK", "FIN"}, GuestSeq(g_sent + 1), g_rcv, << >>))
    /\ g_fin' = TRUE
    /\ g_ackDue' = FALSE
    /\ UNCHANGED <<g_state, g_sent, resends>>

GuestRst ==
    /\ GuestSends(Seg({"RST"}, GuestSeq(g_sent + 1), g_rcv, << >>))
    /\ g_state' = "closed"
    /\ UNCHANGED <<g_sent, g_fin, g_ackDue, resends>>

\* the session is gone: find_tcp_session matches nothing and forward_tcp returns
GuestTalksToNobody ==
    /\ g_state = "open" /\ ~active /\ epc = "run" /\ g_ackDue
    /\ g_ackDue' = FALSE
    /\ UNCHANGED <<vars, rx, g_state, g_isn, g_sent, g_una, g_fin, g_rcv, g_got, servervars, budgets>>

-----------------------------------------------------------------------------
(* EtherInterrupt takes one frame off the queue; rx_mutex is dropped while  *)
(* the guest handles it.  It runs on the emulator thread, as forward_tcp does. *)

\* bytes of the segment the guest has not seen, when it starts at or before g_rcv
Fresh(seg) ==
    LET skip == SeqDiff(g_rcv, seg.seq)
    IN  IF skip >= 0 /\ skip < Len(seg.data) THEN Drop(seg.data, skip) ELSE << >>

\* how many guest bytes (and its FIN) the segment acknowledges
AckedByRelay(seg) ==
    LET n == SeqDiff(seg.ack, GuestSeq(1))
    IN  IF n > g_una THEN Least(n, g_sent) ELSE g_una

GuestHandles(seg) ==
    \/ /\ g_state = "syn_sent" /\ "SYN" \in seg.flags
       /\ g_state' = "open"
       /\ g_rcv' = SeqAdd(seg.seq, 1)
       /\ g_ackDue' = TRUE
       /\ UNCHANGED <<g_got, g_una>>
    \/ /\ g_state # "closed" /\ "RST" \in seg.flags
       /\ g_state' = "closed"
       /\ UNCHANGED <<g_got, g_rcv, g_una, g_ackDue>>
    \/ /\ g_state = "open" /\ "RST" \notin seg.flags /\ "SYN" \notin seg.flags
       /\ g_got' = g_got \o Fresh(seg)
       /\ g_rcv' = SeqAdd(g_rcv, Len(Fresh(seg))
                                 + BoolNat("FIN" \in seg.flags /\ seg.seq = g_rcv))
       /\ g_una' = AckedByRelay(seg)
       /\ g_ackDue' = (g_ackDue \/ seg.data # << >> \/ "FIN" \in seg.flags)
       /\ UNCHANGED g_state
    \/ /\ \/ g_state = "closed"
          \/ g_state = "syn_sent" /\ {"SYN", "RST"} \cap seg.flags = {}
          \/ g_state = "open" /\ "SYN" \in seg.flags
       /\ UNCHANGED <<g_state, g_got, g_rcv, g_una, g_ackDue>>

EtherInterrupt ==
    /\ rx # << >> /\ epc = "run"
    /\ rx' = Tail(rx)
    /\ IF Head(rx) = Other
       THEN UNCHANGED guestvars
       ELSE GuestHandles(Head(rx)) /\ UNCHANGED <<g_isn, g_sent, g_fin>>
    /\ UNCHANGED <<vars, servervars, budgets>>

\* NewPtrSysClear failed or the protocol handler is detached: the frame is lost
FrameLost ==
    /\ rx # << >> /\ epc = "run" /\ others < MaxOther
    /\ others' = others + 1
    /\ rx' = Tail(rx)
    /\ UNCHANGED <<vars, guestvars, servervars, resends>>

\* a frame of another session, of UDP, ICMP, ARP or DHCP is enqueued
OtherTraffic ==
    /\ others < MaxOther
    /\ others' = others + 1
    /\ rx' = Enqueue(rx, Other)
    /\ UNCHANGED <<vars, guestvars, servervars, resends>>

-----------------------------------------------------------------------------
\* the receiver thread's steps, recv() returning the server's next bytes
ServerSends ==
    \E n \in 1 .. Least(ChunkMax, ServerBytes - s_sent) :
        LET chunk == [i \in 1 .. n |-> ServerByte(s_sent + i)]
        IN  /\ SessionStep(RecvData(chunk))
            /\ rx' = EnqueueAll(rx, emitted')
            /\ s_sent' = s_sent + n
            /\ dropped' = (dropped \/ Len(sbuf') = Len(sbuf))
            /\ UNCHANGED <<guestvars, budgets>>

OtherReceiverStep(A) ==
    /\ SessionStep(A)
    /\ rx' = EnqueueAll(rx, emitted')
    /\ UNCHANGED <<guestvars, s_sent, dropped, budgets>>

ServerCloses == s_sent = ServerBytes /\ RecvEof

ReceiverRuns ==
    ConnectReturns \/ BootWrite \/ BootCheck \/ LoopTop \/ ServerCloses \/ RecvTimeout \/ RecvError
    \/ ThreadClose

GuestForwards == GuestData \/ GuestResends \/ GuestResendsFin \/ GuestAcks \/ GuestFin \/ GuestRst
Guest == GuestFinds \/ GuestForwards \/ GuestTalksToNobody

RelayNext ==
    \/ Guest
    \/ EtherInterrupt \/ FrameLost \/ OtherTraffic
    \/ ServerSends
    \/ OtherReceiverStep(ReceiverRuns)
    \/ OtherReceiverStep(Clock)
    \/ pc = "done" /\ ~active /\ rx = << >> /\ UNCHANGED relayvars

RelaySpec == RelayInit /\ [][RelayNext]_relayvars

\* As in TcpSession the receiver thread is scheduled and time passes; the VBL tick keeps
\* draining the queue, and a guest with something to acknowledge does.
RelayFairness ==
    /\ WF_relayvars(OtherReceiverStep(LoopTop))
    /\ WF_relayvars(ServerSends \/ OtherReceiverStep(ServerCloses \/ RecvTimeout \/ RecvError))
    /\ WF_relayvars(OtherReceiverStep(RtoExpires))
    /\ WF_relayvars(EtherInterrupt)
    /\ WF_relayvars(g_ackDue /\ GuestFinds) /\ WF_relayvars(GuestForwards)

RelayFairSpec == RelaySpec /\ RelayFairness

-----------------------------------------------------------------------------
(* Properties *)

\* The session's two directions share sbuf, and recv() data that does not fit is lost:
\* nothing is promised about the stream once the guest has sent data or bytes were dropped.
fouled == g_sent > 0 \/ dropped

Stream == INSTANCE ByteStream WITH
    Byte <- {ServerByte(i) : i \in 1 .. ServerBytes},
    sent <- ServerStream(s_sent), delivered <- g_got, fouled <- fouled

\* Towards a guest that only listens the relay is a reliable byte stream, whatever frames the
\* queue drops, however often a segment is repeated and however the timer races the ACKs.
ImplementsStream == Stream!Spec

\* The relay never acknowledges a byte or a FIN the guest has not sent, also when the guest
\* repeats its FIN (forward_tcp sets rcv_nxt from the FIN's own sequence number).
NeverAcksUnsent == SeqDiff(rcv_nxt, GuestSeq(1)) <= g_sent + BoolNat(g_fin)

\* The two ends agree on the window: what the relay takes as acknowledged the guest has,
\* and what the guest has the relay has sent.
GuestWindowAgrees ==
    g_state = "open" =>
        /\ SeqDiff(g_rcv, snd_una) >= 0
        /\ SeqDiff(snd_nxt, g_rcv) >= 0

\* Server bytes taken from recv() reach the guest in spite of lost frames, unless the session
\* is torn down first.
Delivered ==
    \A n \in 1 .. ServerBytes :
        s_sent = n ~> Len(g_got) >= n \/ fouled \/ ~active \/ g_state # "open"

\* "Incoming data from EwokOS sockets is wrapped in Ethernet frames": what the guest receives
\* came from the server.
OnlyServerBytesReachGuest == \A i \in DOMAIN g_got : g_got[i][1] = "s"

\* Guest bytes the relay has acknowledged are still buffered or were written to the server:
\* dropping them "while ACKing the guest leaves the server silent forever".
AckedDataNotLost ==
    active => \A i \in 1 .. g_una : GuestByte(i) \in ToSet(sbuf) \cup ToSet(s_got) \cup ToSet(boot)

-----------------------------------------------------------------------------
(* The inductive invariant behind the safety properties *)

RelayTypeOK ==
    /\ rx \in Seq(Segment \cup {Other})
    /\ g_state \in {"syn_sent", "open", "closed"}
    /\ g_isn \in SeqNo /\ g_sent \in 0 .. GuestBytes /\ g_una \in 0 .. g_sent /\ g_fin \in BOOLEAN
    /\ g_rcv \in SeqNo /\ g_got \in Seq(Byte) /\ g_ackDue \in BOOLEAN
    /\ s_sent \in 0 .. ServerBytes /\ dropped \in BOOLEAN

\* Where a number of ours lies, counted from the first byte's; and the end of all that was sent.
Pos(x) == SeqDiff(x, SeqAdd(our_isn, 1))
SentEnd == Pos(snd_una) + nxt + BoolNat(fin_sent)

\* The guest stands between what it acknowledged and what was sent, nothing is numbered that
\* neither end sent, and the relay has taken exactly what the guest sent.
Window ==
    /\ Pos(snd_una) \in Nat
    /\ Pos(snd_una) + Len(sbuf) <= g_sent + s_sent
    /\ g_state = "syn_sent" => Pos(snd_una) = 0
    /\ g_state = "open" => Pos(g_rcv) \in Pos(snd_una) .. SentEnd
    /\ rcv_nxt = GuestSeq(g_sent + 1 + BoolNat(g_fin))

\* A frame on its way to the guest ends where something was sent.
Carries(seg) == {"SYN", "RST"} \cap seg.flags = {}
FrameInWindow(seg) ==
    /\ "SYN" \in seg.flags => seg.seq = our_isn
    /\ Carries(seg) =>
          /\ Pos(seg.seq) \in Nat
          /\ Pos(seg.seq) + Len(seg.data) + BoolNat("FIN" \in seg.flags) <= SentEnd
QueueInWindow == \A i \in DOMAIN rx : rx[i] = Other \/ FrameInWindow(rx[i])

\* The FIN is sent on the way out, or after the server closed: nothing is received after it.
FinLast ==
    /\ fin_pending => close_requested
    /\ fin_sent => pc \in {"close", "done"} \/ (pc = "top" /\ remote_eof)

\* Until the stream is fouled, buffer, frames and guest hold pieces of what the server sent,
\* each at its place, and the FIN is behind the last byte.
FrameOfStream(seg) ==
    Carries(seg) =>
        /\ \A i \in DOMAIN seg.data :
              seg.data[i] = ServerByte(Pos(seg.seq) + i) /\ Pos(seg.seq) + i <= s_sent
        /\ "FIN" \in seg.flags => fin_sent /\ seg.data = << >> /\ Pos(seg.seq) = s_sent
BufferOfStream ==
    /\ Pos(snd_una) + Len(sbuf) = s_sent
    /\ \A i \in DOMAIN sbuf : sbuf[i] = ServerByte(Pos(snd_una) + i)
    /\ fin_sent => sbuf = << >>
GuestOfStream ==
    /\ Len(g_got) <= s_sent /\ g_got = ServerStream(Len(g_got))
    /\ g_state = "syn_sent" => g_got = << >>
    /\ g_state = "open" =>
          \/ Pos(g_rcv) = Len(g_got)
          \/ fin_sent /\ Len(g_got) = s_sent /\ Pos(g_rcv) = s_sent + 1
PiecesOfStream ==
    ~fouled =>
        /\ BufferOfStream /\ GuestOfStream
        /\ \A i \in DOMAIN rx : rx[i] = Other \/ FrameOfStream(rx[i])

RInv == IInv /\ RelayTypeOK /\ Window /\ QueueInWindow /\ FinLast /\ PiecesOfStream
=============================================================================
