----------------------------- MODULE TcpSession -----------------------------
(***************************************************************************)
(* One TCP proxy session of the macemu NAT (struct tcp_session of          *)
(* macemu/src/ewok/ether_ewok.cpp), from create_tcp_session to the free    *)
(* in reap_tcp_locked or ether_exit.                                       *)
(*                                                                         *)
(* Two threads work on it.  The emulator thread runs forward_tcp for every *)
(* guest segment, the reaper and ether_exit; the receiver thread runs      *)
(* tcp_recv_func.  Every section under t->lock is one action; the system   *)
(* calls made with the lock dropped (connect, the boot write, recv, close) *)
(* are actions of their own, on the thread's local copy of the fd.         *)
(*                                                                         *)
(* The send buffer is kept as the sequence of its bytes from s_una_off to  *)
(* s_tail_off: forward_tcp moves them to offset 0 whenever it advances     *)
(* s_una_off, inside the same locked section.  nxt is s_nxt_off.           *)
(***************************************************************************)
EXTENDS Integers, Sequences

CONSTANTS
    Byte,         \* values of a payload byte
    Junk,         \* a byte read from boot_buf before anything was stored in it
    Half,         \* half the sequence space: 2^31 in the code
    MSS,          \* TCP_MSS: the most bytes in one segment
    SbufCap,      \* sizeof(sbuf)
    BootMax,      \* sizeof(boot_buf)
    WriteMax,     \* sizeof(wr_buf)
    Isns,         \* initial sequence numbers either side may start from
    GuestSegs,    \* segments the guest may hand to ether_write for this session
    ServerChunks  \* what one recv() on the real socket may return

Modulus == 2 * Half
SeqNo == 0 .. Modulus - 1
Flag == {"ACK", "PSH", "RST", "FIN", "SYN"}
Segment == [flags : SUBSET Flag, seq : SeqNo, ack : SeqNo, data : Seq(Byte)]

ASSUME SizesAssumption ==
    /\ Half \in Nat /\ MSS \in Nat \ {0}
    /\ MSS + 1 < Half
    /\ SbufCap \in Nat \ {0} /\ BootMax \in Nat \ {0} /\ WriteMax \in Nat \ {0}

ASSUME InputsAssumption ==
    /\ Junk \notin Byte
    /\ Isns \subseteq SeqNo
    /\ GuestSegs \subseteq Segment
    /\ \A seg \in GuestSegs : Len(seg.data) < Half
    /\ ServerChunks \subseteq Seq(Byte) \ {<< >>}

VARIABLES
    \* fields of the tcp_session, all guarded by t->lock
    sbuf, nxt,                    \* bytes s_una_off..s_tail_off; how many of them are in flight
    snd_una, snd_nxt, rcv_nxt,    \* sequence numbers
    our_isn, state,               \* our initial sequence number and the handshake state
    active, connected, fin_pending, fin_sent, remote_eof, close_requested,
    fd,                           \* t->fd >= 0
    rtoOver, graceOver,           \* TCP_RETRANS_USEC since last_send, TCP_CLOSE_GRACE_USEC since close_start
    \* the two threads
    pc, lfd, boot,                \* receiver thread: place, its copy of the fd, boot_buf
    epc, efd,                     \* emulator thread: place in this session's life, its copy of the fd
    \* what the outside sees
    closes,                       \* close() calls made on the real socket
    emitted, written,             \* segments enqueued for the guest / bytes written to the socket by the last step
    late                          \* segments emitted after the session was deactivated

bufvars  == <<sbuf, nxt, snd_una, snd_nxt>>
flowvars == <<active, connected, fin_pending, fin_sent, remote_eof, close_requested>>
recvvars == <<pc, lfd, boot>>
emuvars  == <<epc, efd>>
timers   == <<rtoOver, graceOver>>
outvars  == <<emitted, written>>
vars == <<bufvars, rcv_nxt, our_isn, state, flowvars, fd, timers, recvvars, emuvars, closes, outvars, late>>

RecvPlace == {"connect", "boot", "check", "top", "recv", "close", "done"}
EmuPlace  == {"run", "found", "exit_close", "exit_join", "freed"}

-----------------------------------------------------------------------------
\* uint32_t arithmetic: the sum wraps, the difference is read back as int32_t
SeqAdd(a, k)  == IF a + k < Modulus THEN a + k ELSE a + k - Modulus
SeqDiff(a, b) == IF a - b >= Half THEN a - b - Modulus
                 ELSE IF a - b < -Half THEN a - b + Modulus
                 ELSE a - b

Least(a, b) == IF a < b THEN a ELSE b
First(s, n) == SubSeq(s, 1, Least(n, Len(s)))
Drop(s, n)  == SubSeq(s, n + 1, Len(s))

Seg(fl, seq, ack, data) == [flags |-> fl, seq |-> seq, ack |-> ack, data |-> data]

\* append to sbuf only what fits whole; the rest is dropped
Store(s, d) == IF Len(s) + Len(d) <= SbufCap THEN s \o d ELSE s

-----------------------------------------------------------------------------
\* create_tcp_session: the SYN was consumed, the SYN-ACK enqueued, the receiver started
Init ==
    /\ our_isn \in Isns
    /\ snd_una = SeqAdd(our_isn, 1) /\ snd_nxt = SeqAdd(our_isn, 1)
    /\ \E guest_isn \in Isns : rcv_nxt = SeqAdd(guest_isn, 1)
    /\ emitted = <<Seg({"SYN", "ACK"}, our_isn, rcv_nxt, << >>)>>
    /\ sbuf = << >> /\ nxt = 0
    /\ state = "SYN_RECV"
    /\ active = TRUE /\ connected = FALSE
    /\ fin_pending = FALSE /\ fin_sent = FALSE
    /\ remote_eof = FALSE /\ close_requested = FALSE
    /\ fd = TRUE
    /\ rtoOver = TRUE /\ graceOver = FALSE
    /\ pc = "connect" /\ lfd = FALSE /\ boot = << >>
    /\ epc = "run" /\ efd = FALSE
    /\ closes = 0 /\ written = << >> /\ late = 0

-----------------------------------------------------------------------------
(* Emulator thread: forward_tcp.  find_tcp_session reads active without     *)
(* t->lock: the session may be deactivated before forward_tcp has the lock. *)
Find ==
    /\ epc = "run" /\ active
    /\ epc' = "found"
    /\ emitted' = << >> /\ written' = << >>
    /\ UNCHANGED <<bufvars, rcv_nxt, our_isn, state, flowvars, fd, timers, recvvars, efd, closes>>

\* mutant: any ACK takes the whole flight
AckedWhole(seg) == IF "ACK" \in seg.flags THEN nxt ELSE 0

\* bytes the segment acknowledges, clamped to those in flight
Acked(seg) ==
    IF "ACK" \in seg.flags /\ SeqDiff(seg.ack, snd_una) > 0
    THEN Least(SeqDiff(seg.ack, snd_una), nxt)
    ELSE 0

AckOurData(seg) ==
    /\ snd_una' = SeqAdd(snd_una, Acked(seg))
    /\ nxt' = nxt - Acked(seg)

\* mutant: payload is taken whatever its sequence number
InOrderAny(seg) == seg.data # << >>

InOrder(seg) == seg.data # << >> /\ seg.seq = rcv_nxt

\* mutant: the memmove is missing
AfterPayloadUnmoved(seg) == IF InOrder(seg) THEN Store(sbuf, seg.data) ELSE sbuf

\* sbuf after the ACK compacted it and the payload, if in order, was appended
AfterPayload(seg) ==
    LET unacked == Drop(sbuf, Acked(seg))
    IN  IF InOrder(seg) THEN Store(unacked, seg.data) ELSE unacked

ForwardRst(seg) ==
    /\ epc = "found" /\ epc' = "run"
    /\ "RST" \in seg.flags
    /\ AckOurData(seg)
    /\ sbuf' = Drop(sbuf, Acked(seg))
    /\ active' = FALSE
    /\ emitted' = << >> /\ written' = << >>
    /\ UNCHANGED <<snd_nxt, rcv_nxt, our_isn, state, connected, fin_pending, fin_sent, remote_eof,
                   close_requested, fd, timers, recvvars, efd, closes>>

ForwardSegment(seg) ==
    /\ epc = "found" /\ epc' = "run"
    /\ "RST" \notin seg.flags
    /\ AckOurData(seg)
    /\ sbuf' = AfterPayload(seg)
    /\ state' = IF "ACK" \in seg.flags /\ seg.ack = SeqAdd(our_isn, 1)
                THEN "ESTABLISHED" ELSE state
    /\ LET afterData == IF InOrder(seg) THEN SeqAdd(rcv_nxt, Len(seg.data)) ELSE rcv_nxt
           dataAck == IF seg.data # << >>
                      THEN <<Seg({"ACK"}, snd_nxt, afterData, << >>)>> ELSE << >>
           afterFin == SeqAdd(seg.seq, Len(seg.data) + 1)
       IN  IF "FIN" \in seg.flags
           THEN /\ rcv_nxt' = afterFin
                /\ emitted' = Append(dataAck, Seg({"ACK"}, snd_nxt, afterFin, << >>))
                /\ fin_pending' = TRUE
                /\ close_requested' = TRUE
           ELSE /\ rcv_nxt' = afterData
                /\ emitted' = dataAck
                /\ UNCHANGED <<fin_pending, close_requested>>
    /\ written' = IF InOrder(seg) /\ connected /\ fd
                  THEN First(AfterPayload(seg), WriteMax) ELSE << >>
    /\ UNCHANGED <<snd_nxt, our_isn, active, connected, fin_sent, remote_eof, fd, timers, recvvars,
                   efd, closes>>

-----------------------------------------------------------------------------
(* tcp_pump_locked: new data when nothing is in flight, else a retransmission *)
(* once the timer is over, else the FIN.  finPending is t->fin_pending as the *)
(* caller sees it.                                                            *)
PumpNew ==
    /\ connected /\ nxt = 0 /\ sbuf # << >>
    /\ emitted' = <<Seg({"ACK", "PSH"}, snd_nxt, rcv_nxt, First(sbuf, MSS))>>
    /\ nxt' = Least(MSS, Len(sbuf))
    /\ snd_nxt' = SeqAdd(snd_nxt, Least(MSS, Len(sbuf)))
    /\ rtoOver' = FALSE
    /\ UNCHANGED fin_sent

\* mutants: retransmission numbered from snd_nxt / with the length of what is queued
PumpRetransmitFromNxt ==
    /\ connected /\ nxt > 0 /\ rtoOver
    /\ emitted' = <<Seg({"ACK", "PSH"}, snd_nxt, rcv_nxt, First(sbuf, nxt))>>
    /\ rtoOver' = FALSE
    /\ UNCHANGED <<nxt, snd_nxt, fin_sent>>
PumpRetransmitQueued ==
    /\ connected /\ nxt > 0 /\ rtoOver
    /\ emitted' = <<Seg({"ACK", "PSH"}, snd_una, rcv_nxt, First(sbuf, Len(sbuf) - nxt))>>
    /\ rtoOver' = FALSE
    /\ UNCHANGED <<nxt, snd_nxt, fin_sent>>

PumpRetransmit ==
    /\ connected /\ nxt > 0 /\ rtoOver
    /\ emitted' = <<Seg({"ACK", "PSH"}, snd_una, rcv_nxt, First(sbuf, nxt))>>
    /\ rtoOver' = FALSE
    /\ UNCHANGED <<nxt, snd_nxt, fin_sent>>

\* mutant: the FIN takes no sequence number
PumpFinUncounted(finPending) ==
    /\ connected /\ nxt = 0 /\ sbuf = << >>
    /\ finPending /\ ~fin_sent
    /\ emitted' = <<Seg({"FIN", "ACK"}, snd_nxt, rcv_nxt, << >>)>>
    /\ fin_sent' = TRUE
    /\ UNCHANGED <<nxt, rtoOver, snd_nxt>>

PumpFin(finPending) ==
    /\ connected /\ nxt = 0 /\ sbuf = << >>
    /\ finPending /\ ~fin_sent
    /\ emitted' = <<Seg({"FIN", "ACK"}, snd_nxt, rcv_nxt, << >>)>>
    /\ snd_nxt' = SeqAdd(snd_nxt, 1)
    /\ fin_sent' = TRUE
    /\ UNCHANGED <<nxt, rtoOver>>

PumpIdle(finPending) ==
    /\ \/ ~connected
       \/ nxt > 0 /\ ~rtoOver
       \/ nxt = 0 /\ sbuf = << >> /\ (fin_sent \/ ~finPending)
    /\ emitted' = << >>
    /\ UNCHANGED <<nxt, snd_nxt, fin_sent, rtoOver>>

Pump(finPending) ==
    \/ PumpNew
    \/ PumpRetransmit
    \/ PumpFin(finPending)
    \/ PumpIdle(finPending)

-----------------------------------------------------------------------------
(* Receiver thread: tcp_recv_func.                                          *)

\* connect() failed: RST to the guest, the fd taken for closing
ConnectFail ==
    /\ pc = "connect"
    /\ emitted' = <<Seg({"RST"}, snd_nxt, rcv_nxt, << >>)>>
    /\ active' = FALSE
    /\ lfd' = fd /\ fd' = FALSE
    /\ pc' = "close"
    /\ written' = << >>
    /\ UNCHANGED <<bufvars, rcv_nxt, our_isn, state, connected, fin_pending, fin_sent, remote_eof,
                   close_requested, timers, boot, emuvars, closes>>

\* connect() succeeded: what the guest queued meanwhile is copied to boot_buf,
\* when it fits; when it does not, as many unset bytes of boot_buf go out instead
ConnectOk ==
    /\ pc = "connect"
    /\ connected' = TRUE
    /\ boot' = IF Len(sbuf) <= BootMax THEN sbuf ELSE [i \in 1 .. Len(sbuf) |-> Junk]
    /\ lfd' = fd
    /\ pc' = "boot"
    /\ emitted' = << >> /\ written' = << >>
    /\ UNCHANGED <<bufvars, rcv_nxt, our_isn, state, active, fin_pending, fin_sent, remote_eof,
                   close_requested, fd, timers, emuvars, closes>>

\* write(fd, boot_buf, boot_len) with the lock dropped
BootWrite ==
    /\ pc = "boot"
    /\ written' = IF lfd THEN boot ELSE << >>
    /\ boot' = << >>
    /\ pc' = "check"
    /\ emitted' = << >>
    /\ UNCHANGED <<bufvars, rcv_nxt, our_isn, state, flowvars, fd, timers, lfd, emuvars, closes>>

\* lock again: a session deactivated meanwhile is closed
BootCheck ==
    /\ pc = "check"
    /\ IF active THEN /\ pc' = "top"
                      /\ UNCHANGED <<fd, lfd>>
                 ELSE /\ pc' = "close"
                      /\ lfd' = fd /\ fd' = FALSE
    /\ emitted' = << >> /\ written' = << >>
    /\ UNCHANGED <<bufvars, rcv_nxt, our_isn, state, flowvars, timers, boot, emuvars, closes>>

\* top of the loop, session deactivated: take the fd and leave
LoopInactive ==
    /\ pc = "top" /\ ~active
    /\ lfd' = fd /\ fd' = FALSE
    /\ pc' = "close"
    /\ emitted' = << >> /\ written' = << >>
    /\ UNCHANGED <<bufvars, rcv_nxt, our_isn, state, flowvars, timers, boot, emuvars, closes>>

\* mutant: no grace period
WindDownNoGrace == close_requested /\ sbuf = << >>

\* winding down, and everything is acknowledged or the grace period is over
WindDown == close_requested /\ (sbuf = << >> \/ graceOver)

\* mutant: the close test comes before the pump
LoopCloseUnpumped ==
    /\ pc = "top" /\ active
    /\ WindDown
    /\ lfd' = fd /\ fd' = FALSE
    /\ active' = FALSE
    /\ pc' = "close"
    /\ emitted' = << >> /\ written' = << >>
    /\ UNCHANGED <<bufvars, rcv_nxt, our_isn, state, connected, fin_pending, fin_sent, remote_eof,
                   close_requested, timers, boot, emuvars, closes>>

LoopClose ==
    /\ pc = "top" /\ active
    /\ Pump(fin_pending)
    /\ WindDown
    /\ lfd' = fd /\ fd' = FALSE
    /\ active' = FALSE
    /\ pc' = "close"
    /\ written' = << >>
    /\ UNCHANGED <<sbuf, snd_una, rcv_nxt, our_isn, state, connected, fin_pending, remote_eof,
                   close_requested, graceOver, boot, emuvars, closes>>

\* end of file is sticky: pump, sleep, start over
LoopDrain ==
    /\ pc = "top" /\ active
    /\ Pump(fin_pending)
    /\ ~WindDown /\ remote_eof
    /\ written' = << >>
    /\ UNCHANGED <<sbuf, snd_una, rcv_nxt, our_isn, state, active, connected, fin_pending, remote_eof,
                   close_requested, fd, graceOver, recvvars, emuvars, closes>>

\* mutant: the loop does not look at active
LoopRecvBlind ==
    /\ pc = "top"
    /\ Pump(fin_pending)
    /\ ~WindDown /\ ~remote_eof
    /\ lfd' = fd
    /\ pc' = "recv"
    /\ written' = << >>
    /\ UNCHANGED <<sbuf, snd_una, rcv_nxt, our_isn, state, active, connected, fin_pending, remote_eof,
                   close_requested, fd, graceOver, boot, emuvars, closes>>

LoopRecv ==
    /\ pc = "top" /\ active
    /\ Pump(fin_pending)
    /\ ~WindDown /\ ~remote_eof
    /\ lfd' = fd
    /\ pc' = "recv"
    /\ written' = << >>
    /\ UNCHANGED <<sbuf, snd_una, rcv_nxt, our_isn, state, active, connected, fin_pending, remote_eof,
                   close_requested, fd, graceOver, boot, emuvars, closes>>

\* recv() returned bytes
RecvData(chunk) ==
    /\ pc = "recv"
    /\ sbuf' = Store(sbuf, chunk)
    /\ pc' = "top"
    /\ emitted' = << >> /\ written' = << >>
    /\ UNCHANGED <<nxt, snd_una, snd_nxt, rcv_nxt, our_isn, state, flowvars, fd, timers, lfd, boot,
                   emuvars, closes>>

\* recv() returned 0: the server closed; pump with the FIN now pending
RecvEof ==
    /\ pc = "recv"
    /\ remote_eof' = TRUE /\ fin_pending' = TRUE /\ close_requested' = TRUE
    /\ Pump(TRUE)
    /\ pc' = "top"
    /\ written' = << >>
    /\ UNCHANGED <<sbuf, snd_una, rcv_nxt, our_isn, state, active, connected, fd, graceOver, lfd, boot,
                   emuvars, closes>>

\* SO_RCVTIMEO expired
RecvTimeout ==
    /\ pc = "recv"
    /\ pc' = "top"
    /\ emitted' = << >> /\ written' = << >>
    /\ UNCHANGED <<bufvars, rcv_nxt, our_isn, state, flowvars, fd, timers, lfd, boot, emuvars, closes>>

\* any other error deactivates the session
RecvError ==
    /\ pc = "recv"
    /\ active' = FALSE
    /\ pc' = "top"
    /\ emitted' = << >> /\ written' = << >>
    /\ UNCHANGED <<bufvars, rcv_nxt, our_isn, state, connected, fin_pending, fin_sent, remote_eof,
                   close_requested, fd, timers, lfd, boot, emuvars, closes>>

\* close() of the fd taken under the lock, then thread_done
ThreadClose ==
    /\ pc = "close"
    /\ closes' = IF lfd THEN closes + 1 ELSE closes
    /\ lfd' = FALSE
    /\ pc' = "done"
    /\ emitted' = << >> /\ written' = << >>
    /\ UNCHANGED <<bufvars, rcv_nxt, our_isn, state, flowvars, fd, timers, boot, emuvars>>

-----------------------------------------------------------------------------
(* Emulator thread: reap_tcp_locked (run by the creation of a later session) *)
(* and ether_exit.                                                           *)
\* mutant: the reaper does not wait for thread_done
ReapEarly ==
    /\ epc = "run" /\ ~active
    /\ closes' = IF fd THEN closes + 1 ELSE closes
    /\ fd' = FALSE
    /\ epc' = "freed"
    /\ emitted' = << >> /\ written' = << >>
    /\ UNCHANGED <<bufvars, rcv_nxt, our_isn, state, flowvars, timers, recvvars, efd>>

Reap ==
    /\ epc = "run" /\ ~active /\ pc = "done"
    /\ closes' = IF fd THEN closes + 1 ELSE closes
    /\ fd' = FALSE
    /\ epc' = "freed"
    /\ emitted' = << >> /\ written' = << >>
    /\ UNCHANGED <<bufvars, rcv_nxt, our_isn, state, flowvars, timers, recvvars, efd>>

\* mutant: the session stays active
ExitMarkActive ==
    /\ epc = "run"
    /\ efd' = fd /\ fd' = FALSE
    /\ epc' = "exit_close"
    /\ emitted' = << >> /\ written' = << >>
    /\ UNCHANGED <<bufvars, rcv_nxt, our_isn, state, flowvars, timers, recvvars, closes>>

ExitMark ==
    /\ epc = "run"
    /\ active' = FALSE
    /\ efd' = fd /\ fd' = FALSE
    /\ epc' = "exit_close"
    /\ emitted' = << >> /\ written' = << >>
    /\ UNCHANGED <<bufvars, rcv_nxt, our_isn, state, connected, fin_pending, fin_sent, remote_eof,
                   close_requested, timers, recvvars, closes>>

ExitClose ==
    /\ epc = "exit_close"
    /\ closes' = IF efd THEN closes + 1 ELSE closes
    /\ efd' = FALSE
    /\ epc' = "exit_join"
    /\ emitted' = << >> /\ written' = << >>
    /\ UNCHANGED <<bufvars, rcv_nxt, our_isn, state, flowvars, fd, timers, recvvars>>

\* pthread_join returned; the session is freed
ExitJoin ==
    /\ epc = "exit_join" /\ pc = "done"
    /\ epc' = "freed"
    /\ emitted' = << >> /\ written' = << >>
    /\ UNCHANGED <<bufvars, rcv_nxt, our_isn, state, flowvars, fd, timers, recvvars, efd, closes>>

-----------------------------------------------------------------------------
\* the clock passes last_send + TCP_RETRANS_USEC / close_start + TCP_CLOSE_GRACE_USEC
RtoExpires ==
    /\ ~rtoOver /\ rtoOver' = TRUE
    /\ emitted' = << >> /\ written' = << >>
    /\ UNCHANGED <<bufvars, rcv_nxt, our_isn, state, flowvars, fd, graceOver, recvvars, emuvars, closes>>

GraceExpires ==
    /\ close_requested /\ ~graceOver /\ graceOver' = TRUE
    /\ emitted' = << >> /\ written' = << >>
    /\ UNCHANGED <<bufvars, rcv_nxt, our_isn, state, flowvars, fd, rtoOver, recvvars, emuvars, closes>>

-----------------------------------------------------------------------------
ConnectReturns == ConnectFail \/ ConnectOk
LoopTop == LoopInactive \/ LoopClose \/ LoopDrain \/ LoopRecv
RecvReturns == \/ \E chunk \in ServerChunks : RecvData(chunk)
               \/ RecvEof \/ RecvTimeout \/ RecvError

Forward == \E seg \in GuestSegs : ForwardRst(seg) \/ ForwardSegment(seg)
Receiver == ConnectReturns \/ BootWrite \/ BootCheck \/ LoopTop \/ RecvReturns \/ ThreadClose
Emulator == Find \/ Forward \/ Reap \/ ExitMark \/ ExitClose \/ ExitJoin
Clock == RtoExpires \/ GraceExpires

Step == Receiver \/ Emulator \/ Clock

\* every step, with the count of segments a deactivated session still emits
Counted(A) == A /\ late' = late + (IF active THEN 0 ELSE Len(emitted'))

Next ==
    \/ Counted(Step)
    \/ epc = "freed" /\ UNCHANGED vars

Spec == Init /\ [][Next]_vars

\* The receiver thread is scheduled, its recv() carries SO_RCVTIMEO and connect() returns (a
\* close() by ether_exit aborts it); the clock advances; the emulator thread ends what it began.
Fairness ==
    /\ WF_vars(Counted(ConnectReturns)) /\ WF_vars(Counted(BootWrite)) /\ WF_vars(Counted(BootCheck))
    /\ WF_vars(Counted(LoopTop)) /\ WF_vars(Counted(RecvReturns)) /\ WF_vars(Counted(ThreadClose))
    /\ WF_vars(Counted(GraceExpires))
    /\ WF_vars(Counted(Forward)) /\ WF_vars(Counted(ExitClose)) /\ WF_vars(Counted(ExitJoin))

FairSpec == Spec /\ Fairness

-----------------------------------------------------------------------------
(* Properties *)

TypeOK ==
    /\ sbuf \in Seq(Byte) /\ nxt \in Nat
    /\ snd_una \in SeqNo /\ snd_nxt \in SeqNo /\ rcv_nxt \in SeqNo /\ our_isn \in SeqNo
    /\ state \in {"SYN_RECV", "ESTABLISHED"}
    /\ active \in BOOLEAN /\ connected \in BOOLEAN
    /\ fin_pending \in BOOLEAN /\ fin_sent \in BOOLEAN
    /\ remote_eof \in BOOLEAN /\ close_requested \in BOOLEAN
    /\ fd \in BOOLEAN /\ rtoOver \in BOOLEAN /\ graceOver \in BOOLEAN
    /\ pc \in RecvPlace /\ lfd \in BOOLEAN /\ boot \in Seq(Byte \cup {Junk})
    /\ epc \in EmuPlace /\ efd \in BOOLEAN
    /\ closes \in Nat /\ late \in Nat
    /\ emitted \in Seq(Segment) /\ written \in Seq(Byte \cup {Junk})

\* The send buffer and the sequence numbers stay in step through sends, partial and
\* excessive ACKs, compaction and the FIN: snd_nxt is snd_una plus the bytes in flight
\* plus the FIN (tcp_pump_locked against forward_tcp's ACK branch).
SeqAccounting == snd_nxt = SeqAdd(snd_una, nxt + (IF fin_sent THEN 1 ELSE 0))

\* "Stop-and-wait sender": at most one segment is in flight, all of it is still buffered,
\* and the buffer never outgrows sbuf.  A retransmission of the whole flight therefore fits
\* the 1500-byte stack buffers of emit_tcp.
StopAndWait == nxt <= MSS /\ nxt <= Len(sbuf) /\ Len(sbuf) <= SbufCap

\* The send window: accounting and stop-and-wait at every step of tcp_pump_locked and forward_tcp.
WindowSound == SeqAccounting /\ StopAndWait

\* The real socket is closed once however the receiver's own exit, the reaper and
\* ether_exit interleave, and no fd is left behind when the session is freed.
ClosedExactlyOnce == closes <= 1 /\ (epc = "freed" => closes = 1 /\ pc = "done")

\* The emulator thread never closes the socket under an armed connect(), write() or recv()
\* of the receiver (the hazard forward_tcp's FIN comment describes), except in ether_exit.
ArmedSocketStaysOpen ==
    epc \in {"run", "found", "freed"} /\ (pc \in {"connect", "recv"} \/ (pc = "boot" /\ lfd)) => closes = 0

\* The session's socket: closed once, and never under the receiver's own call.
SocketSafe == ClosedExactlyOnce /\ ArmedSocketStaysOpen

\* A session deactivated by a guest RST, an error or ether_exit falls silent: all it may still
\* enqueue is the one segment its receiver was about to send, or the two ACKs of a segment
\* forward_tcp had looked it up for.
DeadSessionFallsSilent == late <= 2

\* Bytes in flight keep their value and their sequence number until the guest acknowledges
\* them, so that a retransmission repeats what was sent: a step that moves snd_una by k
\* drops exactly the first k bytes of the flight.
FlightStable ==
    LET k == SeqDiff(snd_una', snd_una)
    IN  /\ 0 <= k /\ k <= nxt
        /\ Len(sbuf') >= nxt - k
        /\ \A i \in 1 .. nxt - k : sbuf'[i] = sbuf[i + k]
FlightStableAlways == [][FlightStable]_vars

\* A session that ends because everything was acknowledged has sent its FIN, whichever side
\* began the close ("answer with our own FIN", "send our FIN to the guest and wind the
\* session down"); only the grace period ends one without.
OrderlyClose == pc = "top" /\ active /\ pc' = "close" => fin_sent' \/ sbuf # << >>
OrderlyCloseAlways == [][OrderlyClose]_vars

\* Once winding down, the session's socket is closed, even towards a guest that never
\* acknowledges (the grace period).
CloseCompletes == close_requested ~> pc = "done"

\* ether_exit's join of the receiver always returns.
ExitCompletes == epc = "exit_close" ~> epc = "freed"

-----------------------------------------------------------------------------
(* The inductive invariant behind the safety properties *)

BoolNat(b) == IF b THEN 1 ELSE 0

\* Exactly one party holds the open socket: the session field, the receiver on its way
\* out, ether_exit, or nobody because it is closed.
FdOwnership ==
    /\ closes + BoolNat(fd) + BoolNat(pc = "close" /\ lfd) + BoolNat(efd) = 1
    /\ efd => epc = "exit_close"
    /\ epc \notin {"run", "found"} => ~fd
    /\ epc \in {"run", "found"} /\ pc \notin {"close", "done"} => fd
    /\ pc \in {"close", "done"} => ~fd
    /\ epc = "freed" => pc = "done"

\* Where the receiver is once something was sent too late, and when forward_tcp may still
\* send: only a session its own receiver deactivated is found and dead.
LateBound ==
    /\ late <= 2
    /\ active => late = 0
    /\ late > 0 => pc \in {"top", "close", "done"}
    /\ epc = "found" /\ ~active => late = 0 /\ pc \in {"top", "close", "done"}

\* What winding down presupposes: the FIN is due, and the receiver's loop runs connected.
WindingDown ==
    /\ close_requested => fin_pending
    /\ pc \in {"boot", "check", "top", "recv"} => connected

IInv == TypeOK /\ SeqAccounting /\ StopAndWait /\ FdOwnership /\ LateBound /\ WindingDown
=============================================================================
