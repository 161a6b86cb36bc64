------------------------------- MODULE UdpNat -------------------------------
(***************************************************************************)
(* The UDP and ICMP side of the macemu NAT (macemu/src/ewok/ether_ewok.cpp): *)
(* the list of UDP sessions, each with a socket and a receiver thread, the *)
(* idle expiry, the reaper, the shared ICMP socket and ether_exit.         *)
(*                                                                         *)
(* The emulator thread runs ether_write and ether_exit.  Socket numbers    *)
(* are reused by the system as soon as they are closed, which is why a     *)
(* session's number must never outlive its socket.                         *)
(***************************************************************************)
EXTENDS Naturals, FiniteSets, Sequences

CONSTANTS
    Sessions,  \* every udp_session ever allocated
    Keys,      \* (guest port, remote ip, remote port)
    Fds,       \* socket numbers
    Icmp,      \* the owner of the ICMP socket
    NoKey, NoFd, Nobody

ASSUME UdpAssumption ==
    /\ IsFiniteSet(Sessions) /\ IsFiniteSet(Fds)
    /\ Icmp \notin Sessions /\ Nobody \notin Sessions \cup {Icmp}
    /\ NoFd \notin Fds /\ NoKey \notin Keys

VARIABLES
    \* the session list and the fields of each session
    udp_list,                     \* sessions, newest first
    allocated, freed,             \* calloc'ed / free'd so far
    key, active, thread_done, ewok_fd,
    idle,                         \* UDP_IDLE_USEC have passed since last_rx
    \* the receiver thread of each session
    rpc, rfd,                     \* place; the fd taken for closing
    \* ICMP
    icmp_fd, ipc,
    \* the emulator thread
    net_active, epc,
    want,                         \* the tuple forward_udp creates a session for
    cursor,                       \* the reaper's place in udp_list
    dying,                        \* sessions detached by ether_exit, still to be joined
    udp_mutex,                    \* its holder
    \* the system
    sock                          \* the owner of each socket number

fields == <<key, active, thread_done, ewok_fd, idle>>
memory == <<udp_list, allocated, freed>>
threads == <<rpc, rfd>>
icmpvars == <<icmp_fd, ipc>>
emuvars == <<net_active, epc, want, cursor, dying>>
vars == <<memory, fields, threads, icmpvars, emuvars, udp_mutex, sock>>

Emu == "emulator"
Owner == Sessions \cup {Icmp, Nobody}
RecvPlace == {"none", "loop", "recv", "expire", "close", "done", "returned"}
IcmpPlace == {"none", "loop", "recv", "returned"}
EmuPlace == {"run", "reap", "create", "exit_icmp", "exit_detach", "exit_join", "exited", "wedged"}

RemoveAt(s, i) == SubSeq(s, 1, i - 1) \o SubSeq(s, i + 1, Len(s))

FreeFds == {f \in Fds : sock[f] = Nobody}

\* sock once the number f is closed
Closed(f) == IF f = NoFd THEN sock ELSE [sock EXCEPT ![f] = Nobody]

\* find_udp_session
Matches(k) == {i \in DOMAIN udp_list : active[udp_list[i]] /\ key[udp_list[i]] = k}

-----------------------------------------------------------------------------
\* ether_init: the ICMP socket is opened and its receiver started, if there is a socket
Init ==
    /\ udp_list = << >> /\ allocated = {} /\ freed = {}
    /\ key = [s \in Sessions |-> NoKey]
    /\ active = [s \in Sessions |-> FALSE]
    /\ thread_done = [s \in Sessions |-> FALSE]
    /\ ewok_fd = [s \in Sessions |-> NoFd]
    /\ idle = [s \in Sessions |-> FALSE]
    /\ rpc = [s \in Sessions |-> "none"]
    /\ rfd = [s \in Sessions |-> NoFd]
    /\ net_active = TRUE /\ epc = "run" /\ want = NoKey /\ cursor = 1 /\ dying = << >>
    /\ udp_mutex = Nobody
    /\ \/ /\ icmp_fd = NoFd /\ ipc = "none"
          /\ sock = [f \in Fds |-> Nobody]
       \/ /\ icmp_fd \in Fds /\ ipc = "loop"
          /\ sock = [f \in Fds |-> IF f = icmp_fd THEN Icmp ELSE Nobody]

-----------------------------------------------------------------------------
(* Emulator thread: forward_udp.                                            *)

\* the tuple has a session: sendto() on its socket, inside one locked section
ForwardKnown(k) ==
    /\ epc = "run" /\ udp_mutex = Nobody
    /\ Matches(k) # {}
    /\ UNCHANGED vars

\* it has none: keep the lock and create one
ForwardUnknown(k) ==
    /\ epc = "run" /\ udp_mutex = Nobody
    /\ Matches(k) = {}
    /\ udp_mutex' = Emu
    /\ want' = k /\ cursor' = 1
    /\ epc' = "reap"
    /\ UNCHANGED <<memory, fields, threads, icmpvars, net_active, dying, sock>>

\* reap_udp_locked: a session still in use is passed over
ReapSkip ==
    /\ epc = "reap" /\ cursor <= Len(udp_list)
    /\ LET s == udp_list[cursor] IN active[s] \/ ~thread_done[s]
    /\ cursor' = cursor + 1
    /\ UNCHANGED <<memory, fields, threads, icmpvars, net_active, epc, want, dying, udp_mutex, sock>>

\* mutant: an inactive session is freed whether or not its receiver is finished
ReapUnjoined ==
    /\ epc = "reap" /\ cursor <= Len(udp_list)
    /\ LET s == udp_list[cursor]
       IN  /\ ~active[s]
           /\ udp_list' = RemoveAt(udp_list, cursor)
           /\ sock' = Closed(ewok_fd[s])
           /\ freed' = freed \cup {s}
    /\ UNCHANGED <<allocated, fields, threads, icmpvars, emuvars, udp_mutex>>

\* a finished one is unlinked, joined (udp_mutex held), closed and freed
ReapJoin ==
    /\ epc = "reap" /\ cursor <= Len(udp_list)
    /\ LET s == udp_list[cursor]
       IN  /\ ~active[s] /\ thread_done[s]
           /\ rpc[s] = "returned"
           /\ udp_list' = RemoveAt(udp_list, cursor)
           /\ sock' = Closed(ewok_fd[s])
           /\ freed' = freed \cup {s}
    /\ UNCHANGED <<allocated, fields, threads, icmpvars, emuvars, udp_mutex>>

ReapEnd ==
    /\ epc = "reap" /\ cursor > Len(udp_list)
    /\ epc' = "create"
    /\ UNCHANGED <<memory, fields, threads, icmpvars, net_active, want, cursor, dying, udp_mutex, sock>>

\* create_udp_session_locked, then the sendto() on the new socket
CreateSession(s, f) ==
    /\ epc = "create" /\ s \notin allocated /\ f \in FreeFds
    /\ allocated' = allocated \cup {s}
    /\ key' = [key EXCEPT ![s] = want]
    /\ active' = [active EXCEPT ![s] = TRUE]
    /\ ewok_fd' = [ewok_fd EXCEPT ![s] = f]
    /\ sock' = [sock EXCEPT ![f] = s]
    /\ rpc' = [rpc EXCEPT ![s] = "loop"]
    /\ udp_list' = <<s>> \o udp_list
    /\ udp_mutex' = Nobody /\ epc' = "run" /\ want' = NoKey
    /\ UNCHANGED <<freed, thread_done, idle, rfd, icmpvars, net_active, cursor, dying>>

\* calloc() or socket() failed: the datagram is dropped
CreateFails ==
    /\ epc = "create"
    /\ udp_mutex' = Nobody /\ epc' = "run" /\ want' = NoKey
    /\ UNCHANGED <<memory, fields, threads, icmpvars, net_active, cursor, dying, sock>>

\* forward_icmp -> ensure_icmp_fd: opens the socket ether_init could not open
ForwardIcmp(f) ==
    /\ epc = "run" /\ icmp_fd = NoFd /\ f \in FreeFds
    /\ icmp_fd' = f
    /\ sock' = [sock EXCEPT ![f] = Icmp]
    /\ UNCHANGED <<memory, fields, threads, ipc, emuvars, udp_mutex>>

-----------------------------------------------------------------------------
(* Receiver thread of session s: udp_recv_func.                             *)
RecvLoop(s) ==
    /\ rpc[s] = "loop"
    /\ rpc' = [rpc EXCEPT ![s] = IF net_active /\ active[s] THEN "recv" ELSE "done"]
    /\ UNCHANGED <<memory, fields, rfd, icmpvars, emuvars, udp_mutex, sock>>

\* a datagram is wrapped and enqueued for the guest
RecvDatagram(s) ==
    /\ rpc[s] = "recv"
    /\ idle' = [idle EXCEPT ![s] = FALSE]
    /\ rpc' = [rpc EXCEPT ![s] = "loop"]
    /\ UNCHANGED <<memory, key, active, thread_done, ewok_fd, rfd, icmpvars, emuvars, udp_mutex, sock>>

\* mutant: no idle expiry
RecvNothingForever(s) ==
    /\ rpc[s] = "recv"
    /\ rpc' = [rpc EXCEPT ![s] = "loop"]
    /\ UNCHANGED <<memory, fields, rfd, icmpvars, emuvars, udp_mutex, sock>>

\* SO_RCVTIMEO or an error
RecvNothing(s) ==
    /\ rpc[s] = "recv"
    /\ rpc' = [rpc EXCEPT ![s] = IF idle[s] THEN "expire" ELSE "loop"]
    /\ UNCHANGED <<memory, fields, rfd, icmpvars, emuvars, udp_mutex, sock>>

\* mutant: the session keeps the fd its receiver closes
ExpireKeepsFd(s) ==
    /\ rpc[s] = "expire" /\ udp_mutex = Nobody
    /\ active' = [active EXCEPT ![s] = FALSE]
    /\ rfd' = [rfd EXCEPT ![s] = ewok_fd[s]]
    /\ rpc' = [rpc EXCEPT ![s] = "close"]
    /\ UNCHANGED <<memory, key, thread_done, ewok_fd, idle, icmpvars, emuvars, udp_mutex, sock>>

\* idle expiry: deactivate and take the fd under udp_mutex
Expire(s) ==
    /\ rpc[s] = "expire" /\ udp_mutex = Nobody
    /\ active' = [active EXCEPT ![s] = FALSE]
    /\ rfd' = [rfd EXCEPT ![s] = ewok_fd[s]]
    /\ ewok_fd' = [ewok_fd EXCEPT ![s] = NoFd]
    /\ rpc' = [rpc EXCEPT ![s] = "close"]
    /\ UNCHANGED <<memory, key, thread_done, idle, icmpvars, emuvars, udp_mutex, sock>>

CloseExpired(s) ==
    /\ rpc[s] = "close"
    /\ sock' = Closed(rfd[s])
    /\ rfd' = [rfd EXCEPT ![s] = NoFd]
    /\ rpc' = [rpc EXCEPT ![s] = "done"]
    /\ UNCHANGED <<memory, fields, icmpvars, emuvars, udp_mutex>>

PublishDone(s) ==
    /\ rpc[s] = "done" /\ ~thread_done[s]
    /\ thread_done' = [thread_done EXCEPT ![s] = TRUE]
    /\ UNCHANGED <<memory, key, active, ewok_fd, idle, threads, icmpvars, emuvars, udp_mutex, sock>>

\* mutant: the receiver takes udp_mutex once more after publishing thread_done
ReturnLocking(s) ==
    /\ rpc[s] = "done" /\ thread_done[s] /\ udp_mutex = Nobody
    /\ rpc' = [rpc EXCEPT ![s] = "returned"]
    /\ UNCHANGED <<memory, fields, rfd, icmpvars, emuvars, udp_mutex, sock>>

Return(s) ==
    /\ rpc[s] = "done" /\ thread_done[s]
    /\ rpc' = [rpc EXCEPT ![s] = "returned"]
    /\ UNCHANGED <<memory, fields, rfd, icmpvars, emuvars, udp_mutex, sock>>

\* the clock passes last_rx + UDP_IDLE_USEC
GoesIdle(s) ==
    /\ rpc[s] \in {"loop", "recv"} /\ ~idle[s]
    /\ idle' = [idle EXCEPT ![s] = TRUE]
    /\ UNCHANGED <<memory, key, active, thread_done, ewok_fd, threads, icmpvars, emuvars, udp_mutex, sock>>

-----------------------------------------------------------------------------
(* ICMP receiver: icmp_recv_func.                                           *)
IcmpLoop ==
    /\ ipc = "loop"
    /\ ipc' = IF net_active THEN "recv" ELSE "returned"
    /\ UNCHANGED <<memory, fields, threads, icmp_fd, emuvars, udp_mutex, sock>>

\* recvfrom() returns with or without a packet
IcmpRecv ==
    /\ ipc = "recv"
    /\ ipc' = "loop"
    /\ UNCHANGED <<memory, fields, threads, icmp_fd, emuvars, udp_mutex, sock>>

-----------------------------------------------------------------------------
(* Emulator thread: ether_exit.                                             *)
ExitBegin ==
    /\ epc = "run"
    /\ net_active' = FALSE
    /\ epc' = IF icmp_fd = NoFd THEN "exit_detach" ELSE "exit_icmp"
    /\ UNCHANGED <<memory, fields, threads, icmpvars, want, cursor, dying, udp_mutex, sock>>

\* pthread_join of the ICMP receiver, then its socket is closed
ExitIcmp ==
    /\ epc = "exit_icmp" /\ ipc \in {"returned", "none"}
    /\ sock' = Closed(icmp_fd)
    /\ icmp_fd' = NoFd
    /\ epc' = "exit_detach"
    /\ UNCHANGED <<memory, fields, threads, ipc, net_active, want, cursor, dying, udp_mutex>>

\* the join of a thread that was never created is undefined: it may also hang
ExitIcmpWedges ==
    /\ epc = "exit_icmp" /\ ipc = "none"
    /\ epc' = "wedged"
    /\ UNCHANGED <<memory, fields, threads, icmpvars, net_active, want, cursor, dying, udp_mutex, sock>>

\* mutant: the lock is kept over the joins
ExitDetachLocked ==
    /\ epc = "exit_detach" /\ udp_mutex = Nobody
    /\ active' = [s \in Sessions |-> active[s] /\ \A i \in DOMAIN udp_list : udp_list[i] # s]
    /\ dying' = udp_list
    /\ udp_list' = << >>
    /\ epc' = "exit_join"
    /\ udp_mutex' = Emu
    /\ UNCHANGED <<allocated, freed, key, thread_done, ewok_fd, idle, threads, icmpvars, net_active,
                   want, cursor, sock>>

\* phase one: mark and detach every session under udp_mutex
ExitDetach ==
    /\ epc = "exit_detach" /\ udp_mutex = Nobody
    /\ active' = [s \in Sessions |-> active[s] /\ \A i \in DOMAIN udp_list : udp_list[i] # s]
    /\ dying' = udp_list
    /\ udp_list' = << >>
    /\ epc' = "exit_join"
    /\ UNCHANGED <<allocated, freed, key, thread_done, ewok_fd, idle, threads, icmpvars, net_active,
                   want, cursor, udp_mutex, sock>>

\* phase two: join, close what the receiver did not, free
ExitJoin ==
    /\ epc = "exit_join" /\ dying # << >>
    /\ rpc[Head(dying)] = "returned"
    /\ sock' = Closed(ewok_fd[Head(dying)])
    /\ freed' = freed \cup {Head(dying)}
    /\ dying' = Tail(dying)
    /\ UNCHANGED <<udp_list, allocated, fields, threads, icmpvars, net_active, epc, want, cursor,
                   udp_mutex>>

ExitEnd ==
    /\ epc = "exit_join" /\ dying = << >>
    /\ epc' = "exited"
    /\ UNCHANGED <<memory, fields, threads, icmpvars, net_active, want, cursor, dying, udp_mutex, sock>>

-----------------------------------------------------------------------------
Reap == ReapSkip \/ ReapJoin \/ ReapEnd
Create == CreateFails \/ \E s \in Sessions, f \in Fds : CreateSession(s, f)
Forward == \/ \E k \in Keys : ForwardKnown(k) \/ ForwardUnknown(k)
           \/ \E f \in Fds : ForwardIcmp(f)
Exit == ExitBegin \/ ExitIcmp \/ ExitIcmpWedges \/ ExitDetach \/ ExitJoin \/ ExitEnd
RecvReturns(s) == RecvDatagram(s) \/ RecvNothing(s)
Receiver(s) ==
    RecvLoop(s) \/ RecvReturns(s) \/ Expire(s) \/ CloseExpired(s) \/ PublishDone(s) \/ Return(s)

Next ==
    \/ Forward \/ Reap \/ Create \/ Exit
    \/ \E s \in Sessions : Receiver(s) \/ GoesIdle(s)
    \/ IcmpLoop \/ IcmpRecv
    \/ epc \in {"exited", "wedged"} /\ UNCHANGED vars

Spec == Init /\ [][Next]_vars

\* Threads are scheduled and recvfrom() returns within SO_RCVTIMEO; forward_udp and ether_exit,
\* once begun, go on.  udp_mutex is not assumed fair, but a receiver gets it in the end.
Fairness ==
    /\ WF_vars(Reap \/ Create) /\ WF_vars(ExitIcmp \/ ExitDetach \/ ExitJoin \/ ExitEnd)
    /\ WF_vars(IcmpLoop \/ IcmpRecv)
    /\ \A s \in Sessions :
        /\ SF_vars(Expire(s))
        /\ WF_vars(RecvLoop(s) \/ RecvReturns(s) \/ CloseExpired(s) \/ PublishDone(s) \/ Return(s))

FairSpec == Spec /\ Fairness

-----------------------------------------------------------------------------
(* Properties *)

TypeOK ==
    /\ udp_list \in Seq(Sessions) /\ dying \in Seq(Sessions)
    /\ allocated \subseteq Sessions /\ freed \subseteq allocated
    /\ key \in [Sessions -> Keys \cup {NoKey}]
    /\ active \in [Sessions -> BOOLEAN] /\ thread_done \in [Sessions -> BOOLEAN]
    /\ ewok_fd \in [Sessions -> Fds \cup {NoFd}] /\ rfd \in [Sessions -> Fds \cup {NoFd}]
    /\ idle \in [Sessions -> BOOLEAN]
    /\ rpc \in [Sessions -> RecvPlace]
    /\ icmp_fd \in Fds \cup {NoFd} /\ ipc \in IcmpPlace
    /\ net_active \in BOOLEAN /\ epc \in EmuPlace
    /\ want \in Keys \cup {NoKey} /\ cursor \in Nat \ {0}
    /\ udp_mutex \in {Nobody, Emu}
    /\ sock \in [Fds -> Owner]

\* A tuple has one live session: forward_udp never opens a second socket for a tuple whose
\* receiver is still listening, also while expired sessions await the reaper.
OneSessionPerTuple ==
    \A s, t \in allocated : active[s] /\ active[t] /\ key[s] = key[t] => s = t

\* "a concurrent forward_udp sendto can never hit a reused fd": whatever number a session, a
\* receiver on its way out or the ICMP side still holds is its own open socket.
NoReusedFd ==
    /\ \A s \in allocated \ freed : ewok_fd[s] # NoFd => sock[ewok_fd[s]] = s
    /\ \A s \in allocated : rfd[s] # NoFd => sock[rfd[s]] = s
    /\ icmp_fd # NoFd => sock[icmp_fd] = Icmp

\* The table of forward_udp: no two sessions for a tuple, none with a socket of another.
SessionsDistinct == OneSessionPerTuple /\ NoReusedFd

\* A session is freed only after its receiver returned, and its socket is not left open.
FreedIsFinished ==
    \A s \in freed : rpc[s] = "returned" /\ \A f \in Fds : sock[f] # s

\* ether_exit destroys rx_mutex only when no receiver can still enqueue a frame, and leaves no
\* socket open.
QuietAfterExit ==
    epc = "exited" =>
        /\ \A s \in allocated : rpc[s] = "returned"
        /\ ipc \in {"none", "returned"}
        /\ \A f \in Fds : sock[f] = Nobody

\* What the reaper and ether_exit free or destroy is used by nobody any more.
TeardownClean == FreedIsFinished /\ QuietAfterExit

\* reap_udp_locked joins with udp_mutex held: "the join cannot deadlock".
ForwardReturns == epc \in {"reap", "create"} ~> epc = "run"

\* "joining while holding it could deadlock": the two phases let ether_exit finish.
ExitCompletes == epc = "exit_detach" ~> epc = "exited"

\* A mapping without inbound traffic does not keep its thread "for the whole emulator lifetime".
IdleEnds == \A s \in Sessions : rpc[s] = "recv" /\ idle[s] ~> ~idle[s] \/ rpc[s] = "returned"

\* "Pre-open the ICMP socket and start its receiver": an open ICMP socket has a receiver, which
\* ether_exit's join presupposes.
IcmpSocketHasReceiver == icmp_fd # NoFd => ipc # "none"

-----------------------------------------------------------------------------
(* The inductive invariant behind the safety properties *)

Elems(q) == {q[i] : i \in DOMAIN q}
Distinct(q) == \A i, j \in DOMAIN q : q[i] = q[j] => i = j

\* Every session in memory is in the list or, during ether_exit, among the detached; once.
ListInv ==
    /\ allocated = freed \cup Elems(udp_list) \cup Elems(dying)
    /\ freed \cap (Elems(udp_list) \cup Elems(dying)) = {}
    /\ Distinct(udp_list) /\ Distinct(dying)
    /\ epc # "exit_join" => dying = << >>
    /\ epc \in {"exit_join", "exited"} => udp_list = << >>
    /\ \A s \in Sessions : active[s] => s \in Elems(udp_list)

\* A session and its receiver: who holds the number, and where the thread is.
SessionFd(s) ==
    /\ s \notin allocated => ewok_fd[s] = NoFd /\ rfd[s] = NoFd
    /\ s \in freed => rpc[s] = "returned"
    /\ s \notin freed /\ ewok_fd[s] # NoFd => sock[ewok_fd[s]] = s
    /\ rfd[s] # NoFd => sock[rfd[s]] = s /\ rpc[s] = "close" /\ ewok_fd[s] = NoFd

\* Conversely an open socket is held by its owner, which is not freed.
SocketOwner(f) ==
    /\ sock[f] \in Sessions =>
          sock[f] \notin freed /\ (ewok_fd[sock[f]] = f \/ rfd[sock[f]] = f)
    /\ sock[f] = Icmp => icmp_fd = f

FdInv ==
    /\ \A s \in Sessions : SessionFd(s)
    /\ \A f \in Fds : SocketOwner(f)

IcmpInv ==
    /\ icmp_fd # NoFd => sock[icmp_fd] = Icmp
    /\ epc \in {"exit_detach", "exit_join", "exited"} => icmp_fd = NoFd
    /\ icmp_fd = NoFd => ipc \in {"none", "returned"}

\* While forward_udp creates a session, no live one has its tuple.
TupleInv ==
    /\ OneSessionPerTuple
    /\ epc \in {"reap", "create"} => \A s \in Sessions : active[s] => key[s] # want

IInv == TypeOK /\ ListInv /\ FdInv /\ IcmpInv /\ TupleInv
=============================================================================
