# Verification of ewokos.apps

The repository holds applications for EwokOS.  Most of its files are vendored
code (ffmpeg, litehtml, FLTK, nano-X, the BasiliskII, Mini vMac, Previous and
InfoNES emulator cores).  This project is about the code written for EwokOS around
them, where the concurrency is: the network back end of the Mac emulator, the
video player, the sound back end and the two games.

## 1. Inventory

| Component | State | Operations | What is hard |
|---|---|---|---|
| **macemu NAT, TCP proxy** `macemu/src/ewok/ether_ewok.cpp` | `tcp_list` of `tcp_session`: socket, sequence numbers, one 32 KB buffer `sbuf` with three offsets, flags, timers; one receiver thread and one lock each | `create_tcp_session`, `forward_tcp`, `tcp_pump_locked`, `tcp_recv_func`, `reap_tcp_locked`, `ether_exit` | guest segments against the receiver thread; system calls made without the lock; close ownership; wrap-around; retransmission; winding down |
| **macemu NAT, UDP and ICMP** same file | `udp_list` of `udp_session`, `udp_mutex`, one receiver thread each; `icmp_fd` with one thread | `forward_udp`, `create_udp_session_locked`, `reap_udp_locked`, `udp_recv_func`, `forward_icmp`, `icmp_recv_func`, `ether_init`, `ether_exit` | idle expiry against reuse; joins under a mutex; reuse of socket numbers |
| **macemu NAT, inbound queue** same file | `rx_head`, `rx_tail`, `rx_count` under `rx_mutex`, 64 frames | `enqueue_rx`, `EtherInterrupt`, drain in `ether_exit` | overflow drops the oldest frame of anybody |
| macemu NAT, ARP, DHCP, checksums, protocol table | `proto_handlers`, otherwise none | `handle_arp`, `handle_dhcp`, `ether_attach_ph`, `ether_detach_ph` | stateless replies; a 16-entry table |
| **macemu sound** `macemu/src/ewok/audio_pcm.cpp`, `macemu/src/audio.cpp` | feeder thread, block handshake with the emulated interrupt; open count, data area, mixer and sources of the guest's sound component | `open_audio`, `feeder_func`, `AudioInterrupt`, `AudioDispatch`, `AudioReset`, `close_audio` | answers that come late; parking when quiet; a restarted guest; join on close |
| macemu screen and input `macemu/src/ewok/video_xwin.cpp` | frame buffer copies, window, key state | redraw, mode switch, input events | events on the UI thread against the emulator |
| previous network `previous/src/ewok/enet_ewok.c` | as the macemu NAT | as the macemu NAT | the same design; start and stop are idempotent there |
| **video player** `video/libs/widget++/src/WidgetVideo` | playback flags, two packet queues, audio ring buffer, clock | play, pause, stop, seek, demuxer, two decoder threads, an output thread | five threads; pause, seek and stop in any order; back-pressure |
| browser view `browser/libs/widget++/src/WidgetWebview` | document, loads in progress, scroll and link state | load, navigate, draw | loads that finish after navigation |
| **cards (Klondike)** `cards/cards.cc` | stock, waste, 4 foundations, 7 columns, the cards dragged, the card of an animation, pressed and last clicked card, auto-finish | mouse, keys N and S, timer, resize | events between press and release; animations during which the mouse is ignored; arrays nobody checks |
| **mine (Minesweeper)** `mine/mine.cc` | board, counters kept beside it, pending click, pressed button | reveal, flag, chord, new game, timer | first cell; floods around flags; a click that waits for a second one |
| nesemu front end `nesemu/main.cpp`, doom `doom/doom.cpp`, soft3d demos | pads, audio ring, pixels | game loops | mostly single-threaded rendering |
| vendored code | - | - | out of scope |

The emulator thread (guest CPU) calls `ether_write` with a frame and
`EtherInterrupt` on the 60 Hz tick; it also runs the reapers (when a session is created)
and `ether_exit`.  Every session has a receiver thread blocked in
`recv`/`recvfrom` with a timeout.  Receivers reach the guest only through
`enqueue_rx`; the emulator thread reaches the server by writing on a session's
socket.  So the shared state is the session fields (under `t->lock`), the
lists (`tcp_mutex`, `udp_mutex`), the frame queue (`rx_mutex`) and the socket
numbers of the system.

What makes each correct:

* TCP session: sequence numbers and buffer agree; a retransmission repeats what
  was sent; the socket is closed once, never under an armed call; a dead session
  falls silent; a close sends the FIN; winding down and `ether_exit` finish;
  the guest sees the server's byte stream.
* UDP sessions: one live session per tuple; a held socket number is that session's own
  socket; nothing is freed under a running thread; no join deadlocks; idle
  mappings end; nothing runs after `ether_exit`.
* Frame queue: bounded; whatever it drops is repaired by retransmission.
* Sound ring of the player: the device gets the bytes in order, through wraps, short writes and
  seeks; nobody waits for a thread that has ended; nothing is used after the cleanup.
* Sound back end: a block is taken once and not while it is written; a parked feeder wakes up; an
  open mixer has its data area; the exit returns.
* Cards: the deck is conserved; piles obey the rules and fit their arrays; an auto-finish that begins
  ends in a win that is noticed.
* Mine: counters and board agree; a flag protects; the first cell is safe; won is cleared.
* Video player: no packet is lost, repeated or kept over a seek; workers live
  within the demultiplexer; the flags the user sees agree with the threads; a pause
  freezes picture and sound; "Done" means done; stop, seek and restart finish.

In the player the UI thread only sets flags under `stateMutex` and joins the demultiplexer
(`decodeLoop`), which starts, joins and restarts a video and an audio worker; each worker
takes packets from a bounded queue with a mutex and a condition, and sound goes through a ring to an
output thread.  The sound back end of the emulator is a thread of its own that raises an
interrupt and polls for the answer of the emulation thread; they share flags without a lock.  The games run on
one UI thread: what interleaves there are events, a timer and what an event leaves behind for
the next one.

`PROJECT.json` lists every component with its status and every hazard with its line and the
properties that cover it.

## 2. Modules

| Module | Models | Lines of the code |
|---|---|---|
| `TcpSession` | one TCP proxy session, the two threads that work on it, any guest and server | `ether_ewok.cpp` 249-274, 832-1204, 1438-1460 |
| `TcpRelay` | a `TcpSession` with the frame queue, a guest TCP (external) and a server (external) | 284-314, 1237-1327 and the above |
| `ByteStream` | abstract: bytes arrive once and in order until the stream is fouled | - |
| `UdpNat` | the UDP session list, ICMP socket and `ether_exit` | 231-247, 391-509, 512-646, 757-801, 1376-1436 |
| `VideoPlayer` | UI operations, demultiplexer, packet queues and both workers of a player | `WidgetVideo.cc` 136-322, 983-1560, 1650-2034 |
| `AudioRing` | the player's sound ring between audio worker and output thread, with restart and cleanup | `WidgetVideo.cc` 111-119, 417-481, 582-812, 1072-1169, 2015-2019 |
| `AudioFeeder` | feeder thread, interrupt, sound component, reset and exit of the emulator | `audio_pcm.cpp` 225-516, `audio.cpp` 67-88, 270-272, 298-516, `emul_op.cpp` 499-507 |
| `Cards` | the card game | `cards.cc` 556-1078, 1514-1766 |
| `Mine` | the minesweeper | `mine.cc` 138-486, 752-928 |
| `TcpSessionProofs`, `TcpRelayProofs`, `UdpNatProofs`, `VideoPlayerProofs`, `AudioRingProofs`, `AudioFeederProofs`, `CardsProofs`, `MineProofs` | theorems | - |
| `MCTcpSession`, `MCTcpRelay`, `MCVideoPlayer`, `MCCards`, `MCMine` | inputs for TLC | - |

**TcpSession.**  Every section of code under `t->lock` is one action; between two sections a
thread has a place (`pc`, `epc`), and system calls made without the lock are
actions of their own on the thread's copy of the socket (`lfd`, `efd`).
`sbuf` is the sequence of bytes from `s_una_off` to `s_tail_off` and `nxt` is
`s_nxt_off`: `forward_tcp` moves the bytes to offset 0 in the same section that advances
`s_una_off`, so the offset itself is always 0 outside a section.  `forward_tcp` is two
actions, `Find` and `ForwardSegment`/`ForwardRst`, because `find_tcp_session`
reads `active` without `t->lock`.  The pump is a disjunction (`PumpNew`,
`PumpRetransmit`, `PumpFin`, `PumpIdle`) that the receiver's actions contain.
Payload bytes are model values; `Junk` is a byte of `boot_buf` that nothing was copied
to.  Timers are two Booleans that a clock action raises.  `closes` counts
`close()` calls, `emitted`/`written` hold what the last step sent to the guest and the server, `late`
counts segments emitted after deactivation.  A session's creation is its initial
state and its end is `freed`: sessions do not share anything but the
frame queue, which `TcpRelay` adds.

**TcpRelay** extends `TcpSession` and conjoins each of its steps with what happens to
the queue (`EnqueueAll`), the guest and the server.  `EtherInterrupt`
handles one frame per step because the code drops `rx_mutex` around each; it and `forward_tcp`
share the emulator thread, so neither runs inside the other.
`OtherTraffic` puts frames of other sessions into the queue.  The abstraction map
is `sent <- ServerStream(s_sent)`, `delivered <- g_got`.

**UdpNat.**  `udp_list` is the sequence of sessions, newest first; `rpc` is the place of
each receiver; `sock` is the system's table of open socket numbers, which
hands out any closed number again.  `forward_udp` on an unknown tuple is
`ForwardUnknown`, then the reaper's walk (`ReapSkip`, `ReapJoin`, `ReapEnd`) and the creation,
all with `udp_mutex` held; receivers run in between.

**VideoPlayer.**  A file is a sequence of packets, each of one stream; a packet is its position
and a frame is its packet's, so order and loss can be read off the positions.  `dpc` is the
place of `decodeLoop`, `pc` that of each worker.  A section under `stateMutex` or a queue's mutex is one
action; two reads in a row of flags nobody clears in between are one.  A decoder holds back
`Delay` frames until it is drained.  `StopBegins` and `StopEnds` are `stopDecodeThread`
around its `pthread_join`, used by `stop`, `loadVideo` and the destructor: the UI thread does nothing
else while `ui` is "joining".  A failure (open, read, decoder, device, thread)
is a choice, `MaxErrors` of them.  Histories: `done` is the position up to which a worker
has shown or sounded its stream, `ran` which workers were started, `late` what happened since
the pause.

**AudioRing.**  The ring is an array of bytes with `start` and `size`; a byte is the position it was
queued for (`gen`, raised by each seek) and its number.  `audio_queue_write`'s locked part, the output thread's locked
part and each step of `pcm_write` are actions; the demultiplexer only appears where it restarts,
resets or cleans up.  `heard` is what the device got.  The device may be short, fail or never
become ready.

**AudioFeeder.**  A block the Apple Mixer delivers is silence or sound; mixer and guest are external
and do what they like.  `irq`, `ack` and `feederRunning` are the flags the two threads share.  `active` is
`audio_playback_active()` and `Expire` its 500 ms; `Wait` may time out at any moment and sets `late`.
`mixed` and `taken` count the blocks mixed and the last one the feeder took.  A fresh look at `ack` after a timeout
is `Check`.  `stale` is a history variable: the guest restarted with the component open (section 5).

**Cards.**  `at` maps every place, among them the hand and the card in flight, to its sequence of cards, so
conservation is a statement about one function.  Each event handler is one action with all that it calls:
`drawFromStock` with `requestAutoFinishGame`, whose simulation is `CanAutoFinish`; `finishAutoFinishMove` is `Land`.
The simulation sweeps waste and columns until a sweep moves nothing; `Simulated` makes as many sweeps as there are
cards, which reaches the same piles, as every sweep but the last moves a card.  `Full` counts the cards
on the foundations, as `checkWin` does.  `Presses` and `Flights` are what `pressed` and `flight` hold besides `None`.
What lies where on the screen is a choice: a drop takes any pile that fits, as the code takes the
nearest one however far it is.  `pressed` keeps the pile's array as it was, because `beginDrag` reads it again later.
`spoiled` marks a game after one of the two steps that lose or repeat cards (`Forgets`, `TakesNothing`; section 5);
such a game is followed only to the next deal, and the properties of the piles speak of the others.

**Mine.**  The board is three sets of cells and two counters.  `Flood` is the set `floodOpen`'s queue
reaches, in rounds.  `Chord` is the calls of `revealCell` around a cell until one loses or wins: the mine met first in
the order of the two loops (`Before`) decides which safe neighbours were opened before it.  The clock is the choice
between `Click` and `DoubleClick`.

## 3. Runs

| Run | Question | Bounds |
|---|---|---|
| `tcp_session` | Do window, socket ownership, silence and orderly close hold in every interleaving, and do winding down and `ether_exit` finish? | sequence space 8, MSS 2, `sbuf` 3, `boot_buf` 2; guest segments with wrong, old and excessive numbers, or none at all |
| `tcp_relay` | Do relay and guest agree on the window? | queue of 2, 2 server bytes, 1 guest byte, 1 foreign or lost frame, 1 guest retransmission |
| `tcp_relay_stream` | Is the relay a byte stream towards a guest that listens, and does all the server sent arrive in spite of losses? | queue of 2, 3 server bytes, 1 foreign or lost frame, 1 repeated FIN |
| `tcp_relay_echo` | finding: guest bytes come back | as `tcp_relay`, 3 server bytes |
| `tcp_relay_loss` | finding: acknowledged data is lost | `sbuf` 1, 2 guest bytes |
| `udp_nat` | Do sessions, sockets and teardown work together, and does every operation end? | 2 sessions, 2 tuples, 3 socket numbers |
| `udp_nat_icmp` | finding: ICMP socket without receiver | 1 session, 2 socket numbers |
| `video_player` | Are packets, threads, flags, pause and end right in every interleaving of user and threads, and do stop, seek and restart finish? | 3 packets (video, audio, video), seeks to the start, queues of 1, marks equal to the capacities, video decoder that holds one frame, 1 failure |
| `audio_ring` | Does sound stay in order, is nothing used after its end, and do writer, seek and cleanup finish? | ring of 3, chunk 2, period 2, frames of 2 and 4, 6 bytes, 2 positions |
| `audio_feeder` | Is the handshake exact, does the feeder wake up and end? | park after 2 silent blocks, 2 opens, 1 source, 3 blocks |
| `cards` | Is the deck conserved, are the rules kept, does an auto-finish end and the mouse come back? | 2 suits of 3 values, 2 columns, 3 deals, arrays of 4 and 3 |
| `mine` | Do board, counters and outcome agree? | a board of 2 by 4 with 2 mines, one of 2 by 3 with 3 |

A property of a run may be the conjunction of the parts a reader would ask for together: `WindowSound` is accounting and
stop-and-wait, `TeardownClean` what the reaper and the exit leave, `DeckComplete` that no card is lost, repeated or written past
an array.  Each part is a definition with its own comment, and the proofs establish the parts one by one.

Why the bounds are enough.  A sequence space of 8 starting two below the wrap makes
every number wrap within three bytes; with MSS 2 a flight can be partly acknowledged, a
buffer of 3 can hold a flight with bytes behind it and overflows, and `boot_buf` smaller than `sbuf`
reaches the bytes nothing was copied to.  A queue of 2 is filled by the two frames one segment can cause, so
one foreign frame drops the session's own.  Three socket numbers for two sessions and
ICMP make reuse immediate; two sessions let one expire while the other is created, and
a third would only repeat that.  A file of three packets fills and empties both queues, leaves a video frame in the decoder at the end and
another stream's packet between two of its own; a seek to the start repeats every packet, so one kept from before shows; the marks at the
capacities are the tightest the code's assumption allows.  What the bounds leave out is what the theorems cover.
A ring of 3 with frames of 2 and 4 wraps at every offset and meets frames larger than the ring; chunk and period of
2 give short and full writes.  Three blocks are enough for one taken, one late and one asked for; parking after two
silent blocks lets a feeder park, wake up and park again.  Cards needs no more than two colours and three
values for runs of two and three, face-down cards, empty columns for a king, waste and recycling; the sizes 4 and 3 of the
arrays are what the rules allow there (stock and waste hold no more than what was not dealt, a column a face-down
card and a run), as 24 and 13 are for the whole deck.  The two boards of Mine are smaller and larger than a cell
with its neighbours, so that the first cell's neighbours can and cannot be spared; changing between them moves pending clicks
outside the board.

**Fairness.**  Receiver threads are scheduled: weak fairness of each of their
places.  `recv` and `recvfrom` return because `SO_RCVTIMEO` is set on every socket
(lines 404-407, 635-638, 906-908), `connect` because it completes or is aborted by
`ether_exit`'s close.  The grace and retransmission times pass.  The emulator thread
finishes an operation it began, but nothing forces it to begin one: the guest may stay silent.  A
receiver waiting for `udp_mutex` gets it in the end (strong
fairness), as the mutex is released after bounded work.  `tcp_relay_stream` also assumes the
60 Hz tick and a guest that acknowledges.  In the player, the demultiplexer and the
workers are scheduled (weak fairness of each thread), and the UI thread returns from a join
that can return; nothing forces the user to do anything, so `RestartCompletes` excepts a player that
stays paused.  In `AudioRing` the writer, the output thread and a restart or cleanup that began are
scheduled, and the device answers or fails.  In `AudioFeeder` the feeder is scheduled and a join that began goes on;
nothing is assumed of the guest, and activity lasts longer than the 20 ms after which a parked feeder
looks again.  In `Cards` the window's timer keeps firing (`setTimer`), so an animation lands and an auto-finish begins its
next move; the player does nothing.

## 4. Theorems

Every invariant and every action property of a passing run is proved, as is that `TcpRelay` implements `ByteStream`:
`Spec => []P` for every value of the constants that meets the named assumptions of the module.

| Module | Assumption | What it asks |
|---|---|---|
| `TcpSession` | `SizesAssumption` | positive sizes, `MSS + 1` below half the sequence space |
| | `InputsAssumption` | guest segments shorter than half the space, otherwise arbitrary |
| `TcpRelay` | `RelayAssumption` | all that guest and server send in one session stays below half the space, so that a number names one byte |
| `UdpNat` | `UdpAssumption` | the owners and the special values are distinct |
| `VideoPlayer` | `FileAssumption` | any file whose first packet is a seek target |
| | `QueueAssumption` | marks between one and the capacity, decoders that hold back no negative number of frames |
| `AudioRing` | `RingAssumption` | positive capacity, chunk, period and frame sizes |
| `AudioFeeder` | `FeederAssumption` | at least one silent block before it parks, at least one open and one source |
| `Cards` | `NamesAssumption` | any number of suits, columns and values with distinct names |
| | `DealsAssumption` | a deal is the whole deck in some order, enough for the columns |
| | `RoomAssumption` | the arrays have room for what is not dealt (52 - 28 of 24 cells), a run on its column's face-down cards (6 + 13 of 24), a foundation (13 of 24) and a dragged run (13 of 13) |
| `Mine` | `DifficultyAssumption` | at least one mine, and fewer mines than cells |

`TcpSessionProofs`.  The checked invariants are not inductive: `ClosedExactlyOnce`
needs to know who holds the descriptor at each place of both threads
(`FdOwnership`: session field, receiver on its way out, `ether_exit`, or closed; exactly
one), `DeadSessionFallsSilent` where both threads are once something was sent too late
(`LateBound`), `OrderlyCloseAlways` that a session winding down has its FIN due and a receiver
past `connect` runs connected (`WindingDown`).  `IInv` conjoins them with types,
`SeqAccounting` and `StopAndWait`.  The proof separates the send window (`WindowStep`:
lemmas on modular sequence numbers, the pump and the ACK branch)
from the session's life (`LifeStep`), and joins them in `StepInvariant`.  Corollaries:
`TypeCorrect`, `AccountingHolds`, `StopAndWaitHolds` (together `WindowHolds`), `ClosedOnce`, `NoCloseUnderCall`
(`SocketHolds`), `FallsSilent`, and the action properties `FlightIsStable` and `ClosesOrderly`.

`TcpRelayProofs`.  It shows that session, queue, guest and server implement
`ByteStream`.  `RInv` counts every number from the first byte's (`Pos`): the guest stands between what the relay takes as
acknowledged and the end of what was sent (`Window`), so does every frame in the queue (`QueueInWindow`), no byte is
received after the FIN (`FinLast`), and until the stream is fouled `sbuf`, queue and guest hold pieces of the
server's stream, each at its place (`PiecesOfStream`).  One lemma each says what the session's ways to send or
take bytes do to that (`PumpFrames`, `SegmentStep`, `ChunkStep`), what `enqueue_rx` leaves
in the queue whether it overflows or not (`QueueStep`), and that a segment the guest handles leaves it with a longer
beginning of the stream (`GuestTakes`).  Corollaries: `RelayIsStream`, `AcksOnlyWhatWasSent`, `WindowsAgree`.

`UdpNatProofs`.  `IInv` adds to the types that the list and the detached sessions partition
the memory (`ListInv`), that every held number is open and owned and every open
socket is held (`FdInv`, `IcmpInv`), and that no live session has the tuple a session is being
created for (`TupleInv`).  Corollaries: `OneSession`, `NoFdReused` (`DistinctAlways`), `FreedFinished`,
`ExitIsQuiet` (`TeardownIsClean`).

`VideoPlayerProofs` has two inductive invariants.  `IInv` adds to the types that a worker about to
show a frame has one (`FrameInHand`), that the packet about to be queued is one of the file
(`PushRange`), and why a pause counts each deed once (`PauseInv`): a worker gets past a check only
when the player is not held, so whoever did something during the pause is at its next check or is being
stopped.  One lemma per part (`FrameStep`, `WithinStep`, `FlagsStep`, `PushStep`, `PauseStep`) shows
that each step of the three threads preserves it; `WorkerFrame`, `DemuxFrame` and `UIFrame` say
what each thread leaves of the others.  Corollaries: `PlayerTypeCorrect`, `WorkersJoined`,
`FlagsAgreeAlways` (together `ThreadsAgreeAlways`), `DemuxNeverBlocks`, `PauseHolds`.

The second, `Flow`, is inductive together with `IInv` and follows the packets.  `Intact` says what `StreamIntact` says of
one worker: the packets in its decoder, its hand, its queue and about to be pushed to it (`Pipeline`) are those of its
stream between what it showed last and what was read last, in the order of the file.  Popping and sending only move the cut between
the parts (`HandedOn`), showing takes the head away, reading and pushing add behind the end.  That holds whatever the
flags say; for `DoneIsDone` it must be known besides that a worker drains its decoder only when nothing more comes
(`Draining`), that one that left of itself had everything shown (`Leavers`), that aborted and finished queues are such
only where the demultiplexer is (`QueueFlags`), and that the end is decided on when both workers left so (`Decided`).
Each step of each thread has one lemma (`ReadFlow`, `PushFlow`, `PopFlow`, `SendFlow`, `ShowFlow`, `LeavesFlow`, ...).  Corollaries:
`StreamStaysIntact`, `DoneMeansShown`.

`AudioRingProofs`, for every capacity, chunk, period, frame size and number of bytes and seeks.  `IInv` says who runs while the
demultiplexer restarts or cleans up (`Control`), which position the ring belongs to (`Ages`), that the ring
holds the last bytes queued (`Content`), that what the device and the output thread have is in order
(`InOrder(Out)`), and that it ends with all of this position that was queued and has left the ring, and holds nothing
else of it (`EndsWith` in `Link`): with the ring behind it that is `SoundIntact` (`Joint`).  The arithmetic of two copies around the end of the array is
in `Wrap`, `Offset` and `Advance`.  Corollaries: `RingTypeCorrect`, `SoundStaysInOrder`, `SeekEmptiesRing` (`RingIsSound`), `SoundStaysIntact`,
`NoneStranded`, `FreedStaysQuiet` (`EndsAreClean`).

`AudioFeederProofs`.  `Handshake` says for each place of the feeder where the block that was asked for is (`Asked`);
`Counting` why the feeder counts no further than to park; `Component` that an open component has its data
area until the guest restarts under it (`stale`).  Corollaries: `FeederTypeCorrect`, `HandshakeIsExact`,
`MixerKeepsData`.

`CardsProofs`.  `IInv` is the types, that the piles fit into their arrays, and, in a game that is not `spoiled`, `Sound`.  `Sound` adds to
the checked properties why they last.  A column is a run of face-up cards on no more face-down ones than it was dealt
(`ColumnRuns`), stock and waste hold only what was not dealt (`StockRoom`), so with `RoomAssumption` nothing is written past an
array; that no run is longer than the values of a suit follows from its order.  Tops are face up unless a card was just
taken from them (`TopsUp`, `OthersUp`).  What is dragged fits back where it came from (`DragReturns`), so a drop that fails
breaks no rule; the card in flight is the next one of its foundation (`FlightFits`).  `WinNoticed` and `DragReturns` need each
other: a drag that returns a foundation's last card wins nothing new.

`GamesEnd` is the deepest of these: an auto-finish that began never gets stuck, although the code looks for a way home only
once and then moves one card after another in another order.  The argument: `Finishable` says that no set of loose
cards wait for each other all around (a card waits for the lower ones of its suit and for those on top of it).  When the
simulation ends with the whole deck on the foundations, the piles were `Finishable`, as each card it lifted was one that waited for
none (`LiftPlays`, `SimulationFinishes`); every real move keeps that, and piles that are `Finishable` and not empty always
have a move (`FinishableMoves`).  Corollaries: `CardsStay`, `PilesKeepTheirRules`, `GamesEnd`, `DragsAreRuns`.

`MineProofs`.  `IInv` adds to `BoardSound` that the flags protect (`FlagsProtect`), that before the first reveal nothing is
known and after it a safe cell is open (`Stage`), and that a lost game shows its mines (`LostShows`).  `Flood` is a number of
rounds as large as the board; the lemmas show that rounds only add cells, never a mine, a flagged cell or one outside the
board, and that they have stopped by then: a round that adds nothing is the last, so after n
rounds either n cells are reached or the flood is over.  Corollaries: `BoardIsSound`, `PlayerIsProtected`, and the action property `OpeningsAreComplete`.

How inductions over numbers are done: the simulation of Cards and the flood of Mine are recursive functions on an
interval, and the induction theorems of the library take an operator that no installed prover can instantiate.
`LeastNat` derives from the well-foundedness of finite sets under inclusion that a set of numbers has a least member,
and `UpTo` from that the induction needed, about a set instead of a predicate.

Order and loss are stated by position: `SoundIntact`, `StreamIntact` and `DoneIsDone` speak of the elements of a sequence
and of sets of positions, not of a filtered sequence (`SelectSeq` is recursive), which says the same and can be proved.

The type invariants are proved and therefore no properties of runs; those of `Cards` and `Mine` are conjuncts of `IInv`
and `BoardSound`.

Only model-checked, on the instances of section 3: liveness, which the provers do not reach (`CloseCompletes`, `ExitCompletes`,
`Delivered`, `ForwardReturns`, `IdleEnds`, `StopCompletes`, `SeekTaken`, `RestartCompletes`, `WaitsEnd`, `GateReopens`, `InputReturns`), and
the three violations of section 5.

## 5. What the checks found

Three disagreements with what the code's own comments say, each the counterexample of a run:

* **Echo** (`tcp_relay_echo`): `forward_tcp` stores guest payload in the buffer that
  `tcp_pump_locked` sends to the guest, so a request comes back as server data; it is also written to the
  server again with every further segment while it stays unacknowledged.
* **Loss** (`tcp_relay_loss`): payload that does not fit in `sbuf` is acknowledged and dropped.
* **ICMP** (`udp_nat_icmp`): a socket opened by `forward_icmp` has no receiver, and `ether_exit`
  joins a thread that was never created.

What the code does and no comment denies; the properties are stated around it:

* More than 2048 bytes queued before `connect` completes are replaced by unset bytes (928-935; `Junk`).  Server data
  that does not fit in `sbuf` is dropped silently (996).  So the stream properties hold towards a guest that
  sends nothing and until something was dropped (`fouled`).
* A window resized during a drag loses the dragged cards (`Forgets`).  A card pressed, an auto-finish started with S that takes it
  away, then the drag: the drag takes no card and the pile shows cards that are on the foundations (`TakesNothing`).  So the
  properties of the piles speak of games that are not `spoiled`.
* `AudioReset` forgets the data area but not the mixer, the sources and the open count (`stale` in `MixerHasData`).
* A sound block answered after 20 ms is mixed and thrown away: `HandshakeExact` says that each is taken once of
  answers in time.
* A lost SYN-ACK or FIN is never repeated, a repeated SYN is ignored (1106-1112);
  `forward_tcp` may still acknowledge data for a session closed between lookup and lock (1118-1120);
  the file header (line 13) says a SYN gets an RST, while the proxy is implemented.
* The player's properties hold.  What they are stated around: a seek in a pause is taken, but its
  restart joins a worker that may be back in the pause, and then waits for play or stop
  (`RestartCompletes`); a pause is lost when the file starts over; `loadVideo` keeps a pending
  seek, which the next file takes; play pressed between "Done" and the thread's end is lost; a seek
  after the last packet was read is ignored and stays pending; one failure to write sound
  ends the picture too; frames a worker holds when a seek comes may still be shown.
* Also seen: `cleanup_audio_playback` reads `queue_thread_running` without its mutex (735), so
  the output thread may not be joined; `FreedIsQuiet` shows that it touches neither ring nor device any
  more, but it may still hold the mutex that is destroyed.  The sound left in the ring at the end of a file is not played.
  A sound that begins with more than half a second of silence parks the feeder until the next call of the component.
  After the last close of the component a pending interrupt clears a word of the guest's low memory.
  In the minesweeper a click on one cell soon after a click on another replaces it, and its flag is never set.

## 6. Not modelled

ARP, DHCP and checksums (stateless conversions of one frame), the protocol handler
table (its effect, a frame with no handler, is `FrameLost`), MAC addresses, frame
lengths, failing `malloc` in `enqueue_rx` (a lost frame), failing `pthread_create`.
Several TCP sessions at once: they share only the queue, `tcp_mutex` and the reaper, which works on one
session at a time.  Of the player: the clock (when a frame is due
is a choice), positions in milliseconds, mute, status texts, drawing, failing allocations.
Of the sound back end: volume, sample formats, pacing, `AudioGetInfo` and the delegated calls, which
go to the guest's own mixer.  Of the games: drawing, score, move counter, elapsed time.
The emulator's screen and input, the second NAT of `previous`, the browser view, nesemu and the demos: pixel
work, glue around vendored cores, or a second copy of what is modelled here.
Vendored code: nine tenths of the files are ffmpeg, litehtml, FLTK, imgui and emulator cores, written and tested
elsewhere; a model of a piece of them would say nothing about these applications.

## 7. Plan

1. Done: `TcpSession`, `TcpRelay` over `ByteStream`, `UdpNat`, `VideoPlayer`, `AudioRing`, `AudioFeeder`, `Cards`, `Mine`
   with their runs, and the proofs of section 4.
2. Done: every safety property and action property of section 3 as a theorem.
3. Next, where it says something new: the invariants that explain why the liveness properties hold (which thread a
   waiting one waits for, and that this one can go on), as far as they are state predicates; facts about the assumptions on
   fairness stay with TLC.
