----------------------------- MODULE AudioRing -----------------------------
(***************************************************************************)
(* The sound path of the video player (WidgetVideo.cc): the audio worker   *)
(* writes converted frames into a ring, an output thread moves chunks of   *)
(* it to the sound device, the demultiplexer empties the ring on a seek    *)
(* and tears everything down at the end.                                   *)
(*                                                                         *)
(* A byte of sound is <<e, n>>: byte n of what was converted since the     *)
(* e-th (re)start.  Whatever decides when to seek, end, pause or stop is   *)
(* VideoPlayer's; here it may happen at any time.                          *)
(***************************************************************************)
EXTENDS Naturals, Sequences

CONSTANTS
    Capacity,     \* queue_capacity (AUDIO_QUEUE_CAPACITY)
    Chunk,        \* bytes the output thread takes at once (AUDIO_QUEUE_CHUNK)
    Period,       \* period_bytes: the most one write() to the device gets
    FrameSizes,   \* sizes of a converted frame
    MaxBytes,     \* bound: bytes converted after one (re)start
    MaxEpochs     \* bound: (re)starts

ASSUME RingAssumption ==
    /\ Capacity \in Nat \ {0} /\ Chunk \in Nat \ {0} /\ Period \in Nat \ {0}
    /\ FrameSizes \subseteq Nat \ {0}
    /\ MaxBytes \in Nat /\ MaxEpochs \in Nat \ {0}

VARIABLES
    buf, start, size,      \* queue_buf, queue_start, queue_size
    stop,                  \* queue_stop
    threadRunning,         \* queue_thread_running
    quit,                  \* isStopRequested() of the owner
    running, prepared,     \* of the device
    wpc, gen, left, sent,  \* audio worker: place, its epoch, bytes of the frame to go, bytes queued
    opc, tmp,              \* output thread: place, bytes taken and not yet written
    dpc, epoch,            \* demultiplexer: place, current epoch
    heard                  \* what the device was given

ringvars == <<buf, start, size>>
wvars == <<wpc, gen, left, sent>>
ovars == <<opc, tmp>>
device == <<running, prepared, heard>>
vars == <<ringvars, stop, threadRunning, quit, wvars, ovars, dpc, epoch, device>>

Places == 0 .. Capacity - 1
Bytes == (1 .. MaxEpochs) \X (1 .. MaxBytes)
Nothing == <<0, 0>>        \* a place of queue_buf never written to

WorkerPlace == {"gone", "idle", "lock", "look"}
OutputPlace == {"take", "pcm", "write", "mark", "fail", "exit", "unlock", "gone"}
DemuxPlace == {"play", "join", "reset", "unrun", "unprepare", "start",
               "joinEnd", "close", "joinOutput", "free", "freed"}

\* queue_mutex is held across a step only where the output thread clears queue_thread_running
Free == opc # "unlock"

ShouldStop == stop \/ quit

\* after init_audio_playback: the output thread runs, or could not be created and the device is
\* closed again
Init ==
    /\ buf = [p \in Places |-> Nothing] /\ start = 0 /\ size = 0
    /\ stop = FALSE /\ quit = FALSE
    /\ running = FALSE /\ prepared = FALSE /\ heard = <<>>
    /\ gen = 1 /\ left = 0 /\ sent = 0 /\ tmp = <<>> /\ epoch = 1
    /\ \/ threadRunning = TRUE /\ opc = "take" /\ wpc = "idle" /\ dpc = "play"
       \/ threadRunning = FALSE /\ opc = "gone" /\ wpc = "gone" /\ dpc = "close"

-----------------------------------------------------------------------------
(* The audio worker: audio_decode_thread_entry, queue_audio_frame, audio_queue_write *)

\* a decoded frame is converted
NextFrame ==
    /\ wpc = "idle" /\ ~quit
    /\ \E n \in FrameSizes : sent + n <= MaxBytes /\ left' = n
    /\ wpc' = "lock"
    /\ UNCHANGED <<ringvars, stop, threadRunning, quit, gen, sent, ovars, dpc, epoch, device>>

\* end of the packets, an abort, a decoder error or a stop
WorkerEnds ==
    /\ wpc = "idle" /\ wpc' = "gone"
    /\ UNCHANGED <<ringvars, stop, threadRunning, quit, gen, left, sent, ovars, dpc, epoch, device>>

\* as much of the frame as there is room for, behind what is queued
CopyIn ==
    LET n == IF Capacity - size < left THEN Capacity - size ELSE left
        At(p) == (p + Capacity - ((start + size) % Capacity)) % Capacity
    IN  /\ buf' = [p \in Places |-> IF At(p) < n THEN <<gen, sent + At(p) + 1>> ELSE buf[p]]
        /\ size' = size + n
        /\ left' = left - n
        /\ sent' = sent + n

\* mutant: a full ring is waited for without looking at queue_stop
QueueWriteStubborn ==
    /\ wpc = "lock" /\ Free
    /\ CopyIn /\ wpc' = "look" /\ UNCHANGED start
    /\ UNCHANGED <<stop, threadRunning, quit, gen, ovars, dpc, epoch, device>>

\* the locked part of a round; a queue that was stopped refuses the frame and ends the worker
QueueWrite ==
    /\ wpc = "lock" /\ Free
    /\ \/ stop /\ wpc' = "gone" /\ left' = 0 /\ UNCHANGED <<ringvars, sent>>
       \/ ~stop /\ CopyIn /\ wpc' = "look" /\ UNCHANGED start
    /\ UNCHANGED <<stop, threadRunning, quit, gen, ovars, dpc, epoch, device>>

\* after the unlock: a stop request ends the worker, a full ring is tried again
QueueLook ==
    /\ wpc = "look"
    /\ wpc' = IF quit THEN "gone" ELSE IF left = 0 THEN "idle" ELSE "lock"
    /\ left' = IF quit THEN 0 ELSE left
    /\ UNCHANGED <<ringvars, stop, threadRunning, quit, gen, sent, ovars, dpc, epoch, device>>

Worker == NextFrame \/ WorkerEnds \/ QueueWrite \/ QueueLook

-----------------------------------------------------------------------------
(* The output thread: audio_output_thread_entry and pcm_write *)

Taken == IF size < Chunk THEN size ELSE Chunk
\* mutant: a chunk is copied without its wrapped part
RingAtUnwrapped(i) == buf[IF start + i - 1 < Capacity THEN start + i - 1 ELSE Capacity - 1]

RingAt(i) == buf[(start + i - 1) % Capacity]

Take ==
    /\ opc = "take" /\ size > 0
    /\ tmp' = [i \in 1 .. Taken |-> RingAt(i)]
    /\ start' = (start + Taken) % Capacity
    /\ size' = size - Taken
    /\ opc' = "pcm"
    /\ UNCHANGED <<buf, stop, threadRunning, quit, wvars, dpc, epoch, device>>

\* only an empty ring lets the thread end
TakeNothing ==
    /\ opc = "take" /\ size = 0 /\ stop
    /\ opc' = "exit"
    /\ UNCHANGED <<ringvars, stop, threadRunning, quit, wvars, tmp, dpc, epoch, device>>

\* a round of pcm_write up to the write(): room in the device, which is prepared when it is new
PcmReady ==
    /\ opc = "pcm" /\ ~ShouldStop
    /\ prepared' = (prepared \/ ~running)
    /\ opc' = "write"
    /\ UNCHANGED <<ringvars, stop, threadRunning, quit, wvars, tmp, dpc, epoch, running, heard>>

\* a stop, no room within two seconds, or a device that fails
PcmGivesUp ==
    /\ opc = "pcm" /\ opc' = "fail" /\ tmp' = <<>>
    /\ UNCHANGED <<ringvars, stop, threadRunning, quit, wvars, dpc, epoch, device>>

\* a write() of what the device had room for, or one that fails
PcmWrite ==
    /\ opc = "write"
    /\ \/ /\ \E n \in 1 .. Len(tmp) :
                /\ n <= Period
                /\ heard' = heard \o SubSeq(tmp, 1, n)
                /\ tmp' = SubSeq(tmp, n + 1, Len(tmp))
          /\ opc' = "mark"
       \/ tmp' = <<>> /\ opc' = "fail" /\ UNCHANGED heard
    /\ UNCHANGED <<ringvars, stop, threadRunning, quit, wvars, dpc, epoch, running, prepared>>

PcmMark ==
    /\ opc = "mark"
    /\ running' = TRUE
    /\ opc' = IF tmp = <<>> THEN "take" ELSE "pcm"
    /\ UNCHANGED <<ringvars, stop, threadRunning, quit, wvars, tmp, dpc, epoch, prepared, heard>>

\* a device that failed stops the queue and empties it
OutputFails ==
    /\ opc = "fail"
    /\ stop' = TRUE /\ size' = 0
    /\ opc' = "exit"
    /\ UNCHANGED <<buf, start, threadRunning, quit, wvars, tmp, dpc, epoch, device>>

OutputExit ==
    /\ opc = "exit"
    /\ threadRunning' = FALSE
    /\ opc' = "unlock"
    /\ UNCHANGED <<ringvars, stop, quit, wvars, tmp, dpc, epoch, device>>

OutputUnlock ==
    /\ opc = "unlock" /\ opc' = "gone"
    /\ UNCHANGED <<ringvars, stop, threadRunning, quit, wvars, tmp, dpc, epoch, device>>

Output == Take \/ TakeNothing \/ PcmReady \/ PcmGivesUp \/ PcmWrite \/ PcmMark
          \/ OutputFails \/ OutputExit \/ OutputUnlock

-----------------------------------------------------------------------------
(* The demultiplexer: restart_playback_at_ms, audio_reset_playback, cleanup_audio_playback *)

DemuxGoes(from, to) == dpc = from /\ dpc' = to

\* a seek, or the beginning of the file again
Restart ==
    /\ DemuxGoes("play", "join") /\ epoch < MaxEpochs
    /\ UNCHANGED <<ringvars, stop, threadRunning, quit, wvars, ovars, epoch, device>>

JoinWorker ==
    /\ wpc = "gone"
    /\ DemuxGoes("join", "reset") \/ DemuxGoes("joinEnd", "close")
    /\ UNCHANGED <<ringvars, stop, threadRunning, quit, wvars, ovars, epoch, device>>

\* the file or its decoders do not reopen: the playback ends
RestartFails ==
    /\ DemuxGoes("reset", "joinEnd")
    /\ UNCHANGED <<ringvars, stop, threadRunning, quit, wvars, ovars, epoch, device>>

\* mutant: a seek does not empty the ring
ResetRingKept ==
    /\ DemuxGoes("reset", "unrun") /\ Free
    /\ epoch' = epoch + 1
    /\ UNCHANGED <<ringvars, stop, threadRunning, quit, wvars, ovars, device>>

ResetRing ==
    /\ DemuxGoes("reset", "unrun") /\ Free
    /\ start' = 0 /\ size' = 0
    /\ epoch' = epoch + 1
    /\ UNCHANGED <<buf, stop, threadRunning, quit, wvars, ovars, device>>

\* without the mutex
ResetDevice ==
    /\ \/ DemuxGoes("unrun", "unprepare") /\ running' = FALSE /\ UNCHANGED prepared
       \/ DemuxGoes("unprepare", "start") /\ prepared' = FALSE /\ UNCHANGED running
    /\ UNCHANGED <<ringvars, stop, threadRunning, quit, wvars, ovars, epoch, heard>>

\* without an audio decoder or without a thread playback goes on silently
StartWorker ==
    /\ DemuxGoes("start", "play")
    /\ \/ wpc' = "idle" /\ gen' = epoch /\ left' = 0 /\ sent' = 0
       \/ UNCHANGED wvars
    /\ UNCHANGED <<ringvars, stop, threadRunning, quit, ovars, epoch, device>>

\* mutant: the worker is not joined at the end
EndUnjoined ==
    /\ DemuxGoes("play", "close")
    /\ UNCHANGED <<ringvars, stop, threadRunning, quit, wvars, ovars, epoch, device>>

\* end of the file, an error or a stop
End ==
    /\ DemuxGoes("play", "joinEnd")
    /\ UNCHANGED <<ringvars, stop, threadRunning, quit, wvars, ovars, epoch, device>>

CloseQueue ==
    /\ DemuxGoes("close", "joinOutput") /\ Free
    /\ stop' = TRUE
    /\ UNCHANGED <<ringvars, threadRunning, quit, wvars, ovars, epoch, device>>

\* queue_thread_running is read without the mutex and decides whether there is a join
JoinOutput ==
    /\ DemuxGoes("joinOutput", "free")
    /\ threadRunning => opc = "gone"
    /\ UNCHANGED <<ringvars, stop, threadRunning, quit, wvars, ovars, epoch, device>>

FreeAll ==
    /\ DemuxGoes("free", "freed")
    /\ UNCHANGED <<ringvars, stop, threadRunning, quit, wvars, ovars, epoch, device>>

Demux == Restart \/ JoinWorker \/ RestartFails \/ ResetRing \/ ResetDevice \/ StartWorker \/ End
         \/ CloseQueue \/ JoinOutput \/ FreeAll

\* the user stops the player
RequestStop ==
    /\ ~quit /\ dpc # "freed" /\ quit' = TRUE
    /\ UNCHANGED <<ringvars, stop, threadRunning, wvars, ovars, dpc, epoch, device>>

Finished == dpc = "freed" /\ opc = "gone" /\ UNCHANGED vars

Next == Worker \/ Output \/ Demux \/ RequestStop \/ Finished

Spec == Init /\ [][Next]_vars

\* threads are scheduled and a join, reset or cleanup that began goes on; a worker without a packet
\* waits until it is joined, and when a playback ends is not the ring's business
Fairness ==
    /\ WF_vars((wpc # "idle" \/ dpc \in {"join", "joinEnd"}) /\ Worker)
    /\ WF_vars(Output)
    /\ WF_vars(dpc # "play" /\ Demux)

LiveSpec == Spec /\ Fairness

-----------------------------------------------------------------------------
(* Properties *)

\* Types: the ring never holds more than its capacity, nor the output thread more than a chunk
\* (audio_queue_write, audio_output_thread_entry).
TypeOK ==
    /\ buf \in [Places -> Bytes \cup {Nothing}]
    /\ start \in Places /\ size \in 0 .. Capacity
    /\ stop \in BOOLEAN /\ threadRunning \in BOOLEAN /\ quit \in BOOLEAN
    /\ running \in BOOLEAN /\ prepared \in BOOLEAN
    /\ wpc \in WorkerPlace /\ gen \in 1 .. MaxEpochs
    /\ left \in 0 .. MaxBytes /\ sent \in 0 .. MaxBytes /\ left + sent <= MaxBytes
    /\ opc \in OutputPlace /\ tmp \in Seq(Bytes) /\ Len(tmp) <= Chunk
    /\ dpc \in DemuxPlace /\ epoch \in 1 .. MaxEpochs
    /\ heard \in Seq(Bytes)

Queued == [i \in 1 .. size |-> RingAt(i)]

Follows(a, b) == IF a[1] = b[1] THEN b[2] = a[2] + 1 ELSE b[1] > a[1] /\ b[2] = 1

\* The device gets the sound in order and without holes: after a byte the next one of the same
\* playback position, or the first one after a later seek (wrapped copies, short writes, resets).
SoundInOrder ==
    LET out == heard \o tmp IN
    /\ \A i \in 1 .. Len(out) - 1 : Follows(out[i], out[i + 1])
    /\ out # <<>> => out[1][2] = 1

\* Until the queue is stopped nothing is lost on the way: what the device got, then what the output
\* thread holds, then what is in the ring, ends with all that was queued since the last seek, and
\* nothing of it is anywhere before.
SoundIntact ==
    ~stop /\ opc # "fail" /\ epoch = gen =>
        LET all == heard \o tmp \o Queued
            old == Len(all) - sent
        IN  /\ sent <= Len(all)
            /\ \A i \in 1 .. Len(all) : IF i <= old THEN all[i][1] # gen ELSE all[i] = <<gen, i - old>>

\* After a seek no byte of the old position is left in the ring, nor added by the worker that was
\* joined before the reset (audio_reset_playback): only the chunk in flight may still be heard.
SeekFlushes == \A i \in 1 .. size : RingAt(i)[1] = epoch

\* What the ring hands on, through wraps, short writes, resets and frames larger than the ring.
RingSound == SoundInOrder /\ SeekFlushes

\* An output thread that ends leaves an empty ring that nobody fills any more (audio_queue_write's
\* look at queue_stop).
NothingStranded == opc \in {"exit", "unlock", "gone"} => size = 0 /\ (stop \/ wpc = "gone")

\* When ring and device are freed neither thread touches them again.  The output thread may not be
\* joined, because it cleared queue_thread_running in time: then only its unlock is left to do
\* (cleanup_audio_playback).
FreedIsQuiet == dpc = "freed" => wpc = "gone" /\ opc \in {"unlock", "gone"}

\* Whoever ends or frees leaves the others nothing to wait for and nothing to touch.
EndsClean == NothingStranded /\ FreedIsQuiet

\* A frame is queued or refused, also when the device fails while the ring is full.
WriterReturns == wpc = "lock" ~> wpc \in {"idle", "gone"}

\* A seek gets past the worker it joins (restart_playback_at_ms).
RestartCompletes == dpc = "join" ~> dpc \in {"play", "freed"}

\* A cleanup joins what runs and frees the ring (decodeLoop, out_cleanup).
CleanupCompletes == dpc = "joinEnd" ~> dpc = "freed"

\* No wait of the three threads lasts for ever, whatever the device does.
WaitsEnd == WriterReturns /\ RestartCompletes /\ CleanupCompletes

=============================================================================
