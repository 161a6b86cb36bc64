----------------------------- MODULE VideoPlayer -----------------------------
(***************************************************************************)
(* The threads of one WidgetVideo: the UI thread (play, pause, stop, seek,  *)
(* load), the demultiplexer (decodeLoop) and the two decoding workers it    *)
(* starts, joins and restarts.                                              *)
(*                                                                         *)
(* A file is a sequence of packets, each of one stream; a packet is its     *)
(* position in the file and a frame is its packet's.  Sections under        *)
(* stateMutex or a queue's mutex are one action.  Two reads in a row of     *)
(* flags that nobody clears meanwhile (stopRequested, abort_requested) are  *)
(* one read: every outcome of the two is an outcome of one of the moments.  *)
(***************************************************************************)
EXTENDS Integers, Sequences

CONSTANTS
    Streams,      \* the stream of each packet of the file
    Keys,         \* positions a seek lands on; 1 is one of them
    Capacity,     \* packet_queue_init: 64 and 128
    HighWater,    \* VIDEO_PACKET_HIGH_WATER, AUDIO_PACKET_HIGH_WATER
    Delay,        \* frames the decoder of each stream holds back
    MaxErrors     \* bound on failing opens, reads, decoders and devices

Workers == {"video", "audio"}
Last == Len(Streams)
Positions == 1 .. Last

ASSUME FileAssumption ==
    /\ Streams \in Seq(Workers)
    /\ Keys \subseteq Positions /\ 1 \in Keys
ASSUME QueueAssumption ==
    /\ Capacity \in [Workers -> Nat] /\ HighWater \in [Workers -> Nat]
    /\ \A w \in Workers : HighWater[w] > 0 /\ HighWater[w] <= Capacity[w]
    /\ Delay \in [Workers -> Nat] /\ MaxErrors \in Nat

VARIABLES
    ui, loading,                \* UI thread: "idle" or joining the demultiplexer; for loadVideo
    playing, paused, stopRequested, threadRunning, eof, loopPlay,
    seekPending, seekTarget,
    dpc, pos, target,           \* demultiplexer: place, next packet to read, where to restart
    audioOn,                    \* the sound device and the audio decoder are open
    queue, qeof, qabort,        \* the two packet queues and their flags
    aborted,                    \* abort_requested
    pc, hand, dec, draining,    \* worker: place, popped packet, frames in the decoder
    ran, done,                  \* history: workers started, last frame shown or sounded (a position)
    late,                       \* history: what happened since the pause
    errors

uivars == <<ui, loading>>
flags == <<playing, paused, stopRequested, threadRunning, eof, loopPlay>>
seekvars == <<seekPending, seekTarget>>
demuxvars == <<dpc, pos, target, audioOn>>
pipevars == <<queue, qeof, qabort, aborted>>
workervars == <<pc, hand, dec, draining>>
history == <<ran, done>>
vars == <<uivars, flags, seekvars, demuxvars, pipevars, workervars, history, late, errors>>

DemuxPlaces == {"none", "open", "top", "take", "abortq", "join", "restart", "wait", "recheck",
                "read", "push", "eof", "ended", "decide", "end", "endjoin", "out"}
WorkerPlaces == {"none", "top", "pop", "pause", "send", "recv", "sync", "tick", "ready", "write", "check"}
Deeds == {"swap", "present", "sound"}

\* the positions of a worker's packets between two positions of the file
Segment(w, from, to) == {p \in from .. to : Streams[p] = w}

Fails == errors < MaxErrors /\ errors' = errors + 1
Works == UNCHANGED errors

\* mutant: a seek does not end the wait
HeldDeaf == paused /\ ~stopRequested

\* wait_if_paused goes on polling
Held == paused /\ ~stopRequested /\ ~seekPending

\* history: deeds while paused, counted (to 2) since the last play, seek or end
Counts(deed) == late' = IF Held THEN [late EXCEPT ![deed] = IF @ < 2 THEN @ + 1 ELSE @] ELSE late
Nothing == [d \in Deeds |-> 0]

Init ==
    /\ ui = "idle" /\ loading = FALSE
    /\ playing = FALSE /\ paused = FALSE /\ stopRequested = FALSE /\ threadRunning = FALSE
    /\ eof = FALSE /\ loopPlay = FALSE
    /\ seekPending = FALSE /\ seekTarget = 1
    /\ dpc = "none" /\ pos = 1 /\ target = 1 /\ audioOn = FALSE
    /\ queue = [w \in Workers |-> << >>] /\ qeof = FALSE /\ qabort = FALSE /\ aborted = FALSE
    /\ pc = [w \in Workers |-> "none"] /\ hand = [w \in Workers |-> << >>]
    /\ dec = [w \in Workers |-> << >>] /\ draining = [w \in Workers |-> FALSE]
    /\ ran = {} /\ done = [w \in Workers |-> 0]
    /\ late = Nothing /\ errors = 0

-----------------------------------------------------------------------------
(* The UI thread: one operation at a time. *)

StartThread ==
    /\ stopRequested' = FALSE /\ paused' = FALSE /\ eof' = FALSE
    /\ \/ playing' = TRUE /\ threadRunning' = TRUE /\ dpc' = "open" /\ Works
       \/ playing' = FALSE /\ threadRunning' = FALSE /\ UNCHANGED dpc /\ Fails   \* pthread_create

PlayStarts ==
    /\ ui = "idle" /\ ~threadRunning
    /\ StartThread
    /\ late' = Nothing
    /\ UNCHANGED <<uivars, loopPlay, seekvars, pos, target, audioOn, pipevars, workervars, history>>

PlayResumes ==
    /\ ui = "idle" /\ threadRunning /\ paused
    /\ paused' = FALSE /\ playing' = TRUE
    /\ late' = Nothing
    /\ UNCHANGED <<uivars, stopRequested, threadRunning, eof, loopPlay, seekvars, demuxvars, pipevars,
                   workervars, history, errors>>

Pause ==
    /\ ui = "idle" /\ threadRunning /\ playing
    /\ paused' = TRUE /\ playing' = FALSE
    /\ UNCHANGED <<uivars, stopRequested, threadRunning, eof, loopPlay, seekvars, demuxvars, pipevars,
                   workervars, history, late, errors>>

SeekToMs ==
    /\ ui = "idle"
    /\ \E k \in Keys : seekTarget' = k
    /\ seekPending' = TRUE /\ eof' = FALSE
    /\ late' = Nothing
    /\ UNCHANGED <<uivars, playing, paused, stopRequested, threadRunning, loopPlay, demuxvars, pipevars,
                   workervars, history, errors>>

SetLoop ==
    /\ ui = "idle"
    /\ loopPlay' = ~loopPlay
    /\ UNCHANGED <<uivars, playing, paused, stopRequested, threadRunning, eof, seekvars, demuxvars,
                   pipevars, workervars, history, late, errors>>

\* stopDecodeThread up to the join: for stop(), the destructor or loadVideo
StopBegins ==
    /\ ui = "idle"
    /\ ui' = "joining"
    /\ loading' \in BOOLEAN
    /\ stopRequested' = (stopRequested \/ threadRunning)
    /\ UNCHANGED <<playing, paused, threadRunning, eof, loopPlay, seekvars, demuxvars, pipevars,
                   workervars, history, late, errors>>

\* the thread has ended, or there was none; loadVideo goes on and plays when autoPlay is set
StopEnds ==
    /\ ui = "joining" /\ dpc = "none"
    /\ ui' = "idle" /\ loading' = FALSE
    /\ late' = Nothing
    /\ \/ /\ threadRunning' = FALSE /\ playing' = FALSE /\ paused' = FALSE /\ stopRequested' = FALSE
          /\ eof' = (eof /\ ~loading)
          /\ UNCHANGED <<dpc, errors>>
       \/ loading /\ StartThread
    /\ UNCHANGED <<loopPlay, seekvars, pos, target, audioOn, pipevars, workervars, history>>

UI == PlayStarts \/ PlayResumes \/ Pause \/ SeekToMs \/ SetLoop \/ StopBegins \/ StopEnds

-----------------------------------------------------------------------------
(* The demultiplexer *)

\* a place of decodeLoop that leaves everything but the place alone
Goes(from, to) ==
    /\ dpc = from /\ dpc' = to
    /\ UNCHANGED <<uivars, flags, pos, target, audioOn, workervars, history, late>>

\* mutant: packet_queue_reset keeps the packets
StartsWorkersStale(p) ==
    /\ UNCHANGED queue /\ qeof' = FALSE /\ qabort' = FALSE /\ aborted' = FALSE
    /\ \E audio \in {audioOn', FALSE} :
        /\ ran' = {"video"} \cup (IF audio THEN {"audio"} ELSE {})
        /\ IF audio = audioOn' THEN Works ELSE Fails
    /\ pc' = [w \in Workers |-> IF w \in ran' THEN "top" ELSE "none"]
    /\ hand' = [w \in Workers |-> << >>] /\ dec' = [w \in Workers |-> << >>]
    /\ draining' = [w \in Workers |-> FALSE]
    /\ pos' = p /\ done' = [w \in Workers |-> p - 1]

\* queues, decoders and clock start afresh at position p; the sound worker may not come up
StartsWorkers(p) ==
    /\ queue' = [w \in Workers |-> << >>] /\ qeof' = FALSE /\ qabort' = FALSE /\ aborted' = FALSE
    /\ \E audio \in {audioOn', FALSE} :
        /\ ran' = {"video"} \cup (IF audio THEN {"audio"} ELSE {})
        /\ IF audio = audioOn' THEN Works ELSE Fails
    /\ pc' = [w \in Workers |-> IF w \in ran' THEN "top" ELSE "none"]
    /\ hand' = [w \in Workers |-> << >>] /\ dec' = [w \in Workers |-> << >>]
    /\ draining' = [w \in Workers |-> FALSE]
    /\ pos' = p /\ done' = [w \in Workers |-> p - 1]

OpenFails ==
    /\ Goes("open", "out") /\ Fails
    /\ UNCHANGED <<seekvars, pipevars>>

\* the audio worker is started when the file has sound, it is not muted and the device opens
Open ==
    /\ dpc = "open" /\ dpc' = "top"
    /\ audioOn' \in BOOLEAN
    /\ StartsWorkers(1)
    /\ UNCHANGED <<uivars, flags, seekvars, target, late>>

LoopTop ==
    /\ Goes("top", IF stopRequested \/ aborted THEN "end" ELSE "take")
    /\ UNCHANGED <<seekvars, pipevars, errors>>

TakeSeekRequest ==
    /\ dpc = "take" /\ seekPending
    /\ dpc' = "abortq"
    /\ seekPending' = FALSE /\ eof' = FALSE /\ target' = seekTarget
    /\ UNCHANGED <<uivars, playing, paused, stopRequested, threadRunning, loopPlay, seekTarget, pos,
                   audioOn, pipevars, workervars, history, late, errors>>

NoSeekRequest ==
    /\ ~seekPending /\ Goes("take", "wait")
    /\ UNCHANGED <<seekvars, pipevars, errors>>

\* mutant: the queues are not aborted before the joins
AbortQueuesNot ==
    /\ Goes("abortq", "join")
    /\ UNCHANGED qabort
    /\ UNCHANGED <<seekvars, queue, qeof, aborted, errors>>

AbortQueues ==
    /\ Goes("abortq", "join")
    /\ qabort' = TRUE
    /\ UNCHANGED <<seekvars, queue, qeof, aborted, errors>>

Joined == \A w \in Workers : pc[w] = "none"

\* mutant: only the video worker is joined
JoinVideoOnly ==
    /\ pc["video"] = "none" /\ Goes("join", "restart")
    /\ UNCHANGED <<seekvars, pipevars, errors>>

JoinBeforeRestart ==
    /\ Joined /\ Goes("join", "restart")
    /\ UNCHANGED <<seekvars, pipevars, errors>>

\* seek, reopen the decoders, reset the pipeline and start the workers again
Restart ==
    /\ dpc = "restart" /\ dpc' = "top"
    /\ audioOn' \in {audioOn, FALSE}
    /\ StartsWorkers(target)
    /\ eof' = FALSE
    /\ UNCHANGED <<uivars, playing, paused, stopRequested, threadRunning, loopPlay, seekvars, target, late>>

RestartFails ==
    /\ Goes("restart", "end") /\ Fails
    /\ aborted' = TRUE /\ qabort' = TRUE
    /\ UNCHANGED <<seekvars, queue, qeof>>

WaitIfPaused ==
    /\ ~Held /\ Goes("wait", "recheck")
    /\ UNCHANGED <<seekvars, pipevars, errors>>

Recheck ==
    /\ Goes("recheck", IF stopRequested \/ aborted THEN "end" ELSE "read")
    /\ UNCHANGED <<seekvars, pipevars, errors>>

\* mutant: the mark is one past the capacity
BacklogFull == \E w \in Workers : (w = "audio" => pc[w] # "none") /\ Len(queue[w]) > Capacity[w]

Backlog == \E w \in Workers : (w = "audio" => pc[w] # "none") /\ Len(queue[w]) >= HighWater[w]

Backpressure ==
    /\ Backlog /\ Goes("read", "top")
    /\ UNCHANGED <<seekvars, pipevars, errors>>

ReadFrame ==
    /\ dpc = "read" /\ ~Backlog /\ pos <= Last
    /\ pos' = pos + 1 /\ dpc' = "push"
    /\ UNCHANGED <<uivars, flags, seekvars, target, audioOn, pipevars, workervars, history, late, errors>>

\* av_read_frame fails: at the end of the file, or on any error
ReadEnds ==
    /\ ~Backlog /\ Goes("read", "eof")
    /\ IF pos > Last THEN Works ELSE Fails
    /\ qeof' = TRUE
    /\ UNCHANGED <<seekvars, queue, qabort, aborted>>

\* the packet read last: queued for its worker, or dropped when that one is not running
Wanted(w) == w = "video" \/ pc[w] # "none"

Push ==
    LET p == pos - 1
        w == Streams[p]
    IN  /\ dpc = "push"
        /\ \/ /\ Wanted(w) /\ ~qabort /\ Len(queue[w]) < Capacity[w]
              /\ Goes("push", "top")
              /\ queue' = [queue EXCEPT ![w] = Append(@, p)]
              /\ UNCHANGED <<seekvars, qeof, qabort, aborted, errors>>
           \/ /\ ~Wanted(w) /\ Goes("push", "top")
              /\ UNCHANGED <<seekvars, pipevars, errors>>
           \/ /\ Wanted(w) /\ qabort /\ Goes("push", "end")
              /\ aborted' = TRUE
              /\ UNCHANGED <<seekvars, queue, qeof, qabort, errors>>

JoinAtEof ==
    /\ Joined /\ Goes("eof", "ended")
    /\ UNCHANGED <<seekvars, pipevars, errors>>

Ended ==
    /\ Goes("ended", IF stopRequested \/ aborted THEN "end" ELSE "decide")
    /\ UNCHANGED <<seekvars, pipevars, errors>>

PlayAgain ==
    /\ dpc = "decide" /\ loopPlay
    /\ dpc' = "join" /\ target' = 1
    /\ playing' = TRUE /\ paused' = FALSE /\ eof' = FALSE
    /\ qabort' = TRUE
    /\ late' = Nothing
    /\ UNCHANGED <<uivars, stopRequested, threadRunning, loopPlay, seekvars, pos, audioOn, queue, qeof,
                   aborted, workervars, history, errors>>

Done ==
    /\ dpc = "decide" /\ ~loopPlay
    /\ dpc' = "end"
    /\ playing' = FALSE /\ paused' = FALSE /\ eof' = TRUE
    /\ late' = Nothing
    /\ UNCHANGED <<uivars, stopRequested, threadRunning, loopPlay, seekvars, pos, target, audioOn,
                   pipevars, workervars, history, errors>>

\* mutant: the queues are not aborted with the pipeline
CleanupQuiet ==
    /\ Goes("end", "endjoin")
    /\ aborted' = TRUE
    /\ UNCHANGED <<seekvars, queue, qeof, qabort, errors>>

Cleanup ==
    /\ Goes("end", "endjoin")
    /\ aborted' = TRUE /\ qabort' = TRUE
    /\ UNCHANGED <<seekvars, queue, qeof, errors>>

JoinAtEnd ==
    /\ Joined /\ Goes("endjoin", "out")
    /\ UNCHANGED <<seekvars, pipevars, errors>>

ThreadEnds ==
    /\ dpc = "out" /\ dpc' = "none"
    /\ threadRunning' = FALSE /\ stopRequested' = FALSE /\ playing' = (playing /\ paused)
    /\ UNCHANGED <<uivars, paused, eof, loopPlay, seekvars, pos, target, audioOn, pipevars, workervars,
                   history, late, errors>>

Demux ==
    \/ OpenFails \/ Open \/ LoopTop \/ TakeSeekRequest \/ NoSeekRequest
    \/ AbortQueues \/ JoinBeforeRestart \/ Restart \/ RestartFails
    \/ WaitIfPaused \/ Recheck \/ Backpressure \/ ReadFrame \/ ReadEnds \/ Push
    \/ JoinAtEof \/ Ended \/ PlayAgain \/ Done
    \/ Cleanup \/ JoinAtEnd \/ ThreadEnds

-----------------------------------------------------------------------------
(* The workers: video_decode_thread_entry and audio_decode_thread_entry *)

AtPlace(w, from, to) ==
    /\ pc[w] = from /\ pc' = [pc EXCEPT ![w] = to]
    /\ UNCHANGED <<uivars, flags, seekvars, demuxvars, qeof, ran>>

\* out: what the worker holds is freed and thread_running cleared
Leaves(w, from) ==
    /\ AtPlace(w, from, "none")
    /\ hand' = [hand EXCEPT ![w] = << >>] /\ dec' = [dec EXCEPT ![w] = << >>]
    /\ draining' = [draining EXCEPT ![w] = FALSE]
    /\ UNCHANGED <<queue, done, late>>

LeavesQuietly(w, from) == Leaves(w, from) /\ UNCHANGED <<qabort, aborted, errors>>
LeavesAborting(w, from) == Leaves(w, from) /\ aborted' = TRUE /\ qabort' = TRUE

WorkerTop(w) ==
    \/ /\ stopRequested \/ aborted
       /\ LeavesQuietly(w, "top")
    \/ /\ ~stopRequested /\ ~aborted
       /\ AtPlace(w, "top", "pop")
       /\ UNCHANGED <<queue, qabort, aborted, hand, dec, draining, done, late, errors>>

\* packet_queue_pop; an aborted or finished queue ends the loop
Pop(w) ==
    \/ /\ ~qabort /\ queue[w] # << >>
       /\ AtPlace(w, "pop", "pause")
       /\ hand' = [hand EXCEPT ![w] = << Head(queue[w]) >>]
       /\ queue' = [queue EXCEPT ![w] = Tail(@)]
       /\ UNCHANGED <<qabort, aborted, dec, draining, done, late, errors>>
    \/ /\ qabort \/ (qeof /\ queue[w] = << >>)
       /\ AtPlace(w, "pop", "check")
       /\ UNCHANGED <<queue, qabort, aborted, hand, dec, draining, done, late, errors>>

WorkerPause(w) ==
    /\ ~Held
    /\ \/ stopRequested /\ LeavesQuietly(w, "pause")
       \/ /\ ~stopRequested /\ AtPlace(w, "pause", "send")
          /\ UNCHANGED <<queue, qabort, aborted, hand, dec, draining, done, late, errors>>

SendPacket(w) ==
    \/ /\ AtPlace(w, "send", "recv") /\ Works
       /\ dec' = [dec EXCEPT ![w] = @ \o hand[w]]
       /\ hand' = [hand EXCEPT ![w] = << >>]
       /\ UNCHANGED <<queue, qabort, aborted, draining, done, late>>
    \/ Fails /\ LeavesAborting(w, "send")

\* mutant: the decoder is never drained
CheckUndrained(w) == LeavesQuietly(w, "check")

\* the loop has ended: the decoder is drained unless the player stops
Check(w) ==
    \/ /\ stopRequested \/ aborted
       /\ LeavesQuietly(w, "check")
    \/ /\ ~stopRequested /\ ~aborted
       /\ AtPlace(w, "check", "recv")
       /\ draining' = [draining EXCEPT ![w] = TRUE]
       /\ UNCHANGED <<queue, qabort, aborted, hand, dec, done, late, errors>>

HasFrame(w) == Len(dec[w]) > (IF draining[w] THEN 0 ELSE Delay[w])

\* present_frame up to the swap of frameGraph and spareFrameGraph
ReceiveVideo ==
    /\ ~stopRequested /\ HasFrame("video")
    /\ AtPlace("video", "recv", "sync") /\ Works
    /\ Counts("swap")
    /\ UNCHANGED <<queue, qabort, aborted, hand, dec, draining, done>>

\* mutant: the frame does not wait while paused
SyncUnpaused ==
    /\ \/ stopRequested /\ LeavesQuietly("video", "sync")
       \/ /\ ~stopRequested /\ AtPlace("video", "sync", "tick")
          /\ UNCHANGED <<queue, qabort, aborted, hand, dec, draining, done, late, errors>>

\* sync_video_clock: the frame waits while paused ...
Sync ==
    /\ ~Held
    /\ \/ stopRequested /\ LeavesQuietly("video", "sync")
       \/ /\ ~stopRequested /\ AtPlace("video", "sync", "tick")
          /\ UNCHANGED <<queue, qabort, aborted, hand, dec, draining, done, late, errors>>

\* ... then its time comes, or the loop looks at the pause again, or at the stop
NotDue ==
    /\ Held
    /\ AtPlace("video", "tick", "sync")
    /\ UNCHANGED <<queue, qabort, aborted, hand, dec, draining, done, late, errors>>

StopSeen == stopRequested /\ LeavesQuietly("video", "tick")

Present ==
    /\ AtPlace("video", "tick", "recv") /\ Works
    /\ dec' = [dec EXCEPT !["video"] = Tail(@)]
    /\ done' = [done EXCEPT !["video"] = Head(dec["video"])]
    /\ Counts("present")
    /\ UNCHANGED <<queue, qabort, aborted, hand, draining>>

ReceiveAudio ==
    /\ ~stopRequested /\ HasFrame("audio")
    /\ AtPlace("audio", "recv", "ready") /\ Works
    /\ UNCHANGED <<queue, qabort, aborted, hand, dec, draining, done, late>>

AudioPause ==
    /\ ~Held
    /\ \/ stopRequested /\ LeavesQuietly("audio", "ready")
       \/ /\ ~stopRequested /\ AtPlace("audio", "ready", "write")
          /\ UNCHANGED <<queue, qabort, aborted, hand, dec, draining, done, late, errors>>

\* queue_audio_frame, or nothing when muted
QueueAudioFrame ==
    /\ AtPlace("audio", "write", "recv") /\ Works
    /\ dec' = [dec EXCEPT !["audio"] = Tail(@)]
    /\ done' = [done EXCEPT !["audio"] = Head(dec["audio"])]
    /\ Counts("sound")
    /\ UNCHANGED <<queue, qabort, aborted, hand, draining>>

\* audio_queue_write gives up on a stop, or when the output thread has failed
QueueAudioFails ==
    /\ LeavesAborting("audio", "write")
    /\ IF stopRequested THEN Works ELSE Fails

ReceiveNothing(w) ==
    \/ /\ stopRequested \/ (draining[w] /\ ~HasFrame(w))
       /\ LeavesQuietly(w, "recv")
    \/ /\ ~stopRequested /\ ~draining[w] /\ ~HasFrame(w)
       /\ AtPlace(w, "recv", "top")
       /\ UNCHANGED <<queue, qabort, aborted, hand, dec, draining, done, late, errors>>

ReceiveFails(w) == ~stopRequested /\ Fails /\ LeavesAborting(w, "recv")

Worker(w) ==
    \/ WorkerTop(w) \/ Pop(w) \/ WorkerPause(w) \/ SendPacket(w) \/ Check(w)
    \/ ReceiveNothing(w) \/ ReceiveFails(w)
    \/ w = "video" /\ (ReceiveVideo \/ Sync \/ NotDue \/ StopSeen \/ Present)
    \/ w = "audio" /\ (ReceiveAudio \/ AudioPause \/ QueueAudioFrame \/ QueueAudioFails)

Next == UI \/ Demux \/ \E w \in Workers : Worker(w)

Spec == Init /\ [][Next]_vars

\* The three threads are scheduled; the UI thread finishes a join it waits in, and nothing
\* forces the user to act.
Fairness == WF_vars(StopEnds) /\ WF_vars(Demux) /\ \A w \in Workers : WF_vars(Worker(w))
FairSpec == Spec /\ Fairness

-----------------------------------------------------------------------------
(* Properties *)

TypeOK ==
    /\ ui \in {"idle", "joining"} /\ loading \in BOOLEAN
    /\ playing \in BOOLEAN /\ paused \in BOOLEAN /\ stopRequested \in BOOLEAN
    /\ threadRunning \in BOOLEAN /\ eof \in BOOLEAN /\ loopPlay \in BOOLEAN
    /\ seekPending \in BOOLEAN /\ seekTarget \in Keys
    /\ dpc \in DemuxPlaces /\ pos \in 1 .. Last + 1 /\ target \in Keys /\ audioOn \in BOOLEAN
    /\ queue \in [Workers -> Seq(Positions)]
    /\ qeof \in BOOLEAN /\ qabort \in BOOLEAN /\ aborted \in BOOLEAN
    /\ pc \in [Workers -> WorkerPlaces]
    /\ hand \in [Workers -> Seq(Positions)] /\ dec \in [Workers -> Seq(Positions)]
    /\ draining \in [Workers -> BOOLEAN]
    /\ ran \subseteq Workers /\ done \in [Workers -> 0 .. Last]
    /\ late \in [Deeds -> 0 .. 2] /\ errors \in 0 .. MaxErrors

\* The packet that was read and is about to be queued for a worker.
Pushing(w) == IF dpc = "push" /\ Streams[pos - 1] = w THEN << pos - 1 >> ELSE << >>

Packets(s) == {s[i] : i \in 1 .. Len(s)}
InFileOrder(s) == \A i, j \in 1 .. Len(s) : i < j => s[i] < s[j]

\* What a running worker has not shown or sounded yet is exactly what the demultiplexer read of
\* its stream, in file order: no packet is lost, repeated, reordered or kept from before a seek,
\* whatever pops, restarts and pushes interleave, until an abort tears the pipeline down.
StreamIntact ==
    \A w \in Workers :
        pc[w] # "none" /\ ~aborted =>
            LET held == dec[w] \o hand[w] \o queue[w] \o Pushing(w)
            IN  InFileOrder(held) /\ Packets(held) = Segment(w, done[w] + 1, pos - 1)

\* The decoders, the queues and decodeLoop's own frame outlive the workers that use them: no
\* worker runs while they are opened, reopened or freed, nor after the end of a file.
WorkersWithinDemux ==
    dpc \in {"none", "open", "restart", "ended", "decide", "out"} => Joined

\* The flags the UI reads agree with the threads: one demultiplexer at a time, "playing" only with
\* one, and a stop request that does not survive into the next playback.
FlagsAgree ==
    /\ threadRunning <=> dpc # "none"
    /\ playing => threadRunning /\ ~paused
    /\ stopRequested => ui = "joining"

\* Threads, what they use and the flags the UI reads are in step (decodeLoop, stop, loadVideo).
ThreadsAgree == WorkersWithinDemux /\ FlagsAgree

\* Back-pressure keeps the only producer from ever waiting in packet_queue_push_clone, where it
\* would see neither a seek nor a pause: a queue it pushes to has room.
PushNeverWaits ==
    dpc = "push" /\ Wanted(Streams[pos - 1]) =>
        Len(queue[Streams[pos - 1]]) < Capacity[Streams[pos - 1]]

\* Once paused the picture is swapped, presented, and sound queued, at most once more (the frame a
\* worker already had past its check), until play or a seek.
PauseFreezes == \A d \in Deeds : late[d] <= 1

\* "Done" is reported only when everything read from the file was presented.
DoneIsDone ==
    eof' /\ ~eof => \A w \in ran : Segment(w, done[w] + 1, pos - 1) = {}
DoneIsDoneAlways == [][DoneIsDone]_vars

\* stop(), loadVideo() and the destructor join the demultiplexer on the UI thread: the join ends,
\* wherever the threads wait (an empty queue, a pause, a restart).
StopCompletes == ui = "joining" ~> ui = "idle"

\* A seek is taken, in a pause too, unless the thread ends first.
SeekTaken == seekPending ~> ~seekPending \/ ~threadRunning

\* A restart does not hang in its joins, except while the player stays paused.
RestartCompletes == dpc = "join" ~> dpc # "join" \/ Held
=============================================================================
