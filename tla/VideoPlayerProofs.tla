-------------------------- MODULE VideoPlayerProofs --------------------------
(***************************************************************************)
(* Proofs about VideoPlayer, for every file, every queue size and decoder   *)
(* delay that its assumptions allow and any use of the player.              *)
(***************************************************************************)
EXTENDS VideoPlayer, SequenceTheorems, TLAPS

-----------------------------------------------------------------------------
(* The inductive invariant *)

\* A worker about to show or sound a frame has one in its decoder.
FrameInHand ==
    /\ pc["video"] \in {"sync", "tick"} => dec["video"] # << >>
    /\ pc["audio"] \in {"ready", "write"} => dec["audio"] # << >>

\* The packet about to be queued is one of the file.
PushRange == dpc = "push" => pos - 1 \in Positions

\* What was done since the pause says where the worker that did it waits now, unless it is being
\* stopped; nothing counts while a seek is pending or the player runs.
PauseInv ==
    /\ late # Nothing => paused /\ ~seekPending
    /\ \A d \in Deeds : late[d] <= 1
    /\ late["swap"] = 0 \/ pc["video"] = "sync" \/ stopRequested \/ dpc = "none"
    /\ late["present"] = 0 \/ pc["video"] # "tick" \/ stopRequested
    /\ late["sound"] = 0 \/ pc["audio"] # "write" \/ stopRequested

Control == WorkersWithinDemux /\ FlagsAgree /\ PushRange /\ PushNeverWaits

IInv == TypeOK /\ FrameInHand /\ Control /\ PauseInv

-----------------------------------------------------------------------------
(* The packets' way, inductive together with IInv *)

\* The packets a worker has or will get, in the order in which it shows or sounds them.
Pipeline(w) == dec[w] \o hand[w] \o queue[w] \o Pushing(w)

\* A sequence holds the packets of a stream between two positions, in file order.
Holds(s, w, from, to) == InFileOrder(s) /\ Packets(s) = Segment(w, from, to)

\* What StreamIntact says of one worker; the next packet to read is behind what it showed last.
Intact(w) ==
    pc[w] # "none" /\ ~aborted => done[w] < pos /\ Holds(Pipeline(w), w, done[w] + 1, pos - 1)

\* A popped packet is in the worker's hand until it is sent.
HandEmpty == \A w \in Workers : pc[w] \notin {"pause", "send"} => hand[w] = << >>

\* The queues are aborted alone only on the way to a restart, finished only past the last read, and
\* torn down with the pipeline before the thread ends.
QueueFlags ==
    /\ qabort /\ ~aborted => dpc \in {"join", "restart"}
    /\ qeof => dpc \notin {"top", "take", "abortq", "wait", "recheck", "read", "push"}
    /\ dpc \in {"endjoin", "out", "none", "open"} => aborted \/ ran = {}

\* A worker drains its decoder when there is nothing more to pop.
Draining ==
    \A w \in Workers :
        (pc[w] = "check" \/ draining[w]) /\ ~qabort => qeof /\ queue[w] = << >>

Finished(w) == Segment(w, done[w] + 1, pos - 1) = {}

\* A worker that left of itself had everything shown.
Leavers ==
    \A w \in ran :
        pc[w] = "none" /\ ~aborted /\ ~stopRequested /\ ~qabort => qeof /\ Finished(w)

\* The end of the file is decided on when that is so of both.
Decided == dpc = "decide" => \A w \in ran : Finished(w)

Flow == HandEmpty /\ (\A w \in Workers : Intact(w)) /\ QueueFlags /\ Draining /\ Leavers /\ Decided

-----------------------------------------------------------------------------
(* Types, in three parts *)

PlaceTypes ==
    /\ ui \in {"idle", "joining"} /\ loading \in BOOLEAN
    /\ playing \in BOOLEAN /\ paused \in BOOLEAN /\ stopRequested \in BOOLEAN
    /\ threadRunning \in BOOLEAN /\ eof \in BOOLEAN /\ loopPlay \in BOOLEAN
    /\ seekPending \in BOOLEAN /\ seekTarget \in Keys
    /\ dpc \in DemuxPlaces /\ pos \in 1 .. Last + 1 /\ target \in Keys /\ audioOn \in BOOLEAN
    /\ qeof \in BOOLEAN /\ ran \subseteq Workers
    /\ pc \in [Workers -> WorkerPlaces]

DataTypes ==
    /\ queue \in [Workers -> Seq(Positions)]
    /\ hand \in [Workers -> Seq(Positions)] /\ dec \in [Workers -> Seq(Positions)]
    /\ draining \in [Workers -> BOOLEAN]
    /\ done \in [Workers -> 0 .. Last]

RestTypes ==
    /\ qabort \in BOOLEAN /\ aborted \in BOOLEAN
    /\ late \in [Deeds -> 0 .. 2] /\ errors \in 0 .. MaxErrors

\* The parts are the type invariant.
LEMMA TypeParts ==
  /\ TypeOK <=> PlaceTypes /\ DataTypes /\ RestTypes
  /\ TypeOK' <=> PlaceTypes' /\ DataTypes' /\ RestTypes'
  BY DEF TypeOK, PlaceTypes, DataTypes, RestTypes

\* Facts about a file and its key frames.
LEMMA FileFacts ==
  /\ Last \in Nat /\ Last >= 1
  /\ Streams \in [Positions -> Workers]
  /\ Keys \subseteq Positions /\ 1 \in Keys
  <1>1. Streams \in Seq(Workers) /\ Keys \subseteq Positions /\ 1 \in Keys
    BY FileAssumption
  <1>2. Last \in Nat /\ Streams \in [1 .. Last -> Workers]
    BY <1>1 DEF Last
  <1>3. QED
    BY <1>1, <1>2 DEF Positions

\* The constant values of the types.
LEMMA TypeFacts ==
  /\ Nothing \in [Deeds -> 0 .. 2]
  /\ MaxErrors \in Nat
  /\ \A w \in Workers : HighWater[w] \in Nat /\ Capacity[w] \in Nat /\ HighWater[w] <= Capacity[w]
  BY QueueAssumption DEF Nothing, Deeds

\* Failures are bounded.
LEMMA ErrorsBounded ==
  ASSUME errors \in 0 .. MaxErrors, Works \/ Fails
  PROVE  errors' \in 0 .. MaxErrors
  BY TypeFacts DEF Works, Fails

\* A new thread, or a failure to create one, leaves the flags of their types.
LEMMA StartThreadTypes ==
  ASSUME TypeOK, StartThread
  PROVE  /\ stopRequested' \in BOOLEAN /\ paused' \in BOOLEAN /\ eof' \in BOOLEAN
         /\ playing' \in BOOLEAN /\ threadRunning' \in BOOLEAN
         /\ dpc' \in DemuxPlaces /\ errors' \in 0 .. MaxErrors
  <1>1. errors \in 0 .. MaxErrors /\ dpc \in DemuxPlaces
    BY DEF TypeOK
  <1>2. errors' \in 0 .. MaxErrors
    BY <1>1, ErrorsBounded DEF StartThread
  <1>3. dpc' \in DemuxPlaces
    BY <1>1 DEF StartThread, DemuxPlaces
  <1>4. QED
    BY <1>2, <1>3 DEF StartThread

\* The user's operations preserve the types.
LEMMA UITypes ==
  ASSUME TypeOK, UI
  PROVE  TypeOK'
  <1>n. Nothing \in [Deeds -> 0 .. 2]
    BY TypeFacts
  <1>1. CASE PlayStarts
    BY <1>1, <1>n, StartThreadTypes DEF PlayStarts, TypeOK, uivars, seekvars, pipevars, workervars, history
  <1>2. CASE PlayResumes
    BY <1>2, <1>n DEF PlayResumes, TypeOK, uivars, seekvars, demuxvars, pipevars, workervars, history
  <1>3. CASE Pause
    BY <1>3 DEF Pause, TypeOK, uivars, seekvars, demuxvars, pipevars, workervars, history
  <1>4. CASE SeekToMs
    <2>1. /\ UNCHANGED <<ui, loading, playing, paused, stopRequested, threadRunning, loopPlay>>
          /\ UNCHANGED <<dpc, pos, target, audioOn, queue, qeof, qabort, aborted>>
          /\ UNCHANGED <<pc, hand, dec, draining, ran, done, errors>>
          /\ seekPending' = TRUE /\ eof' = FALSE /\ seekTarget' \in Keys /\ late' = Nothing
      BY <1>4 DEF SeekToMs, uivars, demuxvars, pipevars, workervars, history
    <2>2. PlaceTypes'
      BY <2>1, TypeParts DEF PlaceTypes
    <2>3. DataTypes' /\ RestTypes'
      BY <1>n, <2>1, TypeParts DEF DataTypes, RestTypes
    <2>4. QED
      BY <2>2, <2>3, TypeParts
  <1>5. CASE SetLoop
    BY <1>5 DEF SetLoop, TypeOK, uivars, seekvars, demuxvars, pipevars, workervars, history
  <1>6. CASE StopBegins
    BY <1>6 DEF StopBegins, TypeOK, seekvars, demuxvars, pipevars, workervars, history
  <1>7. CASE StopEnds
    <2>1. CASE loading /\ StartThread
      BY <2>1, <1>7, <1>n, StartThreadTypes DEF StopEnds, TypeOK, seekvars, pipevars, workervars, history
    <2>2. CASE ~loading \/ UNCHANGED errors
      BY <2>2, <1>7, <1>n DEF StopEnds, StartThread, Fails, TypeOK, DemuxPlaces, seekvars, pipevars, workervars, history
    <2>3. QED
      BY <2>1, <2>2, <1>7 DEF StopEnds
  <1>8. QED
    BY <1>1, <1>2, <1>3, <1>4, <1>5, <1>6, <1>7 DEF UI

\* Fresh queues and workers are of their types.
LEMMA StartsWorkersTypes ==
  ASSUME TypeOK, NEW p \in Keys, audioOn' \in BOOLEAN, StartsWorkers(p)
  PROVE  /\ DataTypes' /\ qeof' \in BOOLEAN /\ qabort' \in BOOLEAN /\ aborted' \in BOOLEAN
         /\ ran' \subseteq Workers /\ pc' \in [Workers -> WorkerPlaces]
         /\ pos' \in 1 .. Last + 1 /\ errors' \in 0 .. MaxErrors
  <1>1. PICK audio \in BOOLEAN :
            /\ ran' = {"video"} \cup (IF audio THEN {"audio"} ELSE {})
            /\ Works \/ Fails
    BY DEF StartsWorkers
  <1>2. errors' \in 0 .. MaxErrors
    BY <1>1, ErrorsBounded, TypeParts DEF RestTypes
  <1>3. ran' \subseteq Workers
    BY <1>1 DEF Workers
  <1>4. p \in 1 .. Last /\ p - 1 \in 0 .. Last
    BY FileFacts DEF Positions
  <1>5. /\ queue' \in [Workers -> Seq(Positions)]
        /\ hand' \in [Workers -> Seq(Positions)] /\ dec' \in [Workers -> Seq(Positions)]
    BY DEF StartsWorkers
  <1>6. draining' \in [Workers -> BOOLEAN] /\ done' \in [Workers -> 0 .. Last]
    BY <1>4 DEF StartsWorkers
  <1>7. pc' \in [Workers -> WorkerPlaces]
    BY DEF StartsWorkers, WorkerPlaces
  <1>8. pos' \in 1 .. Last + 1
    BY <1>4, FileFacts DEF StartsWorkers
  <1>9. QED
    BY <1>2, <1>3, <1>5, <1>6, <1>7, <1>8 DEF StartsWorkers, DataTypes

\* The packet read last is put into a queue, which stays one of packets.
LEMMA PushTypes ==
  ASSUME TypeOK, PushRange, Push
  PROVE  TypeOK'
  <1> DEFINE w == Streams[pos - 1]
  <1>1. pos - 1 \in Positions /\ w \in Workers
    BY FileFacts DEF PushRange, Push
  <1>2. queue' \in [Workers -> Seq(Positions)]
    <2>1. CASE queue' = [queue EXCEPT ![w] = Append(@, pos - 1)]
      BY <2>1, <1>1, TypeParts DEF DataTypes
    <2>2. CASE UNCHANGED queue
      BY <2>2, TypeParts DEF DataTypes
    <2>3. QED
      BY <2>1, <2>2 DEF Push, pipevars
  <1>3. /\ UNCHANGED <<hand, dec, draining, done, late, errors, qeof, qabort, pc, ran>>
        /\ UNCHANGED <<ui, loading, flags, seekvars, pos, target, audioOn>>
        /\ aborted' \in {aborted, TRUE} /\ dpc' \in {"top", "end"}
    BY DEF Push, Goes, pipevars, workervars, history, uivars
  <1>4. PlaceTypes'
    BY <1>3, TypeParts DEF PlaceTypes, DemuxPlaces, flags, seekvars
  <1>5. DataTypes' /\ RestTypes'
    BY <1>2, <1>3, TypeParts DEF DataTypes, RestTypes
  <1>6. QED
    BY <1>4, <1>5, TypeParts

\* The demultiplexer's steps preserve the types.
LEMMA DemuxTypes ==
  ASSUME TypeOK, PushRange, Demux
  PROVE  TypeOK'
  <1>1. CASE OpenFails
    BY <1>1, ErrorsBounded DEF OpenFails, Goes, TypeOK, DemuxPlaces, uivars, flags, seekvars, demuxvars, pipevars, workervars, history
  <1>2. CASE Open
    <2>1. audioOn' \in BOOLEAN /\ StartsWorkers(1) /\ dpc' \in DemuxPlaces
      BY <1>2 DEF Open, DemuxPlaces
    <2>2. QED
      <3>1. /\ DataTypes' /\ qeof' \in BOOLEAN /\ qabort' \in BOOLEAN /\ aborted' \in BOOLEAN
            /\ ran' \subseteq Workers /\ pc' \in [Workers -> WorkerPlaces]
            /\ pos' \in 1 .. Last + 1 /\ errors' \in 0 .. MaxErrors
        BY <2>1, FileFacts, StartsWorkersTypes
      <3>2. UNCHANGED <<ui, loading, flags, seekvars, target, late>>
        BY <1>2 DEF Open, uivars
      <3>3. PlaceTypes'
        BY <2>1, <3>1, <3>2, TypeParts DEF PlaceTypes, flags, seekvars
      <3>4. RestTypes'
        BY <3>1, <3>2, TypeParts DEF RestTypes
      <3>5. QED
        BY <3>1, <3>3, <3>4, TypeParts
  <1>3. CASE LoopTop
    BY <1>3 DEF LoopTop, Goes, TypeOK, DemuxPlaces, uivars, flags, seekvars, demuxvars, pipevars, workervars, history
  <1>4. CASE TakeSeekRequest
    <2>1. PlaceTypes'
      BY <1>4, TypeParts DEF TakeSeekRequest, PlaceTypes, DemuxPlaces, uivars, pipevars, workervars, history
    <2>2. DataTypes' /\ RestTypes'
      BY <1>4, TypeParts DEF TakeSeekRequest, DataTypes, RestTypes, pipevars, workervars, history
    <2>3. QED
      BY <2>1, <2>2, TypeParts
  <1>5. CASE NoSeekRequest
    BY <1>5 DEF NoSeekRequest, Goes, TypeOK, DemuxPlaces, uivars, flags, seekvars, demuxvars, pipevars, workervars, history
  <1>6. CASE AbortQueues
    BY <1>6 DEF AbortQueues, Goes, TypeOK, DemuxPlaces, uivars, flags, seekvars, demuxvars, pipevars, workervars, history
  <1>7. CASE JoinBeforeRestart
    BY <1>7 DEF JoinBeforeRestart, Goes, TypeOK, DemuxPlaces, uivars, flags, seekvars, demuxvars, pipevars, workervars, history
  <1>8. CASE Restart
    <2>1. audioOn' \in BOOLEAN /\ StartsWorkers(target) /\ target \in Keys /\ dpc' \in DemuxPlaces
      BY <1>8 DEF Restart, DemuxPlaces, TypeOK
    <2>2. QED
      BY <1>8, <2>1, StartsWorkersTypes DEF Restart, TypeOK, DataTypes, uivars, seekvars
  <1>9. CASE RestartFails
    BY <1>9, ErrorsBounded DEF RestartFails, Goes, TypeOK, DemuxPlaces, uivars, flags, seekvars, demuxvars, pipevars, workervars, history
  <1>10. CASE WaitIfPaused
    BY <1>10 DEF WaitIfPaused, Goes, TypeOK, DemuxPlaces, uivars, flags, seekvars, demuxvars, pipevars, workervars, history
  <1>11. CASE Recheck
    BY <1>11 DEF Recheck, Goes, TypeOK, DemuxPlaces, uivars, flags, seekvars, demuxvars, pipevars, workervars, history
  <1>12. CASE Backpressure
    BY <1>12 DEF Backpressure, Goes, TypeOK, DemuxPlaces, uivars, flags, seekvars, demuxvars, pipevars, workervars, history
  <1>13. CASE ReadFrame
    <2>1. /\ pos \in 1 .. Last /\ pos' = pos + 1 /\ dpc' = "push"
          /\ UNCHANGED <<ui, loading, flags, seekvars, target, audioOn, qeof, ran, pc>>
          /\ UNCHANGED <<queue, hand, dec, draining, done, qabort, aborted, late, errors>>
      BY <1>13, FileFacts, TypeParts DEF ReadFrame, PlaceTypes, uivars, pipevars, workervars, history
    <2>2. PlaceTypes'
      BY <2>1, FileFacts, TypeParts DEF PlaceTypes, DemuxPlaces, flags, seekvars
    <2>3. DataTypes' /\ RestTypes'
      BY <2>1, TypeParts DEF DataTypes, RestTypes
    <2>4. QED
      BY <2>2, <2>3, TypeParts
  <1>14. CASE ReadEnds
    <2>1. errors' \in 0 .. MaxErrors
      BY <1>14, ErrorsBounded DEF ReadEnds, TypeOK
    <2>2. QED
      BY <1>14, <2>1 DEF ReadEnds, Goes, TypeOK, DemuxPlaces, uivars, flags, seekvars, demuxvars, pipevars, workervars, history
  <1>15. CASE Push
    BY <1>15, PushTypes
  <1>16. CASE JoinAtEof
    BY <1>16 DEF JoinAtEof, Goes, TypeOK, DemuxPlaces, uivars, flags, seekvars, demuxvars, pipevars, workervars, history
  <1>17. CASE Ended
    BY <1>17 DEF Ended, Goes, TypeOK, DemuxPlaces, uivars, flags, seekvars, demuxvars, pipevars, workervars, history
  <1>18. CASE PlayAgain
    BY <1>18, FileFacts, TypeFacts DEF PlayAgain, TypeOK, DemuxPlaces, uivars, flags, seekvars, demuxvars, pipevars, workervars, history
  <1>19. CASE Done
    BY <1>19, TypeFacts DEF Done, TypeOK, DemuxPlaces, uivars, flags, seekvars, demuxvars, pipevars, workervars, history
  <1>20. CASE Cleanup
    BY <1>20 DEF Cleanup, Goes, TypeOK, DemuxPlaces, uivars, flags, seekvars, demuxvars, pipevars, workervars, history
  <1>21. CASE JoinAtEnd
    BY <1>21 DEF JoinAtEnd, Goes, TypeOK, DemuxPlaces, uivars, flags, seekvars, demuxvars, pipevars, workervars, history
  <1>22. CASE ThreadEnds
    <2>1. /\ UNCHANGED <<ui, loading, eof, loopPlay, seekvars, pos, target, audioOn, qeof, ran, pc>>
          /\ UNCHANGED <<queue, hand, dec, draining, done, qabort, aborted, late, errors>>
          /\ dpc' = "none" /\ threadRunning' = FALSE /\ stopRequested' = FALSE
          /\ paused' = paused /\ playing' = (playing /\ paused)
      BY <1>22 DEF ThreadEnds, uivars, pipevars, workervars, history
    <2>2. PlaceTypes'
      BY <2>1, TypeParts DEF PlaceTypes, DemuxPlaces, seekvars
    <2>3. DataTypes' /\ RestTypes'
      BY <2>1, TypeParts DEF DataTypes, RestTypes
    <2>4. QED
      BY <2>2, <2>3, TypeParts
  <1>23. QED
    BY <1>1, <1>2, <1>3, <1>4, <1>5, <1>6, <1>7, <1>8, <1>9, <1>10, <1>11, <1>12, <1>13, <1>14, <1>15, <1>16, <1>17, <1>18, <1>19, <1>20, <1>21, <1>22 DEF Demux

\* A worker's step leaves the rest of the player alone.
LEMMA AtPlaceTypes ==
  ASSUME TypeOK, NEW w \in Workers, NEW from, NEW to \in WorkerPlaces, AtPlace(w, from, to)
  PROVE  PlaceTypes'
  BY TypeParts DEF AtPlace, PlaceTypes, uivars, flags, seekvars, demuxvars

\* A worker that leaves holds nothing.
LEMMA LeavesTypes ==
  ASSUME TypeOK, NEW w \in Workers, NEW from, Leaves(w, from)
  PROVE  PlaceTypes' /\ DataTypes' /\ UNCHANGED late
  <1>1. PlaceTypes'
    BY AtPlaceTypes, "none" \in WorkerPlaces DEF Leaves, WorkerPlaces
  <1>2. hand' \in [Workers -> Seq(Positions)] /\ dec' \in [Workers -> Seq(Positions)]
    BY TypeParts DEF Leaves, DataTypes
  <1>3. draining' \in [Workers -> BOOLEAN] /\ UNCHANGED <<queue, done, late>>
    BY TypeParts DEF Leaves, DataTypes
  <1>4. QED
    BY <1>1, <1>2, <1>3, TypeParts DEF DataTypes

\* So are both ways of leaving well typed.
LEMMA LeavingTypes ==
  ASSUME TypeOK, NEW w \in Workers, NEW from,
         \/ LeavesQuietly(w, from)
         \/ LeavesAborting(w, from) /\ (Works \/ Fails)
  PROVE  TypeOK'
  <1>1. PlaceTypes' /\ DataTypes' /\ UNCHANGED late
    BY LeavesTypes DEF LeavesQuietly, LeavesAborting
  <1>2. qabort' \in BOOLEAN /\ aborted' \in BOOLEAN /\ errors' \in 0 .. MaxErrors
    BY TypeParts, ErrorsBounded DEF RestTypes, LeavesQuietly, LeavesAborting
  <1>3. QED
    BY <1>1, <1>2, TypeParts DEF RestTypes

\* Counting a deed stays within the bound.
LEMMA CountsTypes ==
  ASSUME late \in [Deeds -> 0 .. 2], NEW deed \in Deeds, Counts(deed)
  PROVE  late' \in [Deeds -> 0 .. 2]
  BY DEF Counts

\* A step that only moves the worker on, and perhaps sets draining, preserves the types.
LEMMA MovingTypes ==
  ASSUME TypeOK, NEW w \in Workers, NEW from, NEW to \in WorkerPlaces, AtPlace(w, from, to),
         UNCHANGED <<queue, hand, dec, done, qabort, aborted>>,
         draining' \in [Workers -> BOOLEAN], late' \in [Deeds -> 0 .. 2], Works
  PROVE  TypeOK'
  <1>1. PlaceTypes'
    BY AtPlaceTypes
  <1>2. QED
    BY <1>1, TypeParts DEF DataTypes, RestTypes, Works

\* Taking the first frame out of the decoder.
LEMMA ShowingTypes ==
  ASSUME TypeOK, NEW w \in Workers, dec[w] # << >>,
         NEW from, NEW to \in WorkerPlaces, AtPlace(w, from, to), Works,
         dec' = [dec EXCEPT ![w] = Tail(@)], done' = [done EXCEPT ![w] = Head(dec[w])],
         late' \in [Deeds -> 0 .. 2],
         UNCHANGED <<queue, qabort, aborted, hand, draining>>
  PROVE  TypeOK'
  <1>1. dec[w] \in Seq(Positions) /\ Positions \subseteq 0 .. Last
    BY TypeParts, FileFacts DEF DataTypes, Positions
  <1>2. Head(dec[w]) \in Positions /\ Tail(dec[w]) \in Seq(Positions)
    BY <1>1
  <1>3. dec' \in [Workers -> Seq(Positions)] /\ done' \in [Workers -> 0 .. Last]
    BY <1>1, <1>2, TypeParts DEF DataTypes
  <1>4. PlaceTypes'
    BY AtPlaceTypes
  <1>5. QED
    BY <1>3, <1>4, TypeParts DEF DataTypes, RestTypes, Works

\* The workers' steps preserve the types, given that a frame to be shown is there.
LEMMA WorkerTypes ==
  ASSUME NEW w \in Workers, TypeOK, FrameInHand, Worker(w)
  PROVE  TypeOK'
  <1> USE DEF WorkerPlaces
  <1>t. late \in [Deeds -> 0 .. 2] /\ draining \in [Workers -> BOOLEAN]
    BY TypeParts DEF RestTypes, DataTypes
  <1>v. "video" \in Workers /\ "audio" \in Workers
    BY DEF Workers
  <1>1. CASE WorkerTop(w)
    BY <1>1, <1>t, LeavingTypes, MovingTypes DEF WorkerTop, Works
  <1>2. CASE Pop(w)
    <2>1. CASE queue[w] # << >> /\ AtPlace(w, "pop", "pause") /\ queue' = [queue EXCEPT ![w] = Tail(@)]
               /\ hand' = [hand EXCEPT ![w] = << Head(queue[w]) >>]
               /\ UNCHANGED <<qabort, aborted, dec, draining, done, late, errors>>
      <3>1. queue[w] \in Seq(Positions)
        BY TypeParts DEF DataTypes
      <3>2. Head(queue[w]) \in Positions /\ Tail(queue[w]) \in Seq(Positions)
        BY <3>1, <2>1
      <3>3. queue' \in [Workers -> Seq(Positions)] /\ hand' \in [Workers -> Seq(Positions)]
        BY <3>2, <2>1, TypeParts DEF DataTypes
      <3>4. QED
        BY <3>3, <2>1, AtPlaceTypes, TypeParts DEF DataTypes, RestTypes
    <2>2. CASE AtPlace(w, "pop", "check")
               /\ UNCHANGED <<queue, qabort, aborted, hand, dec, draining, done, late, errors>>
      BY <2>2, <1>t, MovingTypes DEF Works
    <2>3. QED
      BY <2>1, <2>2, <1>2 DEF Pop
  <1>3. CASE WorkerPause(w)
    BY <1>3, <1>t, LeavingTypes, MovingTypes DEF WorkerPause, Works
  <1>4. CASE SendPacket(w)
    <2>1. CASE Fails /\ LeavesAborting(w, "send")
      BY <2>1, LeavingTypes
    <2>2. CASE AtPlace(w, "send", "recv") /\ Works /\ dec' = [dec EXCEPT ![w] = @ \o hand[w]]
               /\ hand' = [hand EXCEPT ![w] = << >>]
               /\ UNCHANGED <<queue, qabort, aborted, draining, done, late>>
      <3>1. dec' \in [Workers -> Seq(Positions)] /\ hand' \in [Workers -> Seq(Positions)]
        BY <2>2, TypeParts DEF DataTypes
      <3>2. QED
        BY <3>1, <2>2, AtPlaceTypes, TypeParts DEF DataTypes, RestTypes, Works
    <2>3. QED
      BY <2>1, <2>2, <1>4 DEF SendPacket
  <1>5. CASE Check(w)
    BY <1>5, <1>t, LeavingTypes, MovingTypes DEF Check, Works
  <1>6. CASE ReceiveNothing(w)
    BY <1>6, <1>t, LeavingTypes, MovingTypes DEF ReceiveNothing, Works
  <1>7. CASE ReceiveFails(w)
    BY <1>7, LeavingTypes DEF ReceiveFails
  <1>8. CASE ReceiveVideo
    BY <1>8, <1>t, <1>v, CountsTypes, MovingTypes DEF ReceiveVideo, Deeds
  <1>9. CASE Sync
    BY <1>9, <1>t, <1>v, LeavingTypes, MovingTypes DEF Sync, Works
  <1>10. CASE NotDue
    BY <1>10, <1>t, <1>v, MovingTypes DEF NotDue, Works
  <1>11. CASE StopSeen
    BY <1>11, <1>v, LeavingTypes DEF StopSeen
  <1>12. CASE Present
    <2>1. dec["video"] # << >>
      BY <1>12 DEF Present, AtPlace, FrameInHand
    <2>2. late' \in [Deeds -> 0 .. 2]
      BY <1>12, <1>t, CountsTypes DEF Present, Deeds
    <2>3. QED
      BY <1>12, <1>v, <2>1, <2>2, ShowingTypes DEF Present
  <1>13. CASE ReceiveAudio
    BY <1>13, <1>t, <1>v, MovingTypes DEF ReceiveAudio
  <1>14. CASE AudioPause
    BY <1>14, <1>t, <1>v, LeavingTypes, MovingTypes DEF AudioPause, Works
  <1>15. CASE QueueAudioFrame
    <2>1. dec["audio"] # << >>
      BY <1>15 DEF QueueAudioFrame, AtPlace, FrameInHand
    <2>2. late' \in [Deeds -> 0 .. 2]
      BY <1>15, <1>t, CountsTypes DEF QueueAudioFrame, Deeds
    <2>3. QED
      BY <1>15, <1>v, <2>1, <2>2, ShowingTypes DEF QueueAudioFrame
  <1>16. CASE QueueAudioFails
    BY <1>16, <1>v, LeavingTypes DEF QueueAudioFails
  <1>17. QED
    BY <1>1, <1>2, <1>3, <1>4, <1>5, <1>6, <1>7, <1>8, <1>9, <1>10, <1>11, <1>12, <1>13, <1>14,
       <1>15, <1>16 DEF Worker

-----------------------------------------------------------------------------
(* What one thread leaves of the others *)

\* A worker that steps is running; it changes no place but its own, and only shortens the queues.
LEMMA WorkerFrame ==
  ASSUME NEW w \in Workers, TypeOK, Worker(w)
  PROVE  /\ pc[w] # "none"
         /\ UNCHANGED <<uivars, flags, seekvars, demuxvars>>
         /\ \A v \in Workers : v # w => pc'[v] = pc[v]
         /\ \A v \in Workers : Len(queue'[v]) <= Len(queue[v])
  <1> DEFINE Frame ==
        /\ pc[w] # "none"
        /\ UNCHANGED <<uivars, flags, seekvars, demuxvars>>
        /\ \A v \in Workers : v # w => pc'[v] = pc[v]
  <1>1. pc \in [Workers -> WorkerPlaces] /\ queue \in [Workers -> Seq(Positions)]
    BY DEF TypeOK
  <1>2. ASSUME NEW from, NEW to, AtPlace(w, from, to), from # "none"
        PROVE  Frame
    BY <1>1, <1>2 DEF AtPlace
  <1>3. ASSUME NEW from, LeavesQuietly(w, from) \/ LeavesAborting(w, from), from # "none"
        PROVE  Frame /\ UNCHANGED queue
    BY <1>2, <1>3 DEF LeavesQuietly, LeavesAborting, Leaves
  <1> HIDE DEF Frame
  <1>4. CASE WorkerTop(w) \/ WorkerPause(w) \/ SendPacket(w) \/ Check(w) \/ ReceiveNothing(w) \/ ReceiveFails(w)
    <2>1. Frame /\ UNCHANGED queue
      BY <1>2, <1>3, <1>4 DEF WorkerTop, WorkerPause, SendPacket, Check, ReceiveNothing, ReceiveFails
    <2>2. QED
      BY <2>1, <1>1 DEF Frame
  <1>5. CASE Pop(w)
    <2>1. Frame
      BY <1>2, <1>5 DEF Pop
    <2>2. CASE UNCHANGED queue
      BY <2>1, <2>2, <1>1 DEF Frame
    <2>3. CASE queue' = [queue EXCEPT ![w] = Tail(@)] /\ queue[w] # << >>
      <3>1. queue[w] \in Seq(Positions) /\ Len(Tail(queue[w])) <= Len(queue[w])
        BY <1>1, <2>3
      <3>2. \A v \in Workers : Len(queue'[v]) <= Len(queue[v])
        BY <1>1, <2>3, <3>1
      <3>3. QED
        BY <2>1, <3>2 DEF Frame
    <2>4. QED
      BY <2>2, <2>3, <1>5 DEF Pop
  <1>6. CASE w = "video" /\ (ReceiveVideo \/ Sync \/ NotDue \/ StopSeen \/ Present)
    <2>1. Frame /\ UNCHANGED queue
      BY <1>2, <1>3, <1>6 DEF ReceiveVideo, Sync, NotDue, StopSeen, Present
    <2>2. QED
      BY <2>1, <1>1 DEF Frame
  <1>7. CASE w = "audio" /\ (ReceiveAudio \/ AudioPause \/ QueueAudioFrame \/ QueueAudioFails)
    <2>1. Frame /\ UNCHANGED queue
      BY <1>2, <1>3, <1>7 DEF ReceiveAudio, AudioPause, QueueAudioFrame, QueueAudioFails
    <2>2. QED
      BY <2>1, <1>1 DEF Frame
  <1>8. QED
    BY <1>4, <1>5, <1>6, <1>7 DEF Worker

\* The demultiplexer leaves the workers alone unless it starts them.
LEMMA DemuxFrame ==
  ASSUME Demux
  PROVE  /\ dpc # "none"
         /\ \/ UNCHANGED <<ui, pc, dec>>
            \/ /\ dpc \in {"open", "restart"} /\ UNCHANGED ui
               /\ \A w \in Workers : pc'[w] \in {"none", "top"}
  <1> DEFINE Goal ==
         /\ dpc # "none"
         /\ \/ UNCHANGED <<ui, pc, dec>>
            \/ /\ dpc \in {"open", "restart"} /\ UNCHANGED ui
               /\ \A w \in Workers : pc'[w] \in {"none", "top"}
  <1>1. CASE Open \/ Restart
    <2>1. \E p : StartsWorkers(p)
      BY <1>1 DEF Open, Restart
    <2>2. \A w \in Workers : pc'[w] \in {"none", "top"}
      BY <2>1 DEF StartsWorkers
    <2>3. dpc \in {"open", "restart"} /\ UNCHANGED ui
      BY <1>1 DEF Open, Restart, uivars
    <2>4. QED
      BY <2>2, <2>3
  <1>2. ASSUME NEW from, NEW to, Goes(from, to), from # "none"
        PROVE  Goal
    BY <1>2 DEF Goes, workervars, uivars
  <1>3. CASE TakeSeekRequest \/ ReadFrame \/ PlayAgain \/ Done \/ ThreadEnds
    BY <1>3 DEF TakeSeekRequest, ReadFrame, PlayAgain, Done, ThreadEnds, workervars, uivars
  <1>4. CASE Push
    BY <1>2, <1>4 DEF Push
  <1>5. CASE OpenFails \/ LoopTop \/ NoSeekRequest \/ AbortQueues \/ JoinBeforeRestart \/ RestartFails
    BY <1>2, <1>5 DEF OpenFails, LoopTop, NoSeekRequest, AbortQueues, JoinBeforeRestart, RestartFails
  <1>6. CASE WaitIfPaused \/ Recheck \/ Backpressure \/ ReadEnds
    BY <1>2, <1>6 DEF WaitIfPaused, Recheck, Backpressure, ReadEnds
  <1>7. CASE JoinAtEof \/ Ended \/ Cleanup \/ JoinAtEnd
    BY <1>2, <1>7 DEF JoinAtEof, Ended, Cleanup, JoinAtEnd
  <1>8. QED
    BY <1>1, <1>3, <1>4, <1>5, <1>6, <1>7 DEF Demux

\* The user's operations leave the workers and the queues alone.
LEMMA UIFrame ==
  ASSUME UI
  PROVE  UNCHANGED <<pos, queue, pc, dec>>
  BY DEF UI, PlayStarts, PlayResumes, Pause, SeekToMs, SetLoop, StopBegins, StopEnds,
         demuxvars, pipevars, workervars

-----------------------------------------------------------------------------
(* The parts of the invariant are preserved *)

\* A worker comes to the places where it shows a frame with one in its decoder, and takes it out
\* only when it leaves them.
LEMMA FrameStep ==
  ASSUME TypeOK, FrameInHand, Next
  PROVE  FrameInHand'
  <1>1. CASE UI
    BY <1>1, UIFrame DEF FrameInHand
  <1>2. CASE Demux
    BY <1>2, DemuxFrame DEF FrameInHand, Workers
  <1>3. ASSUME NEW w \in Workers, Worker(w)
        PROVE  FrameInHand'
    <2>1. /\ pc \in [Workers -> WorkerPlaces] /\ dec \in [Workers -> Seq(Positions)]
          /\ "video" \in Workers /\ "audio" \in Workers
      BY DEF TypeOK, Workers
    <2>2. \A v \in Workers : HasFrame(v) => dec[v] # << >>
      BY <2>1, QueueAssumption DEF HasFrame
    <2>3. ASSUME NEW from, NEW to, to \notin {"sync", "tick", "ready", "write"}, AtPlace(w, from, to),
                 \A v \in Workers : v # w => dec'[v] = dec[v]
          PROVE  FrameInHand'
      BY <2>1, <2>3 DEF FrameInHand, AtPlace
    <2>4. ASSUME NEW from, LeavesQuietly(w, from) \/ LeavesAborting(w, from)
          PROVE  FrameInHand'
      BY <2>1, <2>3, <2>4 DEF LeavesQuietly, LeavesAborting, Leaves
    <2>5. CASE WorkerTop(w) \/ Pop(w) \/ WorkerPause(w)
      BY <2>1, <2>3, <2>4, <2>5 DEF WorkerTop, Pop, WorkerPause
    <2>6. CASE SendPacket(w) \/ Check(w) \/ ReceiveNothing(w) \/ ReceiveFails(w)
      BY <2>1, <2>3, <2>4, <2>6 DEF SendPacket, Check, ReceiveNothing, ReceiveFails
    <2>7. CASE w = "video" /\ (StopSeen \/ Present)
      BY <2>1, <2>3, <2>4, <2>7 DEF StopSeen, Present
    <2>8. CASE w = "audio" /\ (QueueAudioFrame \/ QueueAudioFails)
      BY <2>1, <2>3, <2>4, <2>8 DEF QueueAudioFrame, QueueAudioFails
    <2>9. CASE ReceiveVideo \/ NotDue \/ ReceiveAudio
      BY <2>1, <2>2, <2>9 DEF ReceiveVideo, NotDue, ReceiveAudio, FrameInHand, AtPlace
    <2>10. CASE w = "video" /\ Sync
      BY <2>1, <2>4, <2>10 DEF Sync, FrameInHand, AtPlace
    <2>11. CASE w = "audio" /\ AudioPause
      BY <2>1, <2>4, <2>11 DEF AudioPause, FrameInHand, AtPlace
    <2>12. QED
      BY <1>3, <2>5, <2>6, <2>7, <2>8, <2>9, <2>10, <2>11 DEF Worker
  <1>4. QED
    BY <1>1, <1>2, <1>3 DEF Next

\* The flags follow the threads.
LEMMA FlagsStep ==
  ASSUME TypeOK, FlagsAgree, Next
  PROVE  FlagsAgree'
  <1>1. CASE UI
    BY <1>1 DEF UI, PlayStarts, PlayResumes, Pause, SeekToMs, SetLoop, StopBegins, StopEnds,
       StartThread, FlagsAgree, demuxvars, uivars
  <1>2. CASE Demux
    <2>1. ASSUME NEW from, NEW to, Goes(from, to), from # "none", to # "none"
          PROVE  FlagsAgree'
      BY <2>1 DEF Goes, FlagsAgree, flags, uivars
    <2>2. CASE Open \/ Restart \/ TakeSeekRequest \/ ReadFrame
      <3>1. /\ UNCHANGED <<playing, paused, threadRunning, stopRequested, ui>>
            /\ dpc # "none" /\ dpc' # "none"
        BY <2>2 DEF Open, Restart, TakeSeekRequest, ReadFrame, flags, uivars
      <3>2. QED
        BY <3>1 DEF FlagsAgree
    <2>t. playing \in BOOLEAN /\ paused \in BOOLEAN /\ threadRunning \in BOOLEAN
      BY DEF TypeOK
    <2>a. CASE PlayAgain \/ Done
      BY <2>a, <2>t DEF PlayAgain, Done, FlagsAgree, uivars
    <2>e. CASE ThreadEnds
      BY <2>e, <2>t DEF ThreadEnds, FlagsAgree, uivars
    <2>3. CASE OpenFails \/ LoopTop \/ NoSeekRequest \/ AbortQueues \/ JoinBeforeRestart \/ RestartFails
      BY <2>1, <2>3 DEF OpenFails, LoopTop, NoSeekRequest, AbortQueues, JoinBeforeRestart, RestartFails
    <2>4. CASE WaitIfPaused \/ Recheck \/ Backpressure \/ ReadEnds \/ Push
      BY <2>1, <2>4 DEF WaitIfPaused, Recheck, Backpressure, ReadEnds, Push
    <2>5. CASE JoinAtEof \/ Ended \/ Cleanup \/ JoinAtEnd
      BY <2>1, <2>5 DEF JoinAtEof, Ended, Cleanup, JoinAtEnd
    <2>6. QED
      BY <1>2, <2>2, <2>a, <2>e, <2>3, <2>4, <2>5 DEF Demux
  <1>3. CASE \E w \in Workers : Worker(w)
    BY <1>3, WorkerFrame DEF FlagsAgree, flags, demuxvars, uivars
  <1>4. QED
    BY <1>1, <1>2, <1>3 DEF Next

\* The demultiplexer opens, reopens, frees and ends only after its joins, and only it starts workers.
LEMMA WithinStep ==
  ASSUME TypeOK, WorkersWithinDemux, FlagsAgree, Next
  PROVE  WorkersWithinDemux'
  <1> DEFINE Quiet == {"none", "open", "restart", "ended", "decide", "out"}
  <1>1. CASE UI
    <2>1. dpc' = dpc \/ dpc = "none"
      BY <1>1 DEF UI, PlayStarts, PlayResumes, Pause, SeekToMs, SetLoop, StopBegins, StopEnds, demuxvars,
         FlagsAgree
    <2>2. QED
      BY <1>1, <2>1, UIFrame DEF WorkersWithinDemux, Joined
  <1>2. CASE Demux
    <2>1. CASE Open \/ Restart
      BY <2>1 DEF Open, Restart, WorkersWithinDemux
    <2>2. CASE TakeSeekRequest \/ ReadFrame \/ PlayAgain \/ Done
      BY <2>2 DEF TakeSeekRequest, ReadFrame, PlayAgain, Done, WorkersWithinDemux
    <2>3. CASE ThreadEnds
      BY <2>3 DEF ThreadEnds, WorkersWithinDemux, Joined, workervars
    <2>4. ASSUME NEW from, NEW to, Goes(from, to), to \in Quiet => Joined
          PROVE  WorkersWithinDemux'
      BY <2>4 DEF Goes, WorkersWithinDemux, Joined, workervars
    <2>5. CASE OpenFails \/ Ended
      <3>1. Joined
        BY <2>5 DEF OpenFails, Ended, Goes, WorkersWithinDemux
      <3>2. QED
        BY <2>4, <2>5, <3>1 DEF OpenFails, Ended
    <2>6. CASE JoinBeforeRestart \/ JoinAtEof \/ JoinAtEnd
      BY <2>4, <2>6 DEF JoinBeforeRestart, JoinAtEof, JoinAtEnd
    <2>7. CASE LoopTop \/ NoSeekRequest \/ AbortQueues \/ RestartFails \/ WaitIfPaused
      BY <2>4, <2>7 DEF LoopTop, NoSeekRequest, AbortQueues, RestartFails, WaitIfPaused
    <2>8. CASE Recheck \/ Backpressure \/ ReadEnds \/ Push \/ Cleanup
      BY <2>4, <2>8 DEF Recheck, Backpressure, ReadEnds, Push, Cleanup
    <2>9. QED
      BY <1>2, <2>1, <2>2, <2>3, <2>5, <2>6, <2>7, <2>8 DEF Demux
  <1>3. CASE \E w \in Workers : Worker(w)
    BY <1>3, WorkerFrame DEF WorkersWithinDemux, Joined, demuxvars
  <1>4. QED
    BY <1>1, <1>2, <1>3 DEF Next

\* A packet is read only from the file and when the queues are below their marks, and until it is
\* queued the workers only make room.
LEMMA PushStep ==
  ASSUME TypeOK, FrameInHand, PushRange, PushNeverWaits, Next
  PROVE  PushRange' /\ PushNeverWaits'
  <1>1. CASE ReadFrame
    <2>1. /\ dpc' = "push" /\ pos' = pos + 1 /\ pos <= Last /\ ~Backlog /\ UNCHANGED <<pc, queue>>
      BY <1>1 DEF ReadFrame, workervars, pipevars
    <2>2. pos \in Positions /\ pos' - 1 = pos
      BY <2>1, FileFacts DEF TypeOK, Positions
    <2>3. Streams[pos] \in Workers /\ queue \in [Workers -> Seq(Positions)]
      BY <2>2, FileFacts DEF TypeOK
    <2>4. Wanted(Streams[pos]) => Len(queue[Streams[pos]]) < HighWater[Streams[pos]]
      BY <2>1, <2>3, TypeFacts DEF Backlog, Wanted
    <2>5. Wanted(Streams[pos]) => Len(queue[Streams[pos]]) < Capacity[Streams[pos]]
      BY <2>3, <2>4, TypeFacts
    <2>6. QED
      BY <2>1, <2>2, <2>5 DEF PushRange, PushNeverWaits, Wanted
  <1>2. CASE dpc' # "push"
    BY <1>2 DEF PushRange, PushNeverWaits
  <1>3. CASE UNCHANGED <<dpc, pos, pc, queue>>
    BY <1>3 DEF PushRange, PushNeverWaits, Wanted
  <1>4. ASSUME NEW w \in Workers, Worker(w), dpc' = "push"
        PROVE  PushRange' /\ PushNeverWaits'
    <2>1. UNCHANGED <<dpc, pos>> /\ pc[w] # "none"
      BY <1>4, WorkerFrame DEF demuxvars
    <2>2. \A v \in Workers : /\ pc'[v] # "none" => pc[v] # "none"
                             /\ Len(queue'[v]) <= Len(queue[v])
      BY <1>4, <2>1, WorkerFrame
    <2>3. pos - 1 \in Positions /\ Streams[pos - 1] \in Workers
      BY <1>4, <2>1, FileFacts DEF PushRange
    <2>4. /\ queue[Streams[pos - 1]] \in Seq(Positions)
          /\ Capacity[Streams[pos - 1]] \in Nat
      BY <2>3, TypeFacts DEF TypeOK
    <2>5. Wanted(Streams[pos - 1])' => Wanted(Streams[pos - 1])
      BY <2>1, <2>2, <2>3 DEF Wanted
    <2>6. PushRange'
      BY <2>1, <2>3 DEF PushRange
    <2>7. queue' \in [Workers -> Seq(Positions)]
      BY <1>4, WorkerTypes DEF TypeOK
    <2>8. QED
      BY <1>4, <2>1, <2>2, <2>3, <2>4, <2>5, <2>6, <2>7 DEF PushNeverWaits
  <1>5. CASE UI
    <2>1. dpc' \in {dpc, "open"}
      BY <1>5 DEF UI, PlayStarts, PlayResumes, Pause, SeekToMs, SetLoop, StopBegins, StopEnds,
         StartThread, demuxvars
    <2>2. QED
      BY <1>2, <1>3, <1>5, <2>1, UIFrame
  <1>6. CASE Demux
    <2>1. ReadFrame \/ dpc' # "push"
      BY <1>6 DEF Demux, Open, Restart, TakeSeekRequest, PlayAgain, Done, ThreadEnds, OpenFails, LoopTop,
         NoSeekRequest, AbortQueues, JoinBeforeRestart, RestartFails, WaitIfPaused, Recheck,
         Backpressure, ReadEnds, Push, JoinAtEof, Ended, Cleanup, JoinAtEnd, Goes
    <2>2. QED
      BY <1>1, <1>2, <2>1
  <1>7. QED
    BY <1>2, <1>4, <1>5, <1>6 DEF Next

\* A deed is counted only for a worker that got past its check before the pause; it then waits at
\* the next one, and play, a seek, the end and the thread's end start the count afresh.
LEMMA PauseStep ==
  ASSUME TypeOK, WorkersWithinDemux, PauseInv, Next
  PROVE  PauseInv'
  <1>t. /\ late \in [Deeds -> 0 .. 2] /\ pc \in [Workers -> WorkerPlaces]
        /\ "video" \in Workers /\ "audio" \in Workers
        /\ Nothing = [d \in Deeds |-> 0] /\ Deeds = {"swap", "present", "sound"}
    BY DEF TypeOK, Workers, Nothing, Deeds
  <1>b. paused \in BOOLEAN /\ stopRequested \in BOOLEAN /\ seekPending \in BOOLEAN
    BY DEF TypeOK
  <1>n. ASSUME late' = Nothing
        PROVE  PauseInv'
    BY <1>n, <1>t DEF PauseInv
  <1>1. CASE UI
    <2>1. CASE Pause \/ SetLoop \/ StopBegins
      <3>1. /\ UNCHANGED <<late, seekPending, pc, dpc>>
            /\ paused => paused'
            /\ stopRequested => stopRequested'
        BY <2>1, <1>b DEF Pause, SetLoop, StopBegins, seekvars, workervars, demuxvars
      <3>2. QED
        BY <3>1, <1>t DEF PauseInv
    <2>2. CASE PlayStarts \/ PlayResumes \/ SeekToMs \/ StopEnds
      BY <1>n, <2>2 DEF PlayStarts, PlayResumes, SeekToMs, StopEnds
    <2>3. QED
      BY <1>1, <2>1, <2>2 DEF UI
  <1>2. CASE Demux
    <2>1. CASE PlayAgain \/ Done
      BY <1>n, <2>1 DEF PlayAgain, Done
    <2>2. CASE ThreadEnds
      <3>1. /\ Joined /\ dpc' = "none" /\ UNCHANGED <<pc, late, paused, seekPending>>
        BY <2>2 DEF ThreadEnds, WorkersWithinDemux, workervars, seekvars
      <3>2. QED
        BY <3>1, <1>t DEF PauseInv, Joined
    <2>3. CASE Open \/ Restart
      <3>1. /\ Joined /\ dpc # "none" /\ UNCHANGED <<late, paused, seekPending, stopRequested>>
        BY <2>3 DEF Open, Restart, WorkersWithinDemux, flags, seekvars
      <3>2. pc'["video"] \in {"none", "top"} /\ pc'["audio"] \in {"none", "top"}
        BY <2>3, <1>t DEF Open, Restart, StartsWorkers
      <3>3. QED
        BY <3>1, <3>2, <1>t DEF PauseInv, Joined
    <2>4. ASSUME UNCHANGED <<late, paused, stopRequested, pc>>, seekPending' \in {seekPending, FALSE},
                 dpc # "none"
          PROVE  PauseInv'
      <3>1. seekPending' = seekPending \/ seekPending' = FALSE
        BY <2>4
      <3>2. QED
        BY <2>4, <3>1, <1>t DEF PauseInv
    <2>5. ASSUME NEW from, NEW to, Goes(from, to), from # "none", UNCHANGED seekvars
          PROVE  PauseInv'
      BY <2>4, <2>5 DEF Goes, flags, seekvars, workervars
    <2>6. CASE TakeSeekRequest \/ ReadFrame
      BY <2>4, <2>6 DEF TakeSeekRequest, ReadFrame, flags, seekvars, workervars
    <2>7. CASE OpenFails \/ LoopTop \/ NoSeekRequest \/ AbortQueues \/ JoinBeforeRestart \/ RestartFails
      BY <2>5, <2>7 DEF OpenFails, LoopTop, NoSeekRequest, AbortQueues, JoinBeforeRestart, RestartFails
    <2>8. CASE WaitIfPaused \/ Recheck \/ Backpressure \/ ReadEnds \/ Push
      BY <2>5, <2>8 DEF WaitIfPaused, Recheck, Backpressure, ReadEnds, Push
    <2>9. CASE JoinAtEof \/ Ended \/ Cleanup \/ JoinAtEnd
      BY <2>5, <2>9 DEF JoinAtEof, Ended, Cleanup, JoinAtEnd
    <2>10. QED
      BY <1>2, <2>1, <2>2, <2>3, <2>6, <2>7, <2>8, <2>9 DEF Demux
  <1>3. ASSUME NEW w \in Workers, Worker(w)
        PROVE  PauseInv'
    <2>1. /\ UNCHANGED <<paused, stopRequested, seekPending, dpc>> /\ dpc # "none"
          /\ \A v \in Workers : v # w => pc'[v] = pc[v]
      BY <1>3, WorkerFrame DEF WorkersWithinDemux, Joined, flags, seekvars, demuxvars
    <2>2. late # Nothing /\ ~stopRequested => Held
      BY DEF PauseInv, Held
    <2>3. CASE w = "video" /\ ReceiveVideo
      <3>1. pc["video"] = "recv" /\ pc'["video"] = "sync" /\ ~stopRequested /\ Counts("swap")
        BY <2>3, <1>t DEF ReceiveVideo, AtPlace
      <3>2. QED
        BY <3>1, <2>1, <2>3, <1>t DEF PauseInv, Counts, Held
    <2>4. CASE w = "video" /\ Present
      <3>1. pc["video"] = "tick" /\ pc'["video"] = "recv" /\ Counts("present")
        BY <2>4, <1>t DEF Present, AtPlace
      <3>2. QED
        BY <3>1, <2>1, <2>4, <1>t DEF PauseInv, Counts, Held
    <2>5. CASE w = "audio" /\ QueueAudioFrame
      <3>1. pc["audio"] = "write" /\ pc'["audio"] = "recv" /\ Counts("sound")
        BY <2>5, <1>t DEF QueueAudioFrame, AtPlace
      <3>2. QED
        BY <3>1, <2>1, <2>5, <1>t DEF PauseInv, Counts, Held
    <2>6. ASSUME ~Held, UNCHANGED late, ~stopRequested
          PROVE  PauseInv'
      BY <2>2, <2>6, <1>n
    <2>7. ASSUME NEW from, NEW to, AtPlace(w, from, to), UNCHANGED late,
                 to \notin {"tick", "write"}, from # "sync" \/ stopRequested
          PROVE  PauseInv'
      BY <2>1, <2>7, <1>t DEF PauseInv, AtPlace
    <2>8. ASSUME NEW from, LeavesQuietly(w, from) \/ LeavesAborting(w, from), from # "sync" \/ stopRequested
          PROVE  PauseInv'
      BY <2>7, <2>8 DEF LeavesQuietly, LeavesAborting, Leaves
    <2>9. CASE WorkerTop(w) \/ Pop(w) \/ WorkerPause(w)
      BY <2>7, <2>8, <2>9 DEF WorkerTop, Pop, WorkerPause
    <2>10. CASE SendPacket(w) \/ Check(w)
      <3>1. CASE SendPacket(w)
        <4>1. \/ AtPlace(w, "send", "recv") /\ UNCHANGED late
              \/ LeavesAborting(w, "send")
          BY <3>1 DEF SendPacket
        <4>2. QED
          BY <2>7, <2>8, <4>1
      <3>2. CASE Check(w)
        BY <2>7, <2>8, <3>2 DEF Check
      <3>3. QED
        BY <2>10, <3>1, <3>2
    <2>15. CASE ReceiveNothing(w) \/ ReceiveFails(w)
      <3>1. CASE ReceiveNothing(w)
        BY <2>7, <2>8, <3>1 DEF ReceiveNothing
      <3>2. CASE ReceiveFails(w)
        BY <2>8, <3>2 DEF ReceiveFails
      <3>3. QED
        BY <2>15, <3>1, <3>2
    <2>11. CASE w = "video" /\ (NotDue \/ StopSeen)
      BY <2>7, <2>8, <2>11 DEF NotDue, StopSeen
    <2>12. CASE w = "video" /\ Sync
      BY <2>6, <2>8, <2>12 DEF Sync
    <2>13. CASE w = "audio" /\ (ReceiveAudio \/ QueueAudioFails)
      BY <2>7, <2>8, <2>13 DEF ReceiveAudio, QueueAudioFails
    <2>14. CASE w = "audio" /\ AudioPause
      BY <2>6, <2>8, <2>14 DEF AudioPause
    <2>16. QED
      BY <1>3, <2>3, <2>4, <2>5, <2>9, <2>10, <2>11, <2>12, <2>13, <2>14, <2>15 DEF Worker
  <1>4. QED
    BY <1>1, <1>2, <1>3 DEF Next

-----------------------------------------------------------------------------
(* Sequences of packets *)

\* No packet between a position and the one before it.
LEMMA HoldsNothing ==
  ASSUME NEW w, NEW p \in Nat
  PROVE  Holds(<< >>, w, p, p - 1)
  <1>1. Len(<< >>) = 0 /\ p .. p - 1 = {}
    BY EmptySeq
  <1>2. QED
    BY <1>1 DEF Holds, InFileOrder, Packets, Segment

\* The next packet of the file goes to the end of its stream's.
LEMMA HoldsMore ==
  ASSUME NEW w, NEW s \in Seq(Positions), NEW from \in Nat, NEW p \in Nat, p \in Positions, from <= p,
         Holds(s, w, from, p - 1)
  PROVE  Holds(s \o (IF Streams[p] = w THEN << p >> ELSE << >>), w, from, p)
  <1>1. Len(s) \in Nat /\ \A i \in 1 .. Len(s) : s[i] \in Positions
    BY LenProperties, ElementOfSeq
  <1>2. CASE Streams[p] # w
    <2>1. Segment(w, from, p) = Segment(w, from, p - 1)
      BY <1>2 DEF Segment
    <2>2. QED
      BY <1>2, <2>1, ConcatEmptySeq DEF Holds
  <1>3. CASE Streams[p] = w
    <2> DEFINE n == Len(s)  t == s \o << p >>
    <2>1. << p >> \in Seq(Positions) /\ Len(<< p >>) = 1
      OBVIOUS
    <2>2. /\ Len(t) = n + 1 /\ \A i \in 1 .. n : t[i] = s[i]
          /\ t[n + 1] = p
      <3>1. \A i \in 1 .. n + 1 : t[i] = IF i <= n THEN s[i] ELSE << p >>[i - n]
        BY <2>1, ConcatProperties
      <3>2. QED
        BY <1>1, <2>1, <3>1, ConcatProperties
    <2> HIDE DEF t
    <2>3. \A i \in 1 .. n : s[i] \in from .. p - 1 /\ Streams[s[i]] = w
      BY DEF Holds, Packets, Segment
    <2>4. InFileOrder(t)
      <3> SUFFICES ASSUME NEW i \in 1 .. n + 1, NEW j \in 1 .. n + 1, i < j
                   PROVE  t[i] < t[j]
        BY <2>2 DEF InFileOrder
      <3>1. i \in 1 .. n
        BY <1>1
      <3>2. CASE j \in 1 .. n
        BY <2>2, <3>1, <3>2 DEF Holds, InFileOrder
      <3>3. CASE j = n + 1
        BY <2>2, <2>3, <3>1, <3>3
      <3>4. QED
        BY <1>1, <3>2, <3>3
    <2>5. Packets(t) = Packets(s) \cup {p}
      <3>1. 1 .. n + 1 = (1 .. n) \cup {n + 1}
        BY <1>1
      <3>2. QED
        BY <2>2, <3>1 DEF Packets
    <2>6. Segment(w, from, p) = Segment(w, from, p - 1) \cup {p}
      BY <1>3 DEF Segment
    <2>7. QED
      BY <1>3, <2>4, <2>5, <2>6 DEF Holds, t
  <1>4. QED
    BY <1>2, <1>3

\* Without its first packet a sequence holds those behind that packet.
LEMMA HoldsLess ==
  ASSUME NEW w, NEW s \in Seq(Positions), s # << >>, NEW from \in Nat, NEW to \in Int,
         Holds(s, w, from, to)
  PROVE  Head(s) \in from .. to /\ Holds(Tail(s), w, Head(s) + 1, to)
  <1> DEFINE n == Len(s)  t == Tail(s)
  <1>1. n \in Nat \ {0} /\ Head(s) = s[1] /\ Len(t) = n - 1 /\ \A i \in 1 .. n - 1 : t[i] = s[i + 1]
    BY EmptySeq, HeadTailProperties
  <1> HIDE DEF t
  <1>2. \A i \in 1 .. n : s[i] \in from .. to /\ Streams[s[i]] = w
    BY DEF Holds, Packets, Segment
  <1>3. s[1] \in from .. to
    BY <1>1, <1>2
  <1>4. InFileOrder(t)
    <2> SUFFICES ASSUME NEW i \in 1 .. n - 1, NEW j \in 1 .. n - 1, i < j
                 PROVE  t[i] < t[j]
      BY <1>1 DEF InFileOrder
    <2>1. i + 1 \in 1 .. n /\ j + 1 \in 1 .. n /\ i + 1 < j + 1
      BY <1>1
    <2>2. QED
      BY <1>1, <2>1 DEF Holds, InFileOrder
  <1>5. ASSUME NEW q \in Packets(t)
        PROVE  q \in Segment(w, s[1] + 1, to)
    <2>1. PICK i \in 1 .. n - 1 : q = t[i]
      BY <1>1 DEF Packets
    <2>2. q = s[i + 1] /\ i + 1 \in 1 .. n /\ 1 \in 1 .. n /\ 1 < i + 1
      BY <1>1, <2>1
    <2>3. s[1] < q
      BY <2>2 DEF Holds, InFileOrder
    <2>4. QED
      BY <1>2, <1>3, <2>2, <2>3 DEF Segment
  <1>6. ASSUME NEW q \in Segment(w, s[1] + 1, to)
        PROVE  q \in Packets(t)
    <2>1. q \in Segment(w, from, to) /\ q # s[1]
      BY <1>3 DEF Segment
    <2>2. PICK i \in 1 .. n : q = s[i]
      BY <2>1 DEF Holds, Packets
    <2>3. i - 1 \in 1 .. n - 1 /\ (i - 1) + 1 = i
      BY <1>1, <2>1, <2>2
    <2>4. q = t[i - 1]
      BY <1>1, <2>2, <2>3
    <2>5. QED
      BY <1>1, <2>3, <2>4 DEF Packets
  <1>7. Packets(t) = Segment(w, s[1] + 1, to)
    BY <1>5, <1>6
  <1>8. QED
    BY <1>1, <1>3, <1>4, <1>7 DEF Holds, t

\* A sequence is its head and the rest.
LEMMA HeadFirst ==
  ASSUME NEW S, NEW s \in Seq(S), s # << >>
  PROVE  << Head(s) >> \in Seq(S) /\ Tail(s) \in Seq(S) /\ << Head(s) >> \o Tail(s) = s
  <1> DEFINE n == Len(s)  h == << Head(s) >>  t == Tail(s)
  <1>1. n \in Nat \ {0} /\ Head(s) \in S /\ t \in Seq(S) /\ Len(t) = n - 1
        /\ \A i \in 1 .. n - 1 : t[i] = s[i + 1]
    BY EmptySeq, HeadTailProperties
  <1>2. h \in Seq(S) /\ Len(h) = 1 /\ h[1] = s[1]
    BY <1>1
  <1> HIDE DEF h, t
  <1>3. /\ h \o t \in Seq(S) /\ Len(h \o t) = n
        /\ \A i \in 1 .. n : (h \o t)[i] = IF i <= 1 THEN h[i] ELSE t[i - 1]
    <2>1. /\ h \o t \in Seq(S) /\ Len(h \o t) = Len(h) + Len(t)
          /\ \A i \in 1 .. Len(h) + Len(t) : (h \o t)[i] = IF i <= Len(h) THEN h[i] ELSE t[i - Len(h)]
      BY <1>1, <1>2, ConcatProperties
    <2>2. Len(h) = 1 /\ Len(h) + Len(t) = n
      BY <1>1, <1>2
    <2>3. QED
      BY <2>1, <2>2
  <1>4. ASSUME NEW i \in 1 .. n
        PROVE  (h \o t)[i] = s[i]
    <2>1. CASE i = 1
      BY <1>2, <1>3, <2>1
    <2>2. CASE i # 1
      <3>1. i - 1 \in 1 .. n - 1 /\ (i - 1) + 1 = i
        BY <1>1, <2>2
      <3>2. t[i - 1] = s[i]
        BY <1>1, <3>1
      <3>3. QED
        BY <1>3, <2>2, <3>2
    <2>3. QED
      BY <2>1, <2>2
  <1>5. h \o t = s
    BY <1>3, <1>4, SeqEqual
  <1>6. QED
    BY <1>1, <1>2, <1>5 DEF h, t

\* What the decoder, the hand and the queue hold, one behind the other, before and after a pop.
Regroups(d, h, t) == (d \o h) \o t = (d \o << >>) \o (h \o t)

\* Where a sequence is cut does not matter to what precedes it.
LEMMA HandedOn ==
  ASSUME NEW S, NEW d \in Seq(S), NEW h \in Seq(S), NEW t \in Seq(S)
  PROVE  Regroups(d, h, t)
  <1>1. (d \o h) \o t = d \o (h \o t)
    BY ConcatAssociative
  <1>2. d \o << >> = d
    BY ConcatEmptySeq
  <1>3. QED
    BY <1>1, <1>2 DEF Regroups

\* The head goes with the front part.
LEMMA HeadOfConcat ==
  ASSUME NEW S, NEW s \in Seq(S), s # << >>, NEW t \in Seq(S)
  PROVE  s \o t # << >> /\ Head(s \o t) = Head(s) /\ Tail(s \o t) = Tail(s) \o t
  <1> DEFINE n == Len(s)  m == Len(t)  c == s \o t  d == Tail(s) \o t
  <1>1. n \in Nat \ {0} /\ m \in Nat /\ Head(s) = s[1] /\ Tail(s) \in Seq(S) /\ Len(Tail(s)) = n - 1
        /\ \A i \in 1 .. n - 1 : Tail(s)[i] = s[i + 1]
    BY EmptySeq, LenProperties, HeadTailProperties
  <1>2. c \in Seq(S) /\ Len(c) = n + m /\ \A i \in 1 .. n + m : c[i] = IF i <= n THEN s[i] ELSE t[i - n]
    BY ConcatProperties
  <1>3. c # << >>
    BY ConcatEqualIffEmpty
  <1>4. /\ d \in Seq(S) /\ Len(d) = (n - 1) + m
        /\ \A i \in 1 .. (n - 1) + m : d[i] = IF i <= n - 1 THEN Tail(s)[i] ELSE t[i - (n - 1)]
    BY <1>1, ConcatProperties
  <1>5. Tail(c) \in Seq(S) /\ Len(Tail(c)) = n + m - 1 /\ \A i \in 1 .. n + m - 1 : Tail(c)[i] = c[i + 1]
    BY <1>2, <1>3, HeadTailProperties
  <1>6. Head(c) = c[1] /\ c[1] = s[1]
    BY <1>1, <1>2
  <1> HIDE DEF c, d
  <1>7. ASSUME NEW i \in 1 .. n + m - 1
        PROVE  Tail(c)[i] = d[i]
    <2>1. i + 1 \in 1 .. n + m /\ i \in 1 .. (n - 1) + m
      BY <1>1
    <2>2. CASE i <= n - 1
      <3>1. i \in 1 .. n - 1 /\ i + 1 <= n
        BY <1>1, <2>2
      <3>2. QED
        BY <1>1, <1>2, <1>4, <1>5, <2>1, <3>1
    <2>3. CASE i > n - 1
      <3>1. ~(i + 1 <= n) /\ ~(i <= n - 1) /\ (i + 1) - n = i - (n - 1)
        BY <1>1, <2>3
      <3>2. Tail(c)[i] = t[(i + 1) - n]
        BY <1>2, <1>5, <2>1, <3>1
      <3>3. d[i] = t[i - (n - 1)]
        BY <1>4, <2>1, <3>1
      <3>4. QED
        BY <3>1, <3>2, <3>3
    <2>4. i <= n - 1 \/ i > n - 1
      BY <1>1
    <2>5. QED
      BY <2>2, <2>3, <2>4
  <1>8. Len(Tail(c)) = Len(d)
    BY <1>1, <1>4, <1>5
  <1>9. Tail(c) = d
    BY <1>1, <1>4, <1>5, <1>7, <1>8, SeqEqual
  <1>10. QED
    BY <1>1, <1>3, <1>6, <1>9 DEF c, d

\* A sequence begins with the head of its first part.
Begins(all, s, t, u, v) ==
    all # << >> /\ Head(all) = Head(s) /\ Tail(all) = Tail(s) \o t \o u \o v

\* So it is with four parts.
LEMMA HeadOfFour ==
  ASSUME NEW S, NEW s \in Seq(S), s # << >>, NEW t \in Seq(S), NEW u \in Seq(S), NEW v \in Seq(S)
  PROVE  Begins(s \o t \o u \o v, s, t, u, v)
  <1> DEFINE a == s \o t
  <1>1. a \in Seq(S) /\ a # << >> /\ Head(a) = Head(s) /\ Tail(a) = Tail(s) \o t
    BY ConcatProperties, HeadOfConcat
  <1> HIDE DEF a
  <1> DEFINE b == a \o u
  <1>2. b \in Seq(S)
    BY <1>1, ConcatProperties
  <1>3. b # << >> /\ Head(b) = Head(a) /\ Tail(b) = Tail(a) \o u
    BY <1>1, HeadOfConcat
  <1> HIDE DEF b
  <1>4. b \o v # << >> /\ Head(b \o v) = Head(b) /\ Tail(b \o v) = Tail(b) \o v
    BY <1>2, <1>3, HeadOfConcat
  <1>5. QED
    BY <1>1, <1>3, <1>4 DEF a, b, Begins

-----------------------------------------------------------------------------
(* The packets' way is preserved *)

\* The parts of a worker's pipeline are sequences of packets.
LEMMA PipeTypes ==
  ASSUME TypeOK, PushRange, NEW w \in Workers
  PROVE  /\ dec[w] \in Seq(Positions) /\ hand[w] \in Seq(Positions) /\ queue[w] \in Seq(Positions)
         /\ Pushing(w) \in Seq(Positions) /\ Pipeline(w) \in Seq(Positions)
         /\ dec[w] \o hand[w] \in Seq(Positions) /\ dec[w] \o hand[w] \o queue[w] \in Seq(Positions)
         /\ done[w] \in Nat /\ pos \in Nat
  <1>1. dec[w] \in Seq(Positions) /\ hand[w] \in Seq(Positions) /\ queue[w] \in Seq(Positions)
    BY DEF TypeOK
  <1>2. Pushing(w) \in Seq(Positions)
    BY DEF Pushing, PushRange
  <1>3. dec[w] \o hand[w] \in Seq(Positions)
    BY <1>1, ConcatProperties
  <1>4. dec[w] \o hand[w] \o queue[w] \in Seq(Positions)
    BY <1>1, <1>3, ConcatProperties
  <1>5. Pipeline(w) \in Seq(Positions)
    BY <1>2, <1>4, ConcatProperties DEF Pipeline
  <1>6. done[w] \in Nat /\ pos \in Nat
    BY FileFacts DEF TypeOK
  <1>7. QED
    BY <1>1, <1>2, <1>3, <1>4, <1>5, <1>6

\* Steps that move no packet.
LEMMA StillFlow ==
  ASSUME Flow, UNCHANGED <<pc, hand, dec, draining, ran, done, pos, queue>>,
         dpc # "push", dpc' # "push", aborted => aborted', qabort => qabort', qeof => qeof',
         stopRequested => stopRequested' \/ aborted \/ ran = {},
         QueueFlags', Decided'
  PROVE  Flow'
  <1>1. HandEmpty'
    BY DEF Flow, HandEmpty
  <1>2. \A w \in Workers : Pipeline(w)' = Pipeline(w)
    BY DEF Pipeline, Pushing
  <1>3. \A w \in Workers : Intact(w)'
    BY <1>2 DEF Flow, Intact
  <1>4. Draining'
    BY DEF Flow, Draining
  <1>5. Leavers'
    BY DEF Flow, Leavers, Finished
  <1>6. QED
    BY <1>1, <1>3, <1>4, <1>5 DEF Flow

\* The user's operations move no packet, and a new thread finds the old pipeline torn down.
LEMMA UIFlow ==
  ASSUME IInv, Flow, UI
  PROVE  Flow'
  <1>1. UNCHANGED <<pc, hand, dec, draining, ran, done, pos, queue, qabort, qeof, aborted>>
    BY DEF UI, PlayStarts, PlayResumes, Pause, SeekToMs, SetLoop, StopBegins, StopEnds,
       demuxvars, pipevars, workervars, history
  <1>2. dpc' = dpc \/ (dpc = "none" /\ dpc' = "open")
    BY DEF UI, PlayStarts, PlayResumes, Pause, SeekToMs, SetLoop, StopBegins, StopEnds, StartThread,
       demuxvars, IInv, Control, FlagsAgree
  <1>3. stopRequested => stopRequested' \/ dpc = "none"
    BY DEF UI, PlayStarts, PlayResumes, Pause, SeekToMs, SetLoop, StopBegins, StopEnds,
       IInv, Control, FlagsAgree
  <1>4. stopRequested => stopRequested' \/ aborted \/ ran = {}
    BY <1>3 DEF Flow, QueueFlags
  <1>5. QueueFlags' /\ Decided'
    BY <1>1, <1>2 DEF Flow, QueueFlags, Decided, Finished
  <1>6. CASE dpc = "push"
    <2>1. \A w \in Workers : Pipeline(w)' = Pipeline(w)
      BY <1>1, <1>2, <1>6 DEF Pipeline, Pushing
    <2>2. HandEmpty' /\ Draining' /\ Leavers' /\ \A w \in Workers : Intact(w)'
      BY <1>1, <1>4, <2>1 DEF Flow, HandEmpty, Draining, Leavers, Finished, Intact
    <2>3. QED
      BY <1>5, <2>2 DEF Flow
  <1>7. CASE dpc # "push"
    BY <1>1, <1>2, <1>4, <1>5, <1>7, StillFlow
  <1>8. QED
    BY <1>6, <1>7

\* A (re)start begins with nothing on the way, and nothing shown, before the position it starts at.
LEMMA StartsFlow ==
  ASSUME NEW p \in Keys, StartsWorkers(p), dpc' = "top"
  PROVE  Flow'
  <1>1. p \in Nat
    BY FileFacts DEF Positions
  <1>2. \A w \in Workers : /\ queue'[w] = << >> /\ hand'[w] = << >> /\ dec'[w] = << >>
                           /\ draining'[w] = FALSE /\ done'[w] = p - 1 /\ pc'[w] \in {"top", "none"}
    BY DEF StartsWorkers
  <1>3. qeof' = FALSE /\ qabort' = FALSE /\ aborted' = FALSE /\ pos' = p /\ ran' \subseteq Workers
        /\ \A w \in ran' : pc'[w] = "top"
    BY DEF StartsWorkers, Workers
  <1>4. \A w \in Workers : Intact(w)'
    <2> SUFFICES ASSUME NEW w \in Workers PROVE Intact(w)'
      OBVIOUS
    <2>1. Pushing(w)' = << >>
      BY DEF Pushing
    <2>2. << >> \o << >> = << >>
      BY EmptySeq, ConcatEmptySeq
    <2>3. Pipeline(w)' = << >>
      BY <1>2, <2>1, <2>2 DEF Pipeline
    <2>4. done'[w] + 1 = p /\ done'[w] < pos'
      BY <1>1, <1>2, <1>3
    <2>5. Holds(Pipeline(w)', w, done'[w] + 1, pos' - 1)
      BY <1>1, <1>3, <2>3, <2>4, HoldsNothing
    <2>6. QED
      BY <2>4, <2>5 DEF Intact
  <1>5. HandEmpty' /\ Draining'
    BY <1>2 DEF HandEmpty, Draining
  <1>6. Leavers' /\ QueueFlags' /\ Decided'
    BY <1>3 DEF Leavers, QueueFlags, Decided
  <1>7. QED
    BY <1>4, <1>5, <1>6 DEF Flow

\* A packet that was read is the next of its stream.
LEMMA ReadFlow ==
  ASSUME IInv, IInv', Flow, ReadFrame
  PROVE  Flow'
  <1>1. /\ dpc = "read" /\ dpc' = "push" /\ pos' = pos + 1 /\ pos <= Last
        /\ UNCHANGED <<pc, hand, dec, draining, ran, done, queue, qeof, qabort, aborted, stopRequested>>
    BY DEF ReadFrame, flags, pipevars, workervars, history
  <1>2. pos \in Nat /\ pos \in Positions /\ pos' - 1 = pos
    BY <1>1, FileFacts DEF IInv, TypeOK, Positions
  <1>3. ~qeof
    BY <1>1 DEF Flow, QueueFlags
  <1>4. ASSUME NEW w \in Workers, pc[w] # "none", ~aborted
        PROVE  done[w] < pos' /\ Holds(Pipeline(w)', w, done[w] + 1, pos' - 1)
    <2> DEFINE s == dec[w] \o hand[w] \o queue[w]
    <2>1. s \in Seq(Positions) /\ done[w] \in Nat
      BY PipeTypes DEF IInv, Control
    <2>2. Pipeline(w) = s
      <3>1. Pushing(w) = << >>
        BY <1>1 DEF Pushing
      <3>2. QED
        BY <2>1, <3>1, ConcatEmptySeq DEF Pipeline
    <2>3. done[w] < pos /\ Holds(s, w, done[w] + 1, pos - 1)
      BY <1>4, <2>2 DEF Flow, Intact
    <2>4. Pipeline(w)' = s \o (IF Streams[pos] = w THEN << pos >> ELSE << >>)
      BY <1>1, <1>2 DEF Pipeline, Pushing
    <2> HIDE DEF s
    <2>5. done[w] + 1 \in Nat /\ done[w] + 1 <= pos
      BY <1>2, <2>1, <2>3
    <2>6. Holds(Pipeline(w)', w, done[w] + 1, pos)
      BY <1>2, <2>1, <2>3, <2>4, <2>5, HoldsMore
    <2>7. QED
      BY <1>1, <1>2, <2>1, <2>3, <2>6
  <1>5. \A w \in Workers : Intact(w)'
    BY <1>1, <1>4 DEF Intact
  <1>6. HandEmpty' /\ Draining'
    BY <1>1 DEF Flow, HandEmpty, Draining
  <1>7. Leavers' /\ QueueFlags' /\ Decided'
    BY <1>1, <1>3 DEF Flow, Leavers, QueueFlags, Decided
  <1>8. QED
    BY <1>5, <1>6, <1>7 DEF Flow

\* A packet is queued behind the others of its stream, or dropped when its worker is not running.
LEMMA PushFlow ==
  ASSUME IInv, IInv', Flow, Push
  PROVE  Flow'
  <1> DEFINE p == pos - 1  v == Streams[pos - 1]
  <1>1. /\ dpc = "push" /\ dpc' \in {"top", "end"} /\ qeof' = qeof /\ ~qeof /\ qabort' = qabort
        /\ UNCHANGED <<pc, hand, dec, draining, ran, done, pos, stopRequested>>
    BY DEF Push, Goes, flags, pipevars, workervars, history, Flow, QueueFlags
  <1>2. p \in Positions /\ v \in Workers
    BY <1>1, FileFacts DEF IInv, Control, PushRange
  <1>3. HandEmpty'
    BY <1>1 DEF Flow, HandEmpty
  <1>4. Decided'
    BY <1>1 DEF Decided
  <1>5. CASE aborted' = TRUE /\ UNCHANGED queue
    <2>1. (\A w \in Workers : Intact(w)') /\ Leavers'
      BY <1>5 DEF Intact, Leavers
    <2>2. Draining' /\ QueueFlags'
      BY <1>1, <1>5 DEF Flow, Draining, QueueFlags
    <2>3. QED
      BY <1>3, <1>4, <2>1, <2>2 DEF Flow
  <1>6. CASE UNCHANGED aborted /\ dpc' = "top"
    <2>1. QueueFlags' /\ Leavers'
      BY <1>1, <1>6 DEF Flow, QueueFlags, Leavers
    <2>2. Draining'
      BY <1>1 DEF Flow, Draining, Push, pipevars
    <2>3. ASSUME NEW w \in Workers, pc[w] # "none"
          PROVE  Pipeline(w)' = Pipeline(w)
      <3> DEFINE s == dec[w] \o hand[w]
      <3>1. s \in Seq(Positions) /\ queue[w] \in Seq(Positions) /\ s \o queue[w] \in Seq(Positions)
        BY PipeTypes DEF IInv, Control
      <3>2. Pushing(w)' = << >>
        BY <1>1 DEF Pushing
      <3>3. CASE v # w
        <4>1. queue'[w] = queue[w] /\ Pushing(w) = << >>
          BY <1>1, <1>2, <3>3 DEF Push, Pushing, pipevars, IInv, TypeOK
        <4>2. QED
          BY <1>1, <3>2, <4>1 DEF Pipeline
      <3>4. CASE v = w
        <4>1. Wanted(v)
          BY <2>3, <3>4 DEF Wanted
        <4>2. queue' = [queue EXCEPT ![v] = Append(@, p)]
          BY <1>6, <4>1 DEF Push, Goes
        <4>3. queue'[w] = Append(queue[w], p) /\ Pushing(w) = << p >>
          BY <1>1, <1>2, <3>4, <4>2 DEF Pushing, IInv, TypeOK
        <4> HIDE DEF s
        <4>4. Append(queue[w], p) = queue[w] \o << p >> /\ << p >> \in Seq(Positions)
          BY <1>2, <3>1, AppendIsConcat
        <4>5. s \o Append(queue[w], p) = (s \o queue[w]) \o << p >>
          BY <3>1, <4>4, ConcatAssociative
        <4>6. s \o Append(queue[w], p) \in Seq(Positions)
          BY <3>1, <4>4, <4>5, ConcatProperties
        <4>7. (s \o Append(queue[w], p)) \o << >> = s \o Append(queue[w], p)
          BY <4>6, ConcatEmptySeq
        <4>8. QED
          BY <1>1, <3>2, <4>3, <4>5, <4>7 DEF Pipeline, s
      <3>5. QED
        BY <3>3, <3>4
    <2>4. \A w \in Workers : Intact(w)'
      BY <1>1, <1>6, <2>3 DEF Flow, Intact
    <2>5. QED
      BY <1>3, <1>4, <2>1, <2>2, <2>4 DEF Flow
  <1>7. QED
    BY <1>1, <1>5, <1>6 DEF Push, Goes, pipevars

\* The demultiplexer's other steps move no packet; a restart, a regular end and the thread's end
\* find the pipeline in the state that QueueFlags and Leavers describe.
LEMMA DemuxFlow ==
  ASSUME IInv, IInv', Flow, Demux
  PROVE  Flow'
  <1>1. CASE Open
    BY <1>1, StartsFlow, FileFacts DEF Open
  <1>2. CASE Restart
    BY <1>2, StartsFlow DEF Restart, IInv, TypeOK
  <1>3. CASE ReadFrame
    BY <1>3, ReadFlow
  <1>4. CASE Push
    BY <1>4, PushFlow
  <1>5. CASE TakeSeekRequest
    <2>1. /\ dpc = "take" /\ dpc' = "abortq"
          /\ UNCHANGED <<pc, hand, dec, draining, ran, done, pos, queue, qeof, qabort, aborted, stopRequested>>
      BY <1>5 DEF TakeSeekRequest, pipevars, workervars, history
    <2>2. QueueFlags' /\ Decided'
      BY <2>1 DEF Flow, QueueFlags, Decided
    <2>3. QED
      BY <2>1, <2>2, StillFlow
  <1>6. CASE PlayAgain
    <2>1. /\ dpc = "decide" /\ dpc' = "join" /\ qabort' = TRUE
          /\ UNCHANGED <<pc, hand, dec, draining, ran, done, pos, queue, qeof, aborted, stopRequested>>
      BY <1>6 DEF PlayAgain, workervars, history
    <2>2. QueueFlags' /\ Decided'
      BY <2>1 DEF Flow, QueueFlags, Decided
    <2>3. QED
      BY <2>1, <2>2, StillFlow
  <1>7. CASE Done
    <2>1. /\ dpc = "decide" /\ dpc' = "end"
          /\ UNCHANGED <<pc, hand, dec, draining, ran, done, pos, queue, qeof, qabort, aborted, stopRequested>>
      BY <1>7 DEF Done, pipevars, workervars, history
    <2>2. QueueFlags' /\ Decided'
      BY <2>1 DEF Flow, QueueFlags, Decided
    <2>3. QED
      BY <2>1, <2>2, StillFlow
  <1>8. CASE ThreadEnds
    <2>1. /\ dpc = "out" /\ dpc' = "none"
          /\ UNCHANGED <<pc, hand, dec, draining, ran, done, pos, queue, qeof, qabort, aborted>>
      BY <1>8 DEF ThreadEnds, pipevars, workervars, history
    <2>2. QueueFlags' /\ Decided' /\ (aborted \/ ran = {})
      BY <2>1 DEF Flow, QueueFlags, Decided
    <2>3. QED
      BY <2>1, <2>2, StillFlow
  <1>9. ASSUME NEW from, NEW to, Goes(from, to), from # "push", to # "push", UNCHANGED queue,
               aborted => aborted', qabort => qabort', qeof => qeof', QueueFlags', Decided'
        PROVE  Flow'
    BY <1>9, StillFlow DEF Goes, flags, workervars, history
  <1>10. CASE Ended
    <2>1. /\ dpc = "ended" /\ dpc' \in {"end", "decide"}
          /\ dpc' = "decide" => ~stopRequested /\ ~aborted
          /\ UNCHANGED <<queue, qeof, qabort, aborted, pc, ran, done, pos>>
      BY <1>10 DEF Ended, Goes, pipevars, workervars, history
    <2>2. QueueFlags'
      BY <2>1 DEF Flow, QueueFlags
    <2>3. Decided'
      <3> SUFFICES ASSUME dpc' = "decide", NEW w \in ran PROVE Finished(w)
        BY <2>1 DEF Decided, Finished
      <3>1. pc[w] = "none" /\ ~aborted /\ ~stopRequested /\ ~qabort
        BY <2>1 DEF IInv, TypeOK, Control, WorkersWithinDemux, Joined, Flow, QueueFlags
      <3>2. QED
        BY <3>1 DEF Flow, Leavers
    <2>4. QED
      BY <1>9, <1>10, <2>2, <2>3 DEF Ended, pipevars
  <1>11. CASE LoopTop \/ NoSeekRequest \/ AbortQueues \/ JoinBeforeRestart
    <2>1. QueueFlags' /\ Decided'
      BY <1>11 DEF LoopTop, NoSeekRequest, AbortQueues, JoinBeforeRestart, Goes, pipevars, history,
         Flow, QueueFlags, Decided
    <2>2. QED
      BY <1>9, <1>11, <2>1 DEF LoopTop, NoSeekRequest, AbortQueues, JoinBeforeRestart, pipevars
  <1>12. CASE RestartFails \/ WaitIfPaused \/ Recheck \/ Backpressure
    <2>1. QueueFlags' /\ Decided'
      BY <1>12 DEF RestartFails, WaitIfPaused, Recheck, Backpressure, Goes, pipevars, history,
         Flow, QueueFlags, Decided
    <2>2. QED
      BY <1>9, <1>12, <2>1 DEF RestartFails, WaitIfPaused, Recheck, Backpressure, pipevars
  <1>13. CASE ReadEnds \/ JoinAtEof \/ Cleanup
    <2>1. QueueFlags' /\ Decided'
      BY <1>13 DEF ReadEnds, JoinAtEof, Cleanup, Goes, pipevars, history, Flow, QueueFlags, Decided
    <2>2. QED
      BY <1>9, <1>13, <2>1 DEF ReadEnds, JoinAtEof, Cleanup, pipevars
  <1>14. CASE OpenFails \/ JoinAtEnd
    <2>1. QueueFlags' /\ Decided'
      BY <1>14 DEF OpenFails, JoinAtEnd, Goes, pipevars, history, Flow, QueueFlags, Decided
    <2>2. QED
      BY <1>9, <1>14, <2>1 DEF OpenFails, JoinAtEnd, pipevars
  <1>15. QED
    BY <1>1, <1>2, <1>3, <1>4, <1>5, <1>6, <1>7, <1>8, <1>10, <1>11, <1>12, <1>13, <1>14 DEF Demux

\* A worker steps while the demultiplexer is neither deciding nor gone, and leaves the flags alone
\* except that it may tear the pipeline down.
LEMMA WorkerFlags ==
  ASSUME IInv, Flow, NEW w \in Workers, NEW from, NEW to, from # "none", AtPlace(w, from, to),
         UNCHANGED <<aborted, qabort>> \/ (aborted' = TRUE /\ qabort' = TRUE)
  PROVE  QueueFlags' /\ Decided' /\ (aborted => aborted') /\ (qabort => qabort')
         /\ UNCHANGED <<dpc, pos, qeof, ran, stopRequested>>
         /\ pc[w] = from /\ pc'[w] = to /\ \A v \in Workers : v # w => pc'[v] = pc[v]
  <1>1. /\ UNCHANGED <<dpc, pos, qeof, ran, stopRequested>>
        /\ pc[w] = from /\ pc'[w] = to /\ \A v \in Workers : v # w => pc'[v] = pc[v]
    BY DEF AtPlace, flags, demuxvars, IInv, TypeOK
  <1>2. QueueFlags'
    BY <1>1 DEF Flow, QueueFlags
  <1>3. dpc # "decide"
    BY <1>1 DEF IInv, Control, WorkersWithinDemux, Joined
  <1>4. Decided'
    BY <1>1, <1>3 DEF Decided
  <1>5. QED
    BY <1>1, <1>2, <1>4

\* Steps that only move a worker.
LEMMA MovesFlow ==
  ASSUME IInv, Flow, NEW w \in Workers, NEW from, NEW to, from # "none", to # "none", AtPlace(w, from, to),
         UNCHANGED <<queue, hand, dec, done, qabort, aborted>>,
         from \in {"pause", "send"} => to \in {"pause", "send"},
         to = "check" /\ ~qabort => qeof /\ queue[w] = << >>,
         \A v \in Workers : draining'[v] => draining[v] \/ (v = w /\ from = "check")
  PROVE  Flow'
  <1>1. /\ QueueFlags' /\ Decided' /\ UNCHANGED <<dpc, pos, qeof, ran, stopRequested>>
        /\ pc[w] = from /\ pc'[w] = to /\ \A v \in Workers : v # w => pc'[v] = pc[v]
    BY WorkerFlags
  <1>2. HandEmpty'
    BY <1>1 DEF Flow, HandEmpty
  <1>3. \A v \in Workers : Pipeline(v)' = Pipeline(v)
    BY <1>1 DEF Pipeline, Pushing
  <1>4. \A v \in Workers : Intact(v)'
    BY <1>1, <1>3 DEF Flow, Intact
  <1>5. Draining'
    BY <1>1 DEF Flow, Draining
  <1>6. Leavers'
    BY <1>1 DEF Flow, Leavers, Finished, IInv, TypeOK
  <1>7. QED
    BY <1>1, <1>2, <1>4, <1>5, <1>6 DEF Flow

\* A worker leaves when it is stopped, aborted or drained; drained, it has shown everything.
LEMMA LeavesFlow ==
  ASSUME IInv, Flow, NEW w \in Workers, NEW from, from # "none", Leaves(w, from),
         \/ aborted' = TRUE /\ qabort' = TRUE
         \/ /\ UNCHANGED <<aborted, qabort>>
            /\ stopRequested \/ aborted \/ (from = "recv" /\ draining[w] /\ ~HasFrame(w))
  PROVE  Flow'
  <1>1. AtPlace(w, from, "none")
    BY DEF Leaves
  <1>2. /\ QueueFlags' /\ Decided' /\ UNCHANGED <<dpc, pos, qeof, ran, stopRequested>>
        /\ (aborted => aborted') /\ (qabort => qabort')
        /\ pc[w] = from /\ pc'[w] = "none" /\ \A v \in Workers : v # w => pc'[v] = pc[v]
    BY <1>1, WorkerFlags
  <1>3. /\ UNCHANGED <<queue, done>> /\ hand'[w] = << >> /\ dec'[w] = << >> /\ draining'[w] = FALSE
        /\ \A v \in Workers : v # w => /\ hand'[v] = hand[v] /\ dec'[v] = dec[v]
                                       /\ draining'[v] = draining[v]
    BY DEF Leaves, IInv, TypeOK
  <1>4. HandEmpty'
    BY <1>2, <1>3 DEF Flow, HandEmpty
  <1>5. ASSUME NEW v \in Workers
        PROVE  Intact(v)'
    <2>1. CASE v = w
      BY <1>2, <2>1 DEF Intact
    <2>2. CASE v # w
      <3>1. Pipeline(v)' = Pipeline(v)
        BY <1>2, <1>3, <2>2 DEF Pipeline, Pushing
      <3>2. QED
        BY <1>2, <1>3, <2>2, <3>1 DEF Flow, Intact
    <2>3. QED
      BY <2>1, <2>2
  <1>6. Draining'
    BY <1>2, <1>3 DEF Flow, Draining
  <1>7. ASSUME ~aborted, ~qabort, from = "recv", draining[w], ~HasFrame(w)
        PROVE  qeof /\ Finished(w)
    <2>1. qeof /\ queue[w] = << >> /\ hand[w] = << >>
      BY <1>2, <1>7 DEF Flow, Draining, HandEmpty
    <2>2. dec[w] = << >>
      <3>1. dec[w] \in Seq(Positions) /\ ~(Len(dec[w]) > 0)
        BY <1>7 DEF HasFrame, IInv, TypeOK
      <3>2. QED
        BY <3>1, EmptySeq
    <2>3. Pushing(w) = << >>
      BY <2>1 DEF Pushing, Flow, QueueFlags
    <2>4. Pipeline(w) = << >>
      BY <2>1, <2>2, <2>3, EmptySeq, ConcatEmptySeq DEF Pipeline
    <2>5. Packets(<< >>) = Segment(w, done[w] + 1, pos - 1)
      BY <1>2, <1>7, <2>4 DEF Flow, Intact, Holds
    <2>6. QED
      BY <2>1, <2>5, EmptySeq DEF Packets, Finished
  <1>8. ASSUME NEW v \in ran, pc'[v] = "none", ~aborted', ~stopRequested, ~qabort'
        PROVE  qeof /\ Finished(v)
    <2>1. v \in Workers /\ ~aborted /\ ~qabort
      BY <1>2, <1>8 DEF IInv, TypeOK
    <2>2. CASE v = w
      BY <1>7, <1>8, <2>1, <2>2
    <2>3. CASE v # w
      BY <1>2, <1>8, <2>1, <2>3 DEF Flow, Leavers
    <2>4. QED
      BY <2>2, <2>3
  <1>9. Leavers'
    BY <1>2, <1>3, <1>8 DEF Leavers, Finished
  <1>10. QED
    BY <1>2, <1>4, <1>5, <1>6, <1>9 DEF Flow

\* A popped packet moves from the queue to the hand, a sent one from the hand to the decoder.
LEMMA PopFlow ==
  ASSUME IInv, Flow, NEW w \in Workers, Pop(w)
  PROVE  Flow'
  <1>1. CASE AtPlace(w, "pop", "check") /\ (qabort \/ (qeof /\ queue[w] = << >>))
             /\ UNCHANGED <<queue, qabort, aborted, hand, dec, draining, done>>
    BY <1>1, MovesFlow
  <1>2. CASE /\ ~qabort /\ queue[w] # << >> /\ AtPlace(w, "pop", "pause")
             /\ hand' = [hand EXCEPT ![w] = << Head(queue[w]) >>]
             /\ queue' = [queue EXCEPT ![w] = Tail(@)]
             /\ UNCHANGED <<qabort, aborted, dec, draining, done>>
    <2>1. /\ QueueFlags' /\ Decided' /\ UNCHANGED <<dpc, pos, qeof, ran, stopRequested>>
          /\ pc[w] = "pop" /\ pc'[w] = "pause" /\ \A v \in Workers : v # w => pc'[v] = pc[v]
      BY <1>2, WorkerFlags
    <2>2. /\ hand[w] = << >> /\ hand'[w] = << Head(queue[w]) >> /\ queue'[w] = Tail(queue[w])
          /\ \A v \in Workers : v # w => hand'[v] = hand[v] /\ queue'[v] = queue[v]
      BY <1>2, <2>1 DEF Flow, HandEmpty, IInv, TypeOK
    <2>3. HandEmpty'
      BY <2>1, <2>2 DEF Flow, HandEmpty
    <2>4. Pipeline(w)' = Pipeline(w)
      <3>1. dec[w] \in Seq(Positions) /\ queue[w] \in Seq(Positions)
        BY PipeTypes DEF IInv, Control
      <3> DEFINE h == << Head(queue[w]) >>  t == Tail(queue[w])
      <3>2. /\ h \in Seq(Positions) /\ t \in Seq(Positions)
            /\ h \o t = queue[w]
        BY <1>2, <3>1, HeadFirst
      <3> HIDE DEF h, t
      <3>3. (dec[w] \o h) \o t = (dec[w] \o << >>) \o (h \o t)
        <4>1. dec[w] \in Seq(Positions)
          BY <3>1
        <4>2. h \in Seq(Positions)
          BY <3>2
        <4>3. t \in Seq(Positions)
          BY <3>2
        <4>4. Regroups(dec[w], h, t)
          BY <4>1, <4>2, <4>3, HandedOn
        <4>5. QED
          BY <4>4 DEF Regroups
      <3>4. (dec[w] \o h) \o t = (dec[w] \o << >>) \o queue[w]
        BY <3>2, <3>3, Zenon
      <3>5. QED
        BY <1>2, <2>1, <2>2, <3>4 DEF Pipeline, Pushing, h, t
    <2>5. \A v \in Workers : v # w => Pipeline(v)' = Pipeline(v)
      BY <1>2, <2>1, <2>2 DEF Pipeline, Pushing
    <2>6. \A v \in Workers : Intact(v)'
      BY <1>2, <2>1, <2>4, <2>5 DEF Flow, Intact
    <2>7. Draining'
      BY <1>2, <2>1, <2>2 DEF Flow, Draining
    <2>8. Leavers'
      BY <1>2, <2>1 DEF Flow, Leavers, Finished, IInv, TypeOK
    <2>9. QED
      BY <2>1, <2>3, <2>6, <2>7, <2>8 DEF Flow
  <1>3. QED
    BY <1>1, <1>2 DEF Pop

\* A sent packet moves from the hand to the decoder, behind those it holds.
LEMMA SendFlow ==
  ASSUME IInv, Flow, NEW w \in Workers, SendPacket(w)
  PROVE  Flow'
  <1>1. CASE LeavesAborting(w, "send")
    BY <1>1, LeavesFlow DEF LeavesAborting
  <1>2. CASE /\ AtPlace(w, "send", "recv")
             /\ dec' = [dec EXCEPT ![w] = @ \o hand[w]]
             /\ hand' = [hand EXCEPT ![w] = << >>]
             /\ UNCHANGED <<queue, qabort, aborted, draining, done>>
    <2>1. /\ QueueFlags' /\ Decided' /\ UNCHANGED <<dpc, pos, qeof, ran, stopRequested>>
          /\ pc[w] = "send" /\ pc'[w] = "recv" /\ \A v \in Workers : v # w => pc'[v] = pc[v]
      BY <1>2, WorkerFlags
    <2>2. /\ hand'[w] = << >> /\ dec'[w] = dec[w] \o hand[w]
          /\ \A v \in Workers : v # w => hand'[v] = hand[v] /\ dec'[v] = dec[v]
      BY <1>2 DEF IInv, TypeOK
    <2>3. HandEmpty'
      BY <2>1, <2>2 DEF Flow, HandEmpty
    <2>4. Pipeline(w)' = Pipeline(w)
      <3>1. dec[w] \o hand[w] \in Seq(Positions)
        BY PipeTypes DEF IInv, Control
      <3>2. (dec[w] \o hand[w]) \o << >> = dec[w] \o hand[w]
        BY <3>1, ConcatEmptySeq
      <3>3. QED
        BY <1>2, <2>1, <2>2, <3>2 DEF Pipeline, Pushing
    <2>5. \A v \in Workers : v # w => Pipeline(v)' = Pipeline(v)
      BY <1>2, <2>1, <2>2 DEF Pipeline, Pushing
    <2>6. \A v \in Workers : Intact(v)'
      BY <1>2, <2>1, <2>4, <2>5 DEF Flow, Intact
    <2>7. Draining'
      BY <1>2, <2>1 DEF Flow, Draining
    <2>8. Leavers'
      BY <1>2, <2>1 DEF Flow, Leavers, Finished, IInv, TypeOK
    <2>9. QED
      BY <2>1, <2>3, <2>6, <2>7, <2>8 DEF Flow
  <1>3. QED
    BY <1>1, <1>2 DEF SendPacket

\* A frame shown or sounded is the first of what its worker has, and all before it were.
LEMMA ShowFlow ==
  ASSUME IInv, Flow, NEW w \in Workers, NEW from, from \in {"tick", "write"}, AtPlace(w, from, "recv"),
         dec[w] # << >>, dec' = [dec EXCEPT ![w] = Tail(@)], done' = [done EXCEPT ![w] = Head(dec[w])],
         UNCHANGED <<queue, qabort, aborted, hand, draining>>
  PROVE  Flow'
  <1>1. /\ QueueFlags' /\ Decided' /\ UNCHANGED <<dpc, pos, qeof, ran, stopRequested>>
        /\ pc[w] = from /\ pc'[w] = "recv" /\ \A v \in Workers : v # w => pc'[v] = pc[v]
    BY WorkerFlags
  <1>2. /\ dec'[w] = Tail(dec[w]) /\ done'[w] = Head(dec[w])
        /\ \A v \in Workers : v # w => dec'[v] = dec[v] /\ done'[v] = done[v]
    BY DEF IInv, TypeOK
  <1>3. HandEmpty' /\ Draining'
    BY <1>1 DEF Flow, HandEmpty, Draining
  <1>4. ASSUME ~aborted
        PROVE  done'[w] < pos' /\ Holds(Pipeline(w)', w, done'[w] + 1, pos' - 1)
    <2>1. /\ dec[w] \in Seq(Positions) /\ hand[w] \in Seq(Positions) /\ queue[w] \in Seq(Positions)
          /\ Pushing(w) \in Seq(Positions) /\ Pipeline(w) \in Seq(Positions)
          /\ dec[w] \o hand[w] \in Seq(Positions) /\ dec[w] \o hand[w] \o queue[w] \in Seq(Positions)
          /\ done[w] \in Nat /\ pos \in Nat
      BY PipeTypes DEF IInv, Control
    <2>4. /\ Pipeline(w) # << >> /\ Head(Pipeline(w)) = Head(dec[w])
          /\ Tail(Pipeline(w)) = Tail(dec[w]) \o hand[w] \o queue[w] \o Pushing(w)
      <3>1. dec[w] \in Seq(Positions)
        BY <2>1
      <3>2. hand[w] \in Seq(Positions)
        BY <2>1
      <3>3. queue[w] \in Seq(Positions)
        BY <2>1
      <3>4. Pushing(w) \in Seq(Positions)
        BY <2>1
      <3>5. Begins(Pipeline(w), dec[w], hand[w], queue[w], Pushing(w))
        BY <3>1, <3>2, <3>3, <3>4, HeadOfFour DEF Pipeline
      <3>6. QED
        BY <3>5 DEF Begins
    <2>5. Pipeline(w)' = Tail(Pipeline(w))
      BY <1>1, <1>2, <2>4 DEF Pipeline, Pushing
    <2>6. Holds(Pipeline(w), w, done[w] + 1, pos - 1)
      BY <1>1, <1>4 DEF Flow, Intact
    <2>7. /\ Head(Pipeline(w)) \in done[w] + 1 .. pos - 1
          /\ Holds(Tail(Pipeline(w)), w, Head(Pipeline(w)) + 1, pos - 1)
      BY <2>1, <2>4, <2>6, HoldsLess
    <2>8. done'[w] = Head(Pipeline(w)) /\ pos' = pos
      BY <1>1, <1>2, <2>4
    <2>9. done'[w] < pos'
      <3>1. done[w] \in Nat /\ pos \in Nat
        BY <2>1
      <3>2. QED
        BY <3>1, <2>7, <2>8
    <2>10. Holds(Pipeline(w)', w, done'[w] + 1, pos' - 1)
      <3>1. Holds(Tail(Pipeline(w)), w, Head(Pipeline(w)) + 1, pos - 1)
        BY <2>7
      <3>2. QED
        BY <3>1, <2>5, <2>8, Zenon
    <2>11. QED
      BY <2>9, <2>10
  <1>5. \A v \in Workers : v # w => Pipeline(v)' = Pipeline(v)
    BY <1>1, <1>2 DEF Pipeline, Pushing
  <1>6. \A v \in Workers : Intact(v)'
    BY <1>1, <1>2, <1>4, <1>5 DEF Flow, Intact
  <1>7. Leavers'
    <2>1. pc'[w] # "none"
      BY <1>1
    <2>2. QED
      BY <1>1, <1>2, <2>1 DEF Flow, Leavers, Finished, IInv, TypeOK
  <1>8. QED
    BY <1>1, <1>3, <1>6, <1>7 DEF Flow

\* The workers' steps.
LEMMA WorkerFlow ==
  ASSUME IInv, Flow, NEW w \in Workers, Worker(w)
  PROVE  Flow'
  <1>v. "video" \in Workers /\ "audio" \in Workers
    BY DEF Workers
  <1>1. ASSUME NEW from, NEW to, from # "none", to \notin {"none", "check"}, AtPlace(w, from, to),
               UNCHANGED <<queue, hand, dec, draining, done, qabort, aborted>>,
               from = "pause" => to = "send", from # "send"
        PROVE  Flow'
    BY <1>1, MovesFlow
  <1>2. ASSUME NEW from, from # "none",
               \/ LeavesAborting(w, from)
               \/ LeavesQuietly(w, from) /\ (stopRequested \/ aborted)
        PROVE  Flow'
    BY <1>2, LeavesFlow DEF LeavesQuietly, LeavesAborting
  <1>3. CASE WorkerTop(w) \/ WorkerPause(w)
    BY <1>1, <1>2, <1>3 DEF WorkerTop, WorkerPause
  <1>4. CASE Pop(w)
    BY <1>4, PopFlow
  <1>5. CASE SendPacket(w)
    BY <1>5, SendFlow
  <1>6. CASE Check(w)
    <2>1. CASE AtPlace(w, "check", "recv") /\ draining' = [draining EXCEPT ![w] = TRUE]
               /\ UNCHANGED <<queue, qabort, aborted, hand, dec, done>>
      <3>1. \A v \in Workers : draining'[v] => draining[v] \/ v = w
        BY <2>1 DEF IInv, TypeOK
      <3>2. QED
        BY <2>1, <3>1, MovesFlow
    <2>2. QED
      BY <1>2, <1>6, <2>1 DEF Check
  <1>7. CASE ReceiveNothing(w)
    <2>1. CASE draining[w] /\ ~HasFrame(w) /\ LeavesQuietly(w, "recv")
      BY <2>1, LeavesFlow DEF LeavesQuietly
    <2>2. QED
      BY <1>1, <1>2, <1>7, <2>1 DEF ReceiveNothing
  <1>8. CASE ReceiveFails(w)
    BY <1>2, <1>8 DEF ReceiveFails
  <1>9. CASE w = "video" /\ (ReceiveVideo \/ NotDue \/ Sync \/ StopSeen)
    BY <1>1, <1>2, <1>9 DEF ReceiveVideo, NotDue, Sync, StopSeen
  <1>10. CASE w = "audio" /\ (ReceiveAudio \/ AudioPause \/ QueueAudioFails)
    BY <1>1, <1>2, <1>10 DEF ReceiveAudio, AudioPause, QueueAudioFails
  <1>11. CASE w = "video" /\ Present
    <2>1. dec["video"] # << >>
      BY <1>11 DEF Present, AtPlace, IInv, FrameInHand
    <2>2. QED
      BY <1>11, <1>v, <2>1, ShowFlow DEF Present
  <1>12. CASE w = "audio" /\ QueueAudioFrame
    <2>1. dec["audio"] # << >>
      BY <1>12 DEF QueueAudioFrame, AtPlace, IInv, FrameInHand
    <2>2. QED
      BY <1>12, <1>v, <2>1, ShowFlow DEF QueueAudioFrame
  <1>13. QED
    BY <1>3, <1>4, <1>5, <1>6, <1>7, <1>8, <1>9, <1>10, <1>11, <1>12 DEF Worker

-----------------------------------------------------------------------------
(* The theorems *)

\* The invariant holds of every behaviour.
THEOREM PlayerInvariance == Spec => []IInv
  <1>1. Init => IInv
    <2> SUFFICES ASSUME Init PROVE IInv
      OBVIOUS
    <2>1. TypeOK
      <3>1. << >> \in Seq(Positions) /\ 0 \in 0 .. Last /\ 1 \in 1 .. Last + 1 /\ 1 \in Keys
        BY FileFacts
      <3>2. PlaceTypes
        BY <3>1 DEF Init, PlaceTypes, DemuxPlaces, WorkerPlaces
      <3>3. DataTypes
        BY <3>1 DEF Init, DataTypes
      <3>4. RestTypes
        BY TypeFacts, 0 \in 0 .. MaxErrors DEF Init, RestTypes
      <3>5. QED
        BY <3>2, <3>3, <3>4, TypeParts
    <2>2. FrameInHand /\ Control
      BY DEF Init, FrameInHand, Control, WorkersWithinDemux, Joined, FlagsAgree, PushRange,
             PushNeverWaits, Workers
    <2>3. PauseInv
      BY DEF Init, PauseInv, Nothing, Deeds
    <2>4. QED
      BY <2>1, <2>2, <2>3 DEF IInv
  <1>2. IInv /\ [Next]_vars => IInv'
    <2> SUFFICES ASSUME IInv, [Next]_vars PROVE IInv'
      OBVIOUS
    <2>1. CASE Next
      <3>1. TypeOK'
        <4>1. CASE UI
          BY <4>1, UITypes DEF IInv
        <4>2. CASE Demux
          BY <4>2, DemuxTypes DEF IInv, Control
        <4>3. CASE \E w \in Workers : Worker(w)
          BY <4>3, WorkerTypes DEF IInv
        <4>4. QED
          BY <2>1, <4>1, <4>2, <4>3 DEF Next
      <3>2. FrameInHand'
        BY <2>1, FrameStep DEF IInv
      <3>3. Control'
        BY <2>1, WithinStep, FlagsStep, PushStep DEF IInv, Control
      <3>4. PauseInv'
        BY <2>1, PauseStep DEF IInv, Control
      <3>5. QED
        BY <3>1, <3>2, <3>3, <3>4 DEF IInv
    <2>2. CASE UNCHANGED vars
      <3>1. UNCHANGED <<ui, loading, playing, paused, stopRequested, threadRunning, eof, loopPlay,
                        seekPending, seekTarget, dpc, pos, target, audioOn, queue, qeof, qabort, aborted,
                        pc, hand, dec, draining, ran, done, late, errors>>
        BY <2>2 DEF vars, uivars, flags, seekvars, demuxvars, pipevars, workervars, history
      <3>2. TypeOK'
        BY <3>1 DEF IInv, TypeOK
      <3>3. FrameInHand' /\ PauseInv'
        BY <3>1 DEF IInv, FrameInHand, PauseInv
      <3>4. Control'
        BY <3>1 DEF IInv, Control, WorkersWithinDemux, Joined, FlagsAgree, PushRange, PushNeverWaits, Wanted
      <3>5. QED
        BY <3>2, <3>3, <3>4 DEF IInv
    <2>3. QED
      BY <2>1, <2>2
  <1>3. QED
    BY <1>1, <1>2, PTL DEF Spec

\* The state of WidgetVideo keeps its types for every file, queue size and delay.
THEOREM PlayerTypeCorrect == Spec => []TypeOK
  <1>1. IInv => TypeOK
    BY DEF IInv
  <1>2. QED
    BY <1>1, PlayerInvariance, PTL

\* No decoding worker runs while decodeLoop opens, reopens or frees what the workers use, nor when
\* it reports the end of the file.
THEOREM WorkersJoined == Spec => []WorkersWithinDemux
  <1>1. IInv => WorkersWithinDemux
    BY DEF IInv, Control
  <1>2. QED
    BY <1>1, PlayerInvariance, PTL

\* The flags under stateMutex agree with the threads, whatever the UI does between their steps.
THEOREM FlagsAgreeAlways == Spec => []FlagsAgree
  <1>1. IInv => FlagsAgree
    BY DEF IInv, Control
  <1>2. QED
    BY <1>1, PlayerInvariance, PTL

\* decodeLoop never waits in packet_queue_push_clone, for every pair of high-water marks no larger
\* than the capacities.
THEOREM DemuxNeverBlocks == Spec => []PushNeverWaits
  <1>1. IInv => PushNeverWaits
    BY DEF IInv, Control
  <1>2. QED
    BY <1>1, PlayerInvariance, PTL

\* A pause lets through at most one picture swap, one presentation and one block of sound, for every
\* file and decoder delay.
THEOREM PauseHolds == Spec => []PauseFreezes
  <1>1. IInv => PauseFreezes
    BY DEF IInv, PauseInv, PauseFreezes
  <1>2. QED
    BY <1>1, PlayerInvariance, PTL

\* Threads, resources and flags stay in step, for every file and queue size.
THEOREM ThreadsAgreeAlways == Spec => []ThreadsAgree
<1>1. WorkersWithinDemux /\ FlagsAgree => ThreadsAgree
  BY DEF ThreadsAgree
<1> QED
  BY <1>1, WorkersJoined, FlagsAgreeAlways, PTL

\* What is on the way to the screen and the sound device is what QueueFlags, Draining and Leavers
\* say of it, in every behaviour.
THEOREM FlowInvariance == Spec => []Flow
  <1>1. Init => Flow
    <2> SUFFICES ASSUME Init PROVE Flow
      OBVIOUS
    <2>1. HandEmpty /\ (\A w \in Workers : Intact(w)) /\ QueueFlags /\ Draining
      BY DEF Init, HandEmpty, Intact, QueueFlags, Draining
    <2>2. Leavers /\ Decided
      BY DEF Init, Leavers, Decided
    <2>3. QED
      BY <2>1, <2>2 DEF Flow
  <1>2. IInv /\ IInv' /\ Flow /\ [Next]_vars => Flow'
    <2> SUFFICES ASSUME IInv, IInv', Flow, [Next]_vars PROVE Flow'
      OBVIOUS
    <2>1. CASE UI
      BY <2>1, UIFlow
    <2>2. CASE Demux
      BY <2>2, DemuxFlow
    <2>3. CASE \E w \in Workers : Worker(w)
      BY <2>3, WorkerFlow
    <2>4. CASE UNCHANGED vars
      <3>1. UNCHANGED <<dpc, stopRequested, pc, hand, dec, draining, ran, done, pos, queue, qeof, qabort, aborted>>
        BY <2>4 DEF vars, flags, demuxvars, pipevars, workervars, history
      <3>2. \A w \in Workers : Pipeline(w)' = Pipeline(w)
        BY <3>1 DEF Pipeline, Pushing
      <3>3. QED
        BY <3>1, <3>2 DEF Flow, HandEmpty, Intact, QueueFlags, Draining, Leavers, Decided, Finished
    <2>5. QED
      BY <2>1, <2>2, <2>3, <2>4 DEF Next
  <1>3. QED
    BY <1>1, <1>2, PlayerInvariance, PTL DEF Spec

\* No packet is lost, repeated, reordered or kept from before a seek, for every file, queue size and
\* decoder delay.
THEOREM StreamStaysIntact == Spec => []StreamIntact
  <1>1. Flow => StreamIntact
    BY DEF Flow, Intact, Holds, Pipeline, StreamIntact
  <1>2. QED
    BY <1>1, FlowInvariance, PTL

\* "Done" is reported only with everything shown and sounded, for every file, also when errors, a
\* seek or a stop race the end of it.
THEOREM DoneMeansShown == Spec => DoneIsDoneAlways
  <1>1. IInv /\ Flow /\ [Next]_vars => [DoneIsDone]_vars
    <2> SUFFICES ASSUME IInv, Flow, Next, eof', ~eof, NEW w \in ran
                 PROVE  Segment(w, done[w] + 1, pos - 1) = {}
      BY DEF DoneIsDone, vars, flags
    <2>1. ~UI
      BY DEF UI, PlayStarts, PlayResumes, Pause, SeekToMs, SetLoop, StopBegins, StopEnds, StartThread
    <2>2. ASSUME NEW v \in Workers, Worker(v)
          PROVE  FALSE
      BY <2>2, WorkerFrame DEF IInv, flags
    <2>3. Demux
      BY <2>1, <2>2 DEF Next
    <2>4. ASSUME NEW from, NEW to, Goes(from, to)
          PROVE  FALSE
      BY <2>4 DEF Goes, flags
    <2>5. ~(Open \/ TakeSeekRequest \/ Restart \/ ReadFrame \/ PlayAgain \/ ThreadEnds)
      BY DEF Open, TakeSeekRequest, Restart, ReadFrame, PlayAgain, ThreadEnds, flags
    <2>6. ~(OpenFails \/ LoopTop \/ NoSeekRequest \/ AbortQueues \/ JoinBeforeRestart \/ RestartFails)
      BY <2>4 DEF OpenFails, LoopTop, NoSeekRequest, AbortQueues, JoinBeforeRestart, RestartFails
    <2>7. ~(WaitIfPaused \/ Recheck \/ Backpressure \/ ReadEnds \/ Push)
      BY <2>4 DEF WaitIfPaused, Recheck, Backpressure, ReadEnds, Push
    <2>8. ~(JoinAtEof \/ Ended \/ Cleanup \/ JoinAtEnd)
      BY <2>4 DEF JoinAtEof, Ended, Cleanup, JoinAtEnd
    <2>9. Done
      BY <2>3, <2>5, <2>6, <2>7, <2>8 DEF Demux
    <2>10. QED
      BY <2>9 DEF Done, Flow, Decided, Finished
  <1>2. QED
    BY <1>1, PlayerInvariance, FlowInvariance, PTL DEF Spec, DoneIsDoneAlways

=============================================================================
