--------------------------- MODULE MCVideoPlayer ---------------------------
(***************************************************************************)
(* VideoPlayer for TLC: a short file, queues of one packet and a video      *)
(* decoder that holds one frame back.                                       *)
(***************************************************************************)
EXTENDS VideoPlayer

PerStream(v, a) == [w \in Workers |-> IF w = "video" THEN v ELSE a]

MCStreams == <<"video", "audio", "video">>
MCKeys == {1}
MCCapacity == PerStream(1, 1)
MCHighWater == PerStream(1, 1)
MCDelay == PerStream(1, 0)
=============================================================================
