---------------------------- MODULE MCTcpSession ----------------------------
(***************************************************************************)
(* TcpSession for TLC: an eight-value sequence space that wraps early, a   *)
(* two-byte MSS, a buffer shorter than what both sides may queue, and a    *)
(* guest that sends any sequence and acknowledgement number.               *)
(***************************************************************************)
EXTENDS TcpSession

MCIsns == {Modulus - 2}

\* payload bytes are told apart by the side they come from
MCByte == {"g", "s"}

\* two bytes of guest data from MCIsns on, acknowledgements below, at and above what is sent
MCGuestSegs ==
    [flags : {{"ACK"}, {"ACK", "FIN"}}, seq : {Modulus - 1, 0}, ack : {Modulus - 1, 0, 1, 2},
     data : {<< >>, <<"g">>}]
    \cup [flags : {{"RST"}, {"RST", "ACK"}}, seq : {0}, ack : {1}, data : {<< >>}]

MCServerChunks == {<<"s">>, <<"s", "s", "s">>}
=============================================================================
