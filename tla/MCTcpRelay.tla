----------------------------- MODULE MCTcpRelay -----------------------------
(***************************************************************************)
(* TcpRelay for TLC: two-byte segments and a queue shorter than what the   *)
(* session and other traffic can put into it.                              *)
(***************************************************************************)
EXTENDS TcpRelay

MCIsns == {Modulus - 2}
MCByte == ({"g"} \X (1 .. GuestBytes)) \cup ({"s"} \X (1 .. ServerBytes))

\* the segments and chunks come from the two ends of TcpRelay, not from these sets
MCGuestSegs == {}
MCServerChunks == {}
=============================================================================
