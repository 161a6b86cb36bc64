----------------------------- MODULE ByteStream -----------------------------
(***************************************************************************)
(* What a relay promises for one direction of a connection: the receiver   *)
(* sees the sender's bytes, each once and in order, until the stream is    *)
(* fouled.  After that nothing is promised.                                *)
(***************************************************************************)
EXTENDS Naturals, Sequences

CONSTANT Byte

VARIABLES sent, delivered, fouled
vars == <<sent, delivered, fouled>>

Init == sent = << >> /\ delivered = << >> /\ fouled = FALSE

\* the sender hands over the next bytes
Send ==
    /\ Len(sent') > Len(sent)
    /\ SubSeq(sent', 1, Len(sent)) = sent
    /\ UNCHANGED delivered

\* the receiver gets the next bytes it has not seen
Deliver ==
    /\ Len(delivered) < Len(delivered')
    /\ Len(delivered') <= Len(sent)
    /\ delivered' = SubSeq(sent, 1, Len(delivered'))
    /\ UNCHANGED sent

Next == fouled' \/ (~fouled /\ ~fouled' /\ (Send \/ Deliver))

Spec == Init /\ [][Next]_vars
=============================================================================
