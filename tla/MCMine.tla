-------------------------------- MODULE MCMine --------------------------------
(***************************************************************************)
(* Mine for TLC: a board with room to spare the neighbours of the first     *)
(* cell and one without, both small enough to be played to the end.         *)
(***************************************************************************)
EXTENDS Mine

MCDifficulties ==
    [B |-> [rows |-> 2, cols |-> 4, mines |-> 2], E |-> [rows |-> 2, cols |-> 3, mines |-> 3]]
=============================================================================
