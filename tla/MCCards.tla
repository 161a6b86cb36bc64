------------------------------- MODULE MCCards -------------------------------
(***************************************************************************)
(* Cards for TLC: two suits of three values, two columns, a few deals.      *)
(***************************************************************************)
EXTENDS Cards

MCColumns == <<"left", "right">>
R(v) == <<"red", v>>
B(v) == <<"black", v>>

\* won after one draw; with a run to build; with the aces face down
MCDeals == {
    <<B(1), B(2), R(1), R(3), R(2), B(3)>>,
    <<R(2), R(1), B(3), B(1), B(2), R(3)>>,
    <<R(3), B(1), B(2), R(1), R(2), B(3)>> }
=============================================================================
