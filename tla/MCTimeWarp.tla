----------------------------- MODULE MCTimeWarp -----------------------------
(* Instances of TimeWarp for TLC.                                          *)
EXTENDS TimeWarp

\* Two agents, each on an ALP of its own.
TwoAlps == {[id |-> 1, rank |-> 1], [id |-> 2, rank |-> 2]}
=============================================================================
