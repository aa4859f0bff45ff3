---------------------------- MODULE MCAlpThreads ----------------------------
(***************************************************************************)
(* An instance of AlpThreads: two agents on one ALP; before the end time   *)
(* there is time for two requests of one and for one of the other.         *)
(***************************************************************************)
EXTENDS AlpThreads

TwoAgents    == {"a", "b"}
MCEndTime == [a |-> 2, b |-> 1]
=============================================================================
