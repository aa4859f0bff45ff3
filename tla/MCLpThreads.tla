----------------------------- MODULE MCLpThreads -----------------------------
(* An instance of LpThreads for TLC.                                       *)
EXTENDS LpThreads
=============================================================================
