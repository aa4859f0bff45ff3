------------------------------ MODULE MCGvtRing ------------------------------
(* An instance of GvtRing for TLC.                                         *)
EXTENDS GvtRing
=============================================================================
