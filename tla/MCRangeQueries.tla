--------------------------- MODULE MCRangeQueries ---------------------------
(***************************************************************************)
(* An instance of RangeQueries: CLP 0 with children 1 and 2, ALP 3 at CLP 1. *)
(* CLP 1 has three variables; v moves between the two others, into the     *)
(* rectangle of "tall", which then crosses the range, and to the far       *)
(* corner.  CLP 0 has w and CLP 2 has u, whose ranges CLP 1 knows as one.  *)
(***************************************************************************)
EXTENDS RangeQueries

MCAlpToClp     == 3 :> 1
MCHome         == [s |-> 1, t |-> 1, v |-> 1, w |-> 0, u |-> 2]
MCInitialValue == [s |-> <<0, 1>>, t |-> <<2, 1>>, v |-> <<3, 3>>, w |-> <<4, 4>>,
                   u |-> <<3, 2>>]
MCValues       == [s |-> {<<0, 1>>}, t |-> {<<2, 1>>}, v |-> {<<1, 1>>, <<3, 3>>},
                   w |-> {<<1, 1>>, <<4, 4>>}, u |-> {<<3, 2>>}]
MCFrom         == [tall |-> 3, far |-> 3]
MCId           == [tall |-> 1, far |-> 2]
MCRectangle    == [tall |-> [min |-> <<1, 0>>, max |-> <<1, 2>>],
                   far  |-> [min |-> <<3, 2>>, max |-> <<4, 4>>]]
=============================================================================
