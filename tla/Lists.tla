-------------------------------- MODULE Lists --------------------------------
(***************************************************************************)
(* Lists of messages, as the walks of Alp::ProcessRollback and its like    *)
(* over the send queue and the send list leave them.                       *)
(***************************************************************************)
EXTENDS Naturals, SequencesExt

\* A list without some of its elements (SelectSeq, with what is to go as a set).
Remaining(list, gone) ==
  LET kept[i \in 0 .. Len(list)] ==
        IF i = 0 THEN <<>>
        ELSE IF list[i] \in gone THEN kept[i - 1]
        ELSE Append(kept[i - 1], list[i])
  IN kept[Len(list)]
=============================================================================
