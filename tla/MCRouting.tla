------------------------------ MODULE MCRouting ------------------------------
(***************************************************************************)
(* A small instance of Routing: CLP 0 with children 1 and 2, ALP 3 at CLP 1 *)
(* and ALP 4 at CLP 2, one agent on each, one variable that starts at CLP 2.*)
(***************************************************************************)
EXTENDS Routing

MCAlpToClp    == (3 :> 1) @@ (4 :> 2)
MCAlpOf       == (1 :> 3) @@ (2 :> 4)
MCInitialClp  == ("x" :> 2)
MCMaxRequests == (1 :> 3) @@ (2 :> 1)
=============================================================================
