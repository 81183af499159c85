---------------------------- MODULE MCAccounting ----------------------------
(***************************************************************************)
(* Accounting for three objects, a header of one unit and structs of two   *)
(* or three, on a counter of seven bits.                                   *)
(***************************************************************************)
EXTENDS Accounting, TLC

CONSTANTS o1, o2, o3

MCObjects == {o1, o2, o3}

MCSize == o1 :> 2 @@ o2 :> 3 @@ o3 :> 3
=============================================================================
