------------------------------ MODULE MCTable ------------------------------
(***************************************************************************)
(* Table on four keys, three of which collide modulo the first capacity.   *)
(* The first array has 4 slots where the code has 8, so that it fills, and *)
(* is outgrown, with few keys.                                             *)
(***************************************************************************)
EXTENDS Table, TLC

CONSTANTS k1, k2, k3, k4

MCKeys == {k1, k2, k3, k4}

MCHash == (k1 :> 3) @@ (k2 :> 7) @@ (k3 :> 2) @@ (k4 :> 11)
=============================================================================
