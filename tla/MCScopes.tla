------------------------------ MODULE MCScopes ------------------------------
(***************************************************************************)
(* Scopes with two names, which are interchangeable.                       *)
(***************************************************************************)
EXTENDS Scopes, TLC

Symmetry == Permutations(Names)
=============================================================================
