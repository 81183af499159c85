------------------------------ MODULE MCCalls ------------------------------
(***************************************************************************)
(* Calls for TLC: two or three frames and functions of one parameter or of *)
(* none, given in the configurations.                                      *)
(***************************************************************************)
EXTENDS Calls

\* No guard and no property of the run "calls" reads the last result; with no step
\* limit steps stays 0.
Effective == <<stack, frames, active, error>>
=============================================================================
