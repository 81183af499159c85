---------------------------- MODULE Reachability ----------------------------
(***************************************************************************)
(* The object graph as the collector sees it: `refs[o]' is the set of      *)
(* objects gc_blacken_object (src/src/gc.c) finds in o, and a base set is  *)
(* what mark_roots starts from.  Reachability is defined without recursion *)
(* as membership of every closed superset of the base, so that it can be   *)
(* reasoned about as well as evaluated.                                    *)
(***************************************************************************)
CONSTANT Objects   \* every address an object may have

Closed(S, refs) == \A o \in S : refs[o] \subseteq S

Reach(base, refs) ==
  LET closed == {S \in SUBSET Objects : base \subseteq S /\ Closed(S, refs)}
  IN  {o \in Objects : \A S \in closed : o \in S}
=============================================================================
