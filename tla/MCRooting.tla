----------------------------- MODULE MCRooting -----------------------------
(***************************************************************************)
(* Rooting with few objects of each type.                                  *)
(***************************************************************************)
EXTENDS Rooting, TLC

CONSTANTS o1, o2, o3, o4, o5

MCObjects == {o1, o2, o3, o4, o5}
MCTables == {o1}
MCStrings == {o2}
MCFunctions == {o3, o4}
MCBlobs == {o5}

\* The two functions are interchangeable.
Symmetry == Permutations(MCFunctions)

\* What is left in freed memory is not part of the state: nothing reads it before
\* ReachableAllocated fails or the model stops.
Contents ==
  <<objects, stack, interned, chain, pc, call,
    [t \in (Tables \cap objects) \cup {Globals} |-> content[t]],
    [o \in (Functions \cup Blobs) \cap objects |-> inside[o]]>>

AllOps == {"push", "pop", "new_table", "userdata", "string", "concatenate", "define_global",
           "set_property", "closure", "compile"} \cup PopsFirst

\* What a program needs that stores with t[k] = v.
IndexOps == {"push", "pop", "new_table", "string", "set_index"}
=============================================================================
