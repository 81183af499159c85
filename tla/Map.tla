-------------------------------- MODULE Map --------------------------------
(***************************************************************************)
(* What a Table (src/src/table.h) promises to its users: a finite map from *)
(* interned strings to values.  The globals, every script-level table and  *)
(* the string-interning set are all Tables.  `dict' is the map and         *)
(* `result' what the last call returned.                                   *)
(***************************************************************************)
CONSTANTS
  Keys,      \* the interned strings (ObjString pointers)
  Values     \* the values a table entry can hold, nil among them

VARIABLES
  dict,      \* the map: a function whose domain is the set of present keys
  doing,     \* the call in progress, of those that take several steps
  result     \* the answer of the last call

mapVars == <<dict, doing, result>>

Answer(r, v) == [ok |-> r, out |-> v]

NoAnswer == [ok |-> FALSE, out |-> {}]

Init ==
  /\ dict = [k \in {} |-> k]
  /\ doing = "nothing"
  /\ result = NoAnswer

\* Reading a key yields the last value stored under it, or "absent".
Get(k) ==
  /\ doing = "nothing"
  /\ IF k \in DOMAIN dict
       THEN result' = Answer(TRUE, {dict[k]})
       ELSE result' = NoAnswer
  /\ UNCHANGED <<dict, doing>>

\* Finding answers whether the key is present.
Find(k) ==
  /\ doing = "nothing"
  /\ result' = Answer(k \in DOMAIN dict, {})
  /\ UNCHANGED <<dict, doing>>

\* Deleting answers whether the key was present.
Delete(k) ==
  /\ doing = "nothing"
  /\ dict' = [x \in DOMAIN dict \ {k} |-> dict[x]]
  /\ result' = Answer(k \in DOMAIN dict, {})
  /\ UNCHANGED doing

Clear ==
  /\ doing = "nothing"
  /\ dict' = [x \in {} |-> x]
  /\ UNCHANGED <<doing, result>>

\* Storing may take time, but changes the map in one step ...
BeginSet ==
  /\ doing = "nothing"
  /\ doing' = "storing"
  /\ UNCHANGED <<dict, result>>

\* ... and answers whether the key was absent before.
Set(k, v) ==
  /\ doing = "storing"
  /\ doing' = "nothing"
  /\ dict' = [x \in DOMAIN dict \cup {k} |-> IF x = k THEN v ELSE dict[x]]
  /\ result' = Answer(k \notin DOMAIN dict, {})

\* A collection drops keys, one at a time and without an answer.
BeginForget ==
  /\ doing = "nothing"
  /\ doing' = "forgetting"
  /\ UNCHANGED <<dict, result>>

Forget(k) ==
  /\ doing = "forgetting"
  /\ k \in DOMAIN dict
  /\ dict' = [x \in DOMAIN dict \ {k} |-> dict[x]]
  /\ UNCHANGED <<doing, result>>

EndForget ==
  /\ doing = "forgetting"
  /\ doing' = "nothing"
  /\ UNCHANGED <<dict, result>>

Next ==
  \/ \E k \in Keys : Get(k) \/ Find(k) \/ Delete(k) \/ Forget(k)
  \/ \E k \in Keys, v \in Values : Set(k, v)
  \/ BeginSet \/ BeginForget \/ EndForget \/ Clear

Spec == Init /\ [][Next]_mapVars
=============================================================================
