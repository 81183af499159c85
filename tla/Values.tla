------------------------------- MODULE Values -------------------------------
(***************************************************************************)
(* The values of src/src/value.h, as the compiler's constants and the      *)
(* machine's stack hold them: a tag and what goes with it.  Numbers are    *)
(* whole; two strings are one object when they have the same characters    *)
(* (TableOps, Rooting); a table is named by the order of its creation.     *)
(***************************************************************************)
EXTENDS Integers, Sequences

Nil == <<"nil">>
Bool(b) == <<"bool", b>>
Number(n) == <<"number", n>>
Text(s) == <<"string", s>>
Table(id) == <<"table", id>>
Native(name) == <<"native", name>>
Closure(id) == <<"function", id>>

\* The tags are the words type_native answers with.
TypeName(v) == v[1]

Payload(v) == v[2]

AllAre(type, values) == \A i \in 1 .. Len(values) : TypeName(values[i]) = type

IsFalsey(v) == v \in {Nil, Bool(FALSE)}

\* C's remainder: it has the sign of the dividend.
Remainder(m, n) ==
  LET abs(x) == IF x < 0 THEN -x ELSE x
  IN  IF m < 0 THEN -(abs(m) % abs(n)) ELSE m % abs(n)

\* A dictionary with one entry set.
Put(f, key, value) == [k \in DOMAIN f \cup {key} |-> IF k = key THEN value ELSE f[k]]

Empty == [k \in {} |-> Nil]
=============================================================================
