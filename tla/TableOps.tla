------------------------------ MODULE TableOps ------------------------------
(***************************************************************************)
(* The pure part of src/src/table.c: an open-addressing hash table with    *)
(* linear probing and tombstones.  An entry array is a function from slots *)
(* 0 .. capacity-1 to entries.  A search that the code writes as a loop is *)
(* written here as the least probe distance at which the loop stops.       *)
(***************************************************************************)
EXTENDS Integers, FiniteSets

CONSTANTS
  Keys,         \* ObjString pointers; strings are interned, so a key is its text
  NoKey,        \* the NULL key of an unoccupied slot
  Values,       \* the values an entry can hold
  Nil,          \* NIL_VAL
  True,         \* BOOL_VAL(true), which marks a tombstone
  Hash,         \* ObjString.hash of every key
  MinCapacity   \* the smallest capacity allocated: 8 in MJ_GROW_CAPACITY

ASSUME TableAssumption ==
  /\ NoKey \notin Keys
  /\ Nil \in Values
  /\ True \in Values
  /\ True # Nil
  /\ Hash \in [Keys -> Nat]
  /\ MinCapacity \in Nat
  /\ MinCapacity >= 2

Slots(cap) == 0 .. cap - 1

Entry == [key : Keys \cup {NoKey}, value : Values]

Empty == [key |-> NoKey, value |-> Nil]

Tombstone == [key |-> NoKey, value |-> True]

EmptyArray(cap) == [i \in Slots(cap) |-> Empty]

\* Slots that stop no search: occupied ones and tombstones.
Used(es) == {i \in DOMAIN es : es[i] # Empty}

Live(es) == {i \in DOMAIN es : es[i].key # NoKey}

GrowCapacity(cap) == IF cap < MinCapacity THEN MinCapacity ELSE cap * 2

\* Mutant: the array may fill up completely.
MustGrow_WhenFull(count, cap) == count + 1 > cap

\* TABLE_MAX_LOAD is 0.75, compared in exact arithmetic.
MustGrow(count, cap) == 4 * (count + 1) > 3 * cap

Least(S) == CHOOSE n \in S : \A m \in S : n <= m

\* The slot looked at after n steps of linear probing for key k.
Probe(k, cap, n) == ((Hash[k] % cap) + n) % cap

\* The probe distances at which the search for k may stop: k itself, or a
\* slot that was never used.
Stops(es, cap, k) ==
  {n \in Slots(cap) : \/ es[Probe(k, cap, n)] = Empty
                      \/ es[Probe(k, cap, n)].key = k}

\* The tombstones (or other unoccupied slots) passed on the way.
Graves(es, cap, k) ==
  {n \in Slots(cap) : /\ \A m \in Stops(es, cap, k) : n < m
                      /\ es[Probe(k, cap, n)].key = NoKey}

FindEntry(es, cap, k) ==
  LET last == Probe(k, cap, Least(Stops(es, cap, k)))
  IN  IF es[last].key = k \/ Graves(es, cap, k) = {}
        THEN last
        ELSE Probe(k, cap, Least(Graves(es, cap, k)))

\* table_find_string's own loop: it passes tombstones and ends on the text or on
\* a slot that was never used.
FindString(es, cap, k) == es[Probe(k, cap, Least(Stops(es, cap, k)))].key = k

\* Every live slot is where the search for its key ends.
Findable(es, cap) ==
  \A i \in Live(es) : FindEntry(es, cap, es[i].key) = i
=============================================================================
