------------------------------- MODULE Table -------------------------------
(***************************************************************************)
(* One Table of src/src/table.c as a state machine: a call is made when    *)
(* `pc' is "idle"; table_set may first move every live entry to a larger   *)
(* array (adjust_capacity), one entry per step as its loop does, and only  *)
(* then stores.  The collector's table_remove_white deletes entries in a   *)
(* loop of its own.  The table's own fields carry the source's names.      *)
(***************************************************************************)
EXTENDS TableOps

VARIABLES
  count,     \* used slots: occupied ones and tombstones
  capacity,  \* length of `entries'
  entries,   \* the slot array
  pc,        \* "idle", or where the running table_set or table_remove_white stands
  call,      \* the key and value the running table_set was given
  fresh,     \* adjust_capacity's new array, while it is being filled
  scan,      \* the loop index of adjust_capacity or table_remove_white over `entries'
  result     \* what the last call returned

vars == <<count, capacity, entries, pc, call, fresh, scan, result>>

NoCall == [key |-> NoKey, value |-> Nil]

Answer(r, v) == [ok |-> r, out |-> v]

NoAnswer == [ok |-> FALSE, out |-> {}]

Init ==
  /\ count = 0
  /\ capacity = 0
  /\ entries = EmptyArray(0)
  /\ pc = "idle"
  /\ call = NoCall
  /\ fresh = EmptyArray(0)
  /\ scan = 0
  /\ result = NoAnswer

TableGet(k) ==
  /\ pc = "idle"
  /\ LET e == entries[FindEntry(entries, capacity, k)]
     IN  IF count = 0 \/ e.key = NoKey
           THEN result' = NoAnswer
           ELSE result' = Answer(TRUE, {e.value})
  /\ UNCHANGED <<count, capacity, entries, pc, call, fresh, scan>>

\* table_find_string, by which object.c finds the one object of a text; k is
\* the text.
TableFindString(k) ==
  /\ pc = "idle"
  /\ result' = Answer(count > 0 /\ FindString(entries, capacity, k), {})
  /\ UNCHANGED <<count, capacity, entries, pc, call, fresh, scan>>

\* table_free, which also makes the table a new one.
TableFree ==
  /\ pc = "idle"
  /\ count' = 0
  /\ capacity' = 0
  /\ entries' = EmptyArray(0)
  /\ UNCHANGED <<pc, call, fresh, scan, result>>

\* Mutant: the freed slot is no longer counted, though it still stops nobody.
TableDelete_Uncounted(k) ==
  /\ pc = "idle"
  /\ count > 0
  /\ LET i == FindEntry(entries, capacity, k)
     IN  /\ entries[i].key # NoKey
         /\ entries' = [entries EXCEPT ![i] = Tombstone]
  /\ count' = count - 1
  /\ result' = Answer(TRUE, {})
  /\ UNCHANGED <<capacity, pc, call, fresh, scan>>

\* Mutant: the freed slot is made Empty instead of a tombstone.
TableDelete_NoTombstone(k) ==
  /\ pc = "idle"
  /\ count > 0
  /\ LET i == FindEntry(entries, capacity, k)
     IN  /\ entries[i].key # NoKey
         /\ entries' = [entries EXCEPT ![i] = Empty]
  /\ result' = Answer(TRUE, {})
  /\ UNCHANGED <<count, capacity, pc, call, fresh, scan>>

TableDelete(k) ==
  /\ pc = "idle"
  /\ LET i == FindEntry(entries, capacity, k)
     IN  IF count = 0 \/ entries[i].key = NoKey
           THEN /\ result' = NoAnswer
                /\ UNCHANGED entries
           ELSE /\ entries' = [entries EXCEPT ![i] = Tombstone]
                /\ result' = Answer(TRUE, {})
  /\ UNCHANGED <<count, capacity, pc, call, fresh, scan>>

\* table_set, up to the choice between growing and storing.
TableSet(k, v) ==
  /\ pc = "idle"
  /\ call' = [key |-> k, value |-> v]
  /\ IF MustGrow(count, capacity)
       THEN /\ pc' = "rehash"
            /\ fresh' = EmptyArray(GrowCapacity(capacity))
            /\ count' = 0
       ELSE /\ pc' = "insert"
            /\ UNCHANGED <<fresh, count>>
  /\ scan' = 0
  /\ UNCHANGED <<capacity, entries, result>>

\* Mutant: the key is moved without its value.
RehashSlot_KeyOnly ==
  /\ pc = "rehash"
  /\ scan < capacity
  /\ LET e == entries[scan]
     IN  IF e.key = NoKey
           THEN UNCHANGED <<fresh, count>>
           ELSE /\ fresh' = [fresh EXCEPT
                     ![FindEntry(fresh, GrowCapacity(capacity), e.key)].key = e.key]
                /\ count' = count + 1
  /\ scan' = scan + 1
  /\ UNCHANGED <<capacity, entries, pc, call, result>>

\* One iteration of adjust_capacity's copying loop; tombstones are dropped.
RehashSlot ==
  /\ pc = "rehash"
  /\ scan < capacity
  /\ LET e == entries[scan]
     IN  IF e.key = NoKey
           THEN UNCHANGED <<fresh, count>>
           ELSE /\ fresh' = [fresh EXCEPT
                     ![FindEntry(fresh, GrowCapacity(capacity), e.key)] = e]
                /\ count' = count + 1
  /\ scan' = scan + 1
  /\ UNCHANGED <<capacity, entries, pc, call, result>>

\* Mutant: the new array is installed under the old capacity.
RehashDone_OldCapacity ==
  /\ pc = "rehash"
  /\ scan = capacity
  /\ entries' = fresh
  /\ fresh' = EmptyArray(0)
  /\ scan' = 0
  /\ pc' = "insert"
  /\ UNCHANGED <<count, capacity, call, result>>

RehashDone ==
  /\ pc = "rehash"
  /\ scan = capacity
  /\ entries' = fresh
  /\ capacity' = GrowCapacity(capacity)
  /\ fresh' = EmptyArray(0)
  /\ scan' = 0
  /\ pc' = "insert"
  /\ UNCHANGED <<count, call, result>>

Insert ==
  /\ pc = "insert"
  /\ LET i == FindEntry(entries, capacity, call.key)
         isNew == entries[i].key = NoKey
     IN  /\ entries' = [entries EXCEPT ![i] = call]
         /\ count' = IF isNew /\ entries[i].value = Nil THEN count + 1 ELSE count
         /\ result' = Answer(isNew, {})
  /\ pc' = "idle"
  /\ call' = NoCall
  /\ UNCHANGED <<capacity, fresh, scan>>

\* table_remove_white, called between marking and sweeping.
RemoveWhite ==
  /\ pc = "idle"
  /\ pc' = "remove"
  /\ UNCHANGED <<count, capacity, entries, call, fresh, scan, result>>

\* One iteration of its loop, which deletes a white key through table_delete and
\* so searches for it.  Every key is in one slot only, and is white or not.
RemoveWhiteSlot(white) ==
  /\ pc = "remove"
  /\ scan < capacity
  /\ LET k == entries[scan].key
     IN  IF k # NoKey /\ white
           THEN entries' = [entries EXCEPT ![FindEntry(entries, capacity, k)] = Tombstone]
           ELSE UNCHANGED entries
  /\ scan' = scan + 1
  /\ UNCHANGED <<count, capacity, pc, call, fresh, result>>

RemoveWhiteDone ==
  /\ pc = "remove"
  /\ scan = capacity
  /\ scan' = 0
  /\ pc' = "idle"
  /\ UNCHANGED <<count, capacity, entries, call, fresh, result>>

Next ==
  \/ \E k \in Keys : TableGet(k) \/ TableFindString(k) \/ TableDelete(k)
  \/ \E k \in Keys, v \in Values : TableSet(k, v)
  \/ RehashSlot
  \/ RehashDone
  \/ Insert
  \/ TableFree
  \/ RemoveWhite
  \/ \E white \in BOOLEAN : RemoveWhiteSlot(white)
  \/ RemoveWhiteDone

Spec == Init /\ [][Next]_vars

-----------------------------------------------------------------------------
(* Properties *)

TypeOK ==
  /\ count \in Nat
  /\ capacity \in Nat
  /\ entries \in [Slots(capacity) -> Entry]
  /\ pc \in {"idle", "rehash", "insert", "remove"}
  /\ call \in Entry
  /\ pc \in {"rehash", "insert"} => call.key \in Keys
  /\ fresh \in [Slots(IF pc = "rehash" THEN GrowCapacity(capacity) ELSE 0) -> Entry]
  /\ scan \in 0 .. capacity
  /\ result \in [ok : BOOLEAN, out : SUBSET Values]

\* `count' counts every slot that is not Empty, tombstones included, and
\* leaves a quarter of the slots Empty; while adjust_capacity runs it counts
\* the entries already moved.  An uncounted tombstone, or one counted twice
\* when its slot is reused, breaks this only after a long mix of calls.
CountIsUsed ==
  /\ 4 * Cardinality(Used(entries)) <= 3 * capacity
  /\ pc # "rehash" => count = Cardinality(Used(entries))
  /\ pc = "rehash" => count = Cardinality(Used(fresh))

\* find_entry's for (;;) has no exit of its own: every search of either array
\* must meet the key or an Empty slot.
ProbeTerminates ==
  \A k \in Keys :
    /\ capacity > 0 => Stops(entries, capacity, k) # {}
    /\ pc = "rehash" => Stops(fresh, GrowCapacity(capacity), k) # {}

\* No key is stored twice or hidden behind an Empty slot: a search for the key
\* of any live slot ends on that very slot, whatever was deleted before it.
EveryKeyFound == Findable(entries, capacity)

\* The map the table stands for.  During adjust_capacity it is still the old
\* array's.
DictOf(es) ==
  [k \in {es[i].key : i \in Live(es)} |->
     es[CHOOSE i \in Live(es) : es[i].key = k].value]

Dict == DictOf(entries)

Doing ==
  CASE pc = "idle"   -> "nothing"
    [] pc = "remove" -> "forgetting"
    [] OTHER         -> "storing"

M == INSTANCE Map WITH dict <- Dict, doing <- Doing

\* Every call of table.c behaves as the same call on a finite map: growing the
\* array changes no key's value, and a collection only takes whole keys away.
RefinesMap == M!Spec
=============================================================================
