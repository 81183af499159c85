----------------------------- MODULE Accounting -----------------------------
(***************************************************************************)
(* The byte counters of src/src/gc.c: bytes_allocated, a size_t that wraps *)
(* around, the threshold next_gc, and the limit max_memory.  An object is  *)
(* a struct of Size[o] bytes, which starts with a header of Header bytes,  *)
(* and owns buffer[o] bytes of arrays.  The array of a string literal is   *)
(* as long as its source text, but is given back as long as its string: by *)
(* escapes[o] bytes less.  Which objects a collection finds unreachable is *)
(* left open; module Collector is about that.                              *)
(***************************************************************************)
EXTENDS Integers, FiniteSets

CONSTANTS
  Objects,       \* addresses of objects
  Nobody,        \* no object
  Size,          \* sizeof the struct of each object
  Header,        \* sizeof(Obj)
  Amounts,       \* array sizes the program asks for
  Modulus,       \* size_t counts modulo this
  Threshold,     \* MJ_GC_INITIAL_THRESHOLD
  Limits,        \* values of --max-memory: 0 for no limit
  GcEnabled,     \* vm.gc_enabled
  MaxBuffer,     \* bound: arrays one object may own, in bytes
  MaxSwept,      \* bound: headers taken off the counter twice, in bytes
  MaxLost        \* bound: replaced error messages and lost escapes, in bytes

ASSUME AccountingAssumption ==
  /\ IsFiniteSet(Objects) /\ Nobody \notin Objects
  /\ Header \in Nat \ {0}
  /\ Size \in [Objects -> Nat] /\ \A o \in Objects : Size[o] >= Header
  /\ Amounts \subseteq Nat \ {0}
  /\ Modulus \in Nat \ {0}
  /\ Threshold \in 1 .. Modulus - 1
  /\ Limits \subseteq 0 .. Modulus - 1
  /\ GcEnabled \in BOOLEAN
  /\ MaxBuffer \in Nat /\ MaxSwept \in Nat /\ MaxLost \in Nat

\* The bytes of the blocks of the objects in S, of which o's is n[o] bytes long,
\* and how many they are.
Cells(n, S) == UNION {{o} \X (1 .. n[o]) : o \in S}
Total(n, S) == Cardinality(Cells(n, S))

\* All that can be counted at once is less than half of what a size_t holds.
ASSUME CounterAssumption ==
  \A n \in Amounts \cup {0} :
    2 * (Total(Size, Objects) + MaxBuffer * Cardinality(Objects) + MaxBuffer + n + MaxLost)
      < Modulus

VARIABLES
  bytes,     \* vm.bytes_allocated
  max_memory, \* vm.max_memory, set once
  next_gc,   \* vm.next_gc
  buffer,    \* bytes of arrays of each allocated object
  escapes,   \* how many of these the length of a string leaves out
  ahead,     \* bytes of the array allocated ahead of its object, if any
  escaped,   \* how many of these the escapes of a literal leave out
  message,   \* bytes of vm.error_message
  pc,        \* "idle", "ahead", "collect", "recheck" or "exit"
  back,      \* where gc_collect returns to
  busy,      \* the object being allocated or grown, which is not garbage
  drift      \* history: what has been counted but is not there, less the converse

heapVars == <<buffer, escapes, ahead, escaped>>
vars == <<bytes, max_memory, next_gc, heapVars, message, pc, back, busy, drift>>

Wrap(n) == n % Modulus

Larger(m, n) == IF m > n THEN m ELSE n

\* Everything that is really allocated.
Real == Total(Size, DOMAIN buffer) + Total(buffer, DOMAIN buffer) + ahead + message

Init ==
  /\ bytes = 0
  /\ max_memory \in Limits
  /\ next_gc = Threshold
  /\ buffer = [o \in {} |-> 0]
  /\ escapes = [o \in {} |-> 0]
  /\ ahead = 0
  /\ escaped = 0
  /\ message = 0
  /\ pc = "idle"
  /\ back = "idle"
  /\ busy = Nobody
  /\ drift = 0

-----------------------------------------------------------------------------

\* Mutant: the limit is tested without the bytes being asked for.
OverLimit_Late(n) == max_memory > 0 /\ bytes > max_memory

\* gc_reallocate's test of the limit.
OverLimit(n) == max_memory > 0 /\ Wrap(bytes + n) > max_memory

\* gc_reallocate refuses to grow by n bytes, and the process ends.
Exit(n) ==
  /\ OverLimit(n)
  /\ pc' = "exit"
  /\ UNCHANGED <<bytes, max_memory, next_gc, heapVars, message, back, busy, drift>>

\* Mutant: the array is charged again.
Charge_Twice(n, next) ==
  /\ ~OverLimit(n)
  /\ bytes' = Wrap(bytes + 2 * n)
  /\ IF GcEnabled /\ bytes' > next_gc
       THEN pc' = "collect" /\ back' = next
       ELSE pc' = next /\ UNCHANGED back
  /\ UNCHANGED <<max_memory, next_gc>>

\* gc_reallocate grows by n bytes; a collection may come first.
Charge(n, next) ==
  /\ ~OverLimit(n)
  /\ bytes' = Wrap(bytes + n)
  /\ IF GcEnabled /\ bytes' > next_gc
       THEN pc' = "collect" /\ back' = next
       ELSE pc' = next /\ UNCHANGED back
  /\ UNCHANGED <<max_memory, next_gc>>

\* An array is allocated before the object that is to own it: the characters
\* of a string, the upvalues of a closure.  The compiler takes n bytes for a
\* literal of n - 1 characters; each of its k escapes is two of these and
\* makes one character of the string.
AllocateAhead(n, k) ==
  /\ pc = "idle"
  /\ n <= MaxBuffer
  /\ 2 * k <= n - 1
  /\ \/ Exit(n)
     \/ /\ Charge(n, "ahead")
        /\ ahead' = n
        /\ escaped' = k
        /\ UNCHANGED <<buffer, escapes, message, busy, drift>>

\* take_string finds the characters interned and frees what their length says.
FreeAhead ==
  /\ pc = "ahead"
  /\ drift + escaped <= MaxLost
  /\ bytes' = Wrap(bytes - (ahead - escaped))
  /\ ahead' = 0
  /\ escaped' = 0
  /\ drift' = drift + escaped
  /\ pc' = "idle"
  /\ UNCHANGED <<max_memory, next_gc, buffer, escapes, message, back, busy>>

\* Function f with the value v at o.
With(f, o, v) == [p \in DOMAIN f \cup {o} |-> IF p = o THEN v ELSE f[p]]

\* An object, with the array allocated ahead of it if there is one.
AllocateObject(o) ==
  /\ pc \in {"idle", "ahead"}
  /\ o \notin DOMAIN buffer
  /\ \/ Exit(Size[o])
     \/ /\ Charge(Size[o], "recheck")
        /\ buffer' = With(buffer, o, ahead)
        /\ escapes' = With(escapes, o, escaped)
        /\ ahead' = 0
        /\ escaped' = 0
        /\ busy' = o
        /\ UNCHANGED <<message, drift>>

\* An array of an object is allocated or grown; that of a string never is.
GrowArray(o, n) ==
  /\ pc = "idle"
  /\ o \in DOMAIN buffer
  /\ escapes[o] = 0
  /\ buffer[o] + n <= MaxBuffer
  /\ \/ Exit(n)
     \/ /\ Charge(n, "idle")
        /\ buffer' = [buffer EXCEPT ![o] = @ + n]
        /\ busy' = IF pc' = "idle" THEN Nobody ELSE o
        /\ UNCHANGED <<escapes, ahead, escaped, message, drift>>

FreeArray(o, n) ==
  /\ pc = "idle"
  /\ o \in DOMAIN buffer
  /\ escapes[o] = 0
  /\ n <= buffer[o]
  /\ bytes' = Wrap(bytes - n)
  /\ buffer' = [buffer EXCEPT ![o] = @ - n]
  /\ UNCHANGED <<max_memory, next_gc, escapes, ahead, escaped, message, pc, back, busy, drift>>

\* vm_runtime_error reallocates the message and passes 0 for its old size.
RuntimeError(n) ==
  /\ pc = "idle"
  /\ drift + message <= MaxLost
  /\ \/ Exit(n)
     \/ /\ Charge(n, "idle")
        /\ message' = n
        /\ drift' = drift + message
        /\ UNCHANGED <<heapVars, busy>>

\* allocate_object's second test.
Recheck ==
  /\ pc = "recheck"
  /\ IF bytes > next_gc /\ GcEnabled
       THEN pc' = "collect" /\ back' = "idle" /\ UNCHANGED busy
       ELSE pc' = "idle" /\ busy' = Nobody /\ UNCHANGED back
  /\ UNCHANGED <<bytes, max_memory, next_gc, heapVars, message, drift>>

\* What sweep takes off the counter for the objects in F: their arrays by the
\* lengths they state, FREE(Obj, ..) for each and the sizes stored in them.
Swept(F) ==
  (Total(buffer, F) - Total(escapes, F)) + Header * Cardinality(F) + Total(Size, F)

\* What is off once the objects in F are swept.
DriftSwept(F) == drift + Total(escapes, F) - Header * Cardinality(F)

\* Mutant: the threshold is not doubled from what is left.
Collect_FixedThreshold(F) ==
  /\ pc = "collect"
  /\ F \subseteq DOMAIN buffer \ {busy}
  /\ DriftSwept(F) \in -MaxSwept .. MaxLost
  /\ bytes' = Wrap(bytes - Swept(F))
  /\ buffer' = [o \in DOMAIN buffer \ F |-> buffer[o]]
  /\ escapes' = [o \in DOMAIN buffer \ F |-> escapes[o]]
  /\ next_gc' = Threshold
  /\ drift' = DriftSwept(F)
  /\ pc' = back
  /\ busy' = IF back = "idle" THEN Nobody ELSE busy
  /\ UNCHANGED <<max_memory, ahead, escaped, message, back>>

\* Mutant: the threshold has no lower bound.
Collect_NoFloor(F) ==
  /\ pc = "collect"
  /\ F \subseteq DOMAIN buffer \ {busy}
  /\ DriftSwept(F) \in -MaxSwept .. MaxLost
  /\ bytes' = Wrap(bytes - Swept(F))
  /\ buffer' = [o \in DOMAIN buffer \ F |-> buffer[o]]
  /\ escapes' = [o \in DOMAIN buffer \ F |-> escapes[o]]
  /\ next_gc' = Wrap(2 * bytes')
  /\ drift' = DriftSwept(F)
  /\ pc' = back
  /\ busy' = IF back = "idle" THEN Nobody ELSE busy
  /\ UNCHANGED <<max_memory, ahead, escaped, message, back>>

\* gc_collect, with F the unreachable objects.
Collect(F) ==
  /\ pc = "collect"
  /\ F \subseteq DOMAIN buffer \ {busy}
  /\ DriftSwept(F) \in -MaxSwept .. MaxLost
  /\ bytes' = Wrap(bytes - Swept(F))
  /\ buffer' = [o \in DOMAIN buffer \ F |-> buffer[o]]
  /\ escapes' = [o \in DOMAIN buffer \ F |-> escapes[o]]
  /\ next_gc' = Larger(Wrap(2 * bytes'), Threshold)
  /\ drift' = DriftSwept(F)
  /\ pc' = back
  /\ busy' = IF back = "idle" THEN Nobody ELSE busy
  /\ UNCHANGED <<max_memory, ahead, escaped, message, back>>

Next ==
  \/ \E n \in Amounts, k \in 0 .. MaxBuffer : AllocateAhead(n, k)
  \/ FreeAhead
  \/ \E o \in Objects : AllocateObject(o)
  \/ \E o \in Objects, n \in Amounts : GrowArray(o, n) \/ FreeArray(o, n)
  \/ \E n \in Amounts : RuntimeError(n)
  \/ Recheck
  \/ \E F \in SUBSET Objects : Collect(F)

Spec == Init /\ [][Next]_vars

-----------------------------------------------------------------------------
(* Properties *)

TypeOK ==
  /\ bytes \in 0 .. Modulus - 1
  /\ max_memory \in Limits
  /\ next_gc \in Threshold .. Modulus - 1
  /\ DOMAIN buffer \subseteq Objects
  /\ \A o \in DOMAIN buffer : buffer[o] \in 0 .. MaxBuffer
  /\ DOMAIN escapes = DOMAIN buffer
  /\ \A o \in DOMAIN buffer : escapes[o] \in 0 .. buffer[o]
  /\ ahead \in 0 .. MaxBuffer
  /\ escaped \in 0 .. ahead
  /\ message \in Nat
  /\ pc \in {"idle", "ahead", "collect", "recheck", "exit"}
  /\ back \in {"idle", "ahead", "recheck"}
  /\ busy \in DOMAIN buffer \cup {Nobody}
  /\ drift \in -MaxSwept .. MaxLost

\* The counter is off by exactly one header for every object swept, by every
\* error message replaced, and by every escape of a literal whose characters
\* were freed: all other charges and refunds balance.
CounterDrift == bytes = Wrap(Real + drift)

\* Between collections the counter stays at or below next_gc, unless it has
\* underflowed: so the second test of allocate_object, whose collection leaves
\* a stale mark behind, succeeds only once headers were refunded twice.
OverdueOnlyAfterUnderflow ==
  pc \in {"idle", "ahead", "recheck"} /\ GcEnabled /\ bytes > next_gc => Real + drift < 0

\* The limit holds, as far as the counter can be trusted.
LimitUpToDrift == max_memory > 0 => Real + drift <= max_memory
=============================================================================
