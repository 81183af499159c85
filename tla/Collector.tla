----------------------------- MODULE Collector -----------------------------
(***************************************************************************)
(* The mark-sweep collector of src/src/gc.c, one root source, one gray     *)
(* object and one swept object per step, with the allocation path of       *)
(* src/src/object.c that triggers it.  The program is single-threaded: the *)
(* interpreter, compiler and host change the graph only while no           *)
(* allocation or collection is running (pc = "idle").                      *)
(*                                                                         *)
(* The byte counters are reduced to `overdue', the outcome of the test     *)
(* bytes_allocated > next_gc, and to what module Accounting shows of it:   *)
(* right after a collection the test can succeed only once an object has   *)
(* been freed (its header is refunded twice, so the counter may wrap).     *)
(* Then allocate_object collects a second time and links an object whose   *)
(* mark is set; the next collection takes it for marked and does not look  *)
(* into it.  The variables stale and skipped record such objects: they are *)
(* history, and no step depends on them.                                   *)
(***************************************************************************)
EXTENDS Reachability

CONSTANTS
  Strings,        \* the objects that are strings
  Sources,        \* the places mark_roots looks at: "stack", "strings", ...
  Nobody          \* the NULL object

ASSUME CollectorAssumption ==
  /\ Strings \subseteq Objects
  /\ {"stack", "strings"} \subseteq Sources
  /\ Nobody \notin Objects

VARIABLES
  objects,   \* the list vm.objects, as a set
  refs,      \* the references each object holds
  roots,     \* the objects each root source holds
  marked,    \* the objects whose is_marked is set
  gray,      \* vm.gray_stack, as a set: the order of popping is left open
  pc,        \* where the allocation or collection stands
  back,      \* where gc_collect returns to
  pending,   \* the object allocate_object is about to link, or Nobody
  unseen,    \* the root sources mark_roots has not looked at yet
  todo,      \* the objects sweep has not visited yet
  overdue,   \* bytes_allocated > next_gc
  refunded,  \* sweep has freed an object and taken its header off twice
  stale,     \* history: objects linked with their mark set
  skipped    \* history: objects the last collection kept without tracing them

heapVars == <<objects, refs, roots>>
gcVars == <<marked, gray, pc, back, pending, unseen, todo, overdue>>
historyVars == <<refunded, stale, skipped>>
vars == <<heapVars, gcVars, historyVars>>

Base == UNION {roots[s] : s \in Sources}

Live == Reach(Base, refs)

\* What an instruction may use: following a reference to a freed object is
\* undefined, and left out.
Usable == Live \cap objects

\* The graph without the references of the objects in S.
Without(S) == [o \in Objects |-> IF o \in S THEN {} ELSE refs[o]]

\* Where an object is anchored: its source, and the intern table for a string.
Anchored(o, s) ==
  [r \in Sources |-> IF r = s \/ (r = "strings" /\ o \in Strings)
                       THEN roots[r] \cup {o} ELSE roots[r]]

Init ==
  /\ objects = {}
  /\ refs = [o \in Objects |-> {}]
  /\ roots = [s \in Sources |-> {}]
  /\ marked = {}
  /\ gray = {}
  /\ pc = "idle"
  /\ back = "idle"
  /\ pending = Nobody
  /\ unseen = {}
  /\ todo = {}
  /\ overdue = FALSE
  /\ refunded = FALSE
  /\ stale = {}
  /\ skipped = {}

-----------------------------------------------------------------------------
(* What runs between collections: instructions, compiler, host calls.      *)

AddRef(o, p) ==
  /\ pc = "idle"
  /\ {o, p} \subseteq Usable
  /\ refs' = [refs EXCEPT ![o] = @ \cup {p}]
  /\ UNCHANGED <<objects, roots, gcVars, historyVars>>

DropRef(o, p) ==
  /\ pc = "idle"
  /\ o \in Usable
  /\ refs' = [refs EXCEPT ![o] = @ \ {p}]
  /\ UNCHANGED <<objects, roots, gcVars, historyVars>>

AddRoot(s, p) ==
  /\ pc = "idle"
  /\ s # "strings"
  /\ p \in Usable
  /\ roots' = [roots EXCEPT ![s] = @ \cup {p}]
  /\ UNCHANGED <<objects, refs, gcVars, historyVars>>

DropRoot(s, p) ==
  /\ pc = "idle"
  /\ s # "strings"
  /\ roots' = [roots EXCEPT ![s] = @ \ {p}]
  /\ UNCHANGED <<objects, refs, gcVars, historyVars>>

-----------------------------------------------------------------------------
(* Allocation *)

\* gc_reallocate: growing may make a collection due, which then runs at once.
Reallocate(next) ==
  /\ overdue' \in BOOLEAN
  /\ IF overdue'
       THEN /\ pc' = "roots"
            /\ back' = next
            /\ unseen' = Sources
       ELSE /\ pc' = next
            /\ UNCHANGED <<back, unseen>>

\* A buffer or an array, which is not an object.
AllocateArray ==
  /\ pc = "idle"
  /\ Reallocate("idle")
  /\ UNCHANGED <<heapVars, marked, gray, pending, todo, historyVars>>

\* Bound: the heap has an address left, before any collection.
AllocateObject ==
  /\ pc = "idle"
  /\ objects # Objects
  /\ Reallocate("recheck")
  /\ UNCHANGED <<heapVars, marked, gray, pending, todo, historyVars>>

\* allocate_object after mj_reallocate has returned the address o: the object
\* is blanked, and the second test may mark and push it and collect again
\* before it is linked.
Recheck(o) ==
  /\ pc = "recheck"
  /\ o \notin objects
  /\ pending' = o
  /\ refs' = [refs EXCEPT ![o] = {}]
  /\ IF overdue
       THEN /\ marked' = marked \cup {o}
            /\ gray' = gray \cup {o}
            /\ roots' = [roots EXCEPT !["stack"] = @ \cup {o}]
            /\ pc' = "roots"
            /\ back' = "link"
            /\ unseen' = Sources
       ELSE /\ marked' = marked \ {o}
            /\ pc' = "link"
            /\ UNCHANGED <<gray, roots, back, unseen>>
  /\ UNCHANGED <<objects, todo, overdue, historyVars>>

\* The temporary root is popped; the caller anchors the object before it
\* allocates anything else.  A mark set by the second test outlives it.
Link(s) ==
  /\ pc = "link"
  /\ s = "strings" => pending \in Strings
  /\ objects' = objects \cup {pending}
  /\ roots' = [Anchored(pending, s) EXCEPT !["stack"] =
                 IF s = "stack" THEN @ ELSE @ \ {pending}]
  /\ pending' = Nobody
  /\ pc' = "idle"
  /\ stale' = stale \cup ({pending} \cap marked)
  /\ UNCHANGED <<refs, marked, gray, back, unseen, todo, overdue, refunded, skipped>>

-----------------------------------------------------------------------------
(* gc_collect *)

\* Mutant: the mark bit is not set.
Mark_Unset(S) ==
  /\ gray' = gray \cup (S \ marked)
  /\ UNCHANGED marked

\* gc_mark_object, applied to every object of a set.
Mark(S) ==
  /\ marked' = marked \cup S
  /\ gray' = gray \cup (S \ marked)

\* Mutant: roots are marked but not pushed on the gray stack.
MarkSource_Shallow(s) ==
  /\ pc = "roots"
  /\ s \in unseen
  /\ marked' = marked \cup roots[s]
  /\ unseen' = unseen \ {s}
  /\ pc' = IF unseen = {s} THEN "trace" ELSE "roots"
  /\ UNCHANGED <<heapVars, gray, back, pending, todo, overdue, historyVars>>

\* Mutant: the intern table does not keep its strings alive.
MarkSource_WeakStrings(s) ==
  /\ pc = "roots"
  /\ s \in unseen
  /\ Mark(IF s = "strings" THEN {} ELSE roots[s])
  /\ unseen' = unseen \ {s}
  /\ pc' = IF unseen = {s} THEN "trace" ELSE "roots"
  /\ UNCHANGED <<heapVars, back, pending, todo, overdue, historyVars>>

\* mark_roots, one source at a time; their fixed order is left open.
MarkSource(s) ==
  /\ pc = "roots"
  /\ s \in unseen
  /\ Mark(roots[s])
  /\ unseen' = unseen \ {s}
  /\ pc' = IF unseen = {s} THEN "trace" ELSE "roots"
  /\ UNCHANGED <<heapVars, back, pending, todo, overdue, historyVars>>

\* Mutant: what a blackened object refers to is not pushed.
Trace_Shallow(o) ==
  /\ pc = "trace"
  /\ o \in gray
  /\ marked' = marked \cup refs[o]
  /\ gray' = gray \ {o}
  /\ skipped' = skipped \ {o}
  /\ UNCHANGED <<heapVars, pc, back, pending, unseen, todo, overdue, refunded, stale>>

\* Mutant: marked objects are pushed again.
Trace_Again(o) ==
  /\ pc = "trace"
  /\ o \in gray
  /\ marked' = marked \cup refs[o]
  /\ gray' = (gray \ {o}) \cup refs[o]
  /\ skipped' = skipped \ {o}
  /\ UNCHANGED <<heapVars, pc, back, pending, unseen, todo, overdue, refunded, stale>>

\* trace_references: pop a gray object and blacken it, as long as what it
\* refers to is memory in use.
Trace(o) ==
  /\ pc = "trace"
  /\ o \in gray
  /\ refs[o] \subseteq objects \cup {pending}
  /\ marked' = marked \cup refs[o]
  /\ gray' = (gray \ {o}) \cup (refs[o] \ marked)
  /\ skipped' = skipped \ {o}
  /\ UNCHANGED <<heapVars, pc, back, pending, unseen, todo, overdue, refunded, stale>>

\* Otherwise gc_mark_object reads and writes freed memory: anything may
\* happen, and the model stops.
TraceFreed(o) ==
  /\ pc = "trace"
  /\ o \in gray
  /\ ~(refs[o] \subseteq objects \cup {pending})
  /\ pc' = "broken"
  /\ UNCHANGED <<heapVars, marked, gray, back, pending, unseen, todo, overdue, historyVars>>

\* table_remove_white on the intern table; then sweep starts.
RemoveWhite ==
  /\ pc = "trace"
  /\ gray = {}
  /\ roots' = [roots EXCEPT !["strings"] = @ \cap marked]
  /\ todo' = objects
  /\ pc' = "sweep"
  /\ UNCHANGED <<objects, refs, marked, gray, back, pending, unseen, overdue, historyVars>>

\* Mutant: survivors keep their mark.
Sweep_KeepsMark(o) ==
  /\ pc = "sweep"
  /\ o \in todo
  /\ todo' = todo \ {o}
  /\ IF o \in marked
       THEN /\ skipped' = skipped \cup ({o} \cap stale)
            /\ UNCHANGED <<objects, refs, refunded>>
       ELSE /\ objects' = objects \ {o}
            /\ refs' = [refs EXCEPT ![o] = {}]
            /\ refunded' = TRUE
            /\ skipped' = skipped \ {o}
  /\ stale' = stale \ {o}
  /\ UNCHANGED <<roots, marked, gray, pc, back, pending, unseen, overdue>>

Sweep(o) ==
  /\ pc = "sweep"
  /\ o \in todo
  /\ todo' = todo \ {o}
  /\ IF o \in marked
       THEN /\ marked' = marked \ {o}
            /\ skipped' = skipped \cup ({o} \cap stale)
            /\ UNCHANGED <<objects, refs, refunded>>
       ELSE /\ objects' = objects \ {o}
            /\ refs' = [refs EXCEPT ![o] = {}]
            /\ refunded' = TRUE
            /\ skipped' = skipped \ {o}
            /\ UNCHANGED marked
  /\ stale' = stale \ {o}
  /\ UNCHANGED <<roots, gray, pc, back, pending, unseen, overdue>>

\* next_gc is set from what is left.
Finish ==
  /\ pc = "sweep"
  /\ todo = {}
  /\ overdue' \in IF refunded THEN BOOLEAN ELSE {FALSE}
  /\ pc' = back
  /\ UNCHANGED <<heapVars, marked, gray, back, pending, unseen, todo, historyVars>>

Mutate ==
  \/ \E o, p \in Objects : AddRef(o, p) \/ DropRef(o, p)
  \/ \E s \in Sources, p \in Objects : AddRoot(s, p) \/ DropRoot(s, p)
  \/ AllocateArray
  \/ AllocateObject

Run ==
  \/ \E s \in Sources : Link(s) \/ MarkSource(s)
  \/ \E o \in Objects : Recheck(o) \/ Trace(o) \/ TraceFreed(o) \/ Sweep(o)
  \/ RemoveWhite
  \/ Finish

Next == Mutate \/ Run

Spec == Init /\ [][Next]_vars

\* Allocation and collection are straight-line code that nothing interrupts.
FairSpec == Spec /\ WF_vars(Run)

-----------------------------------------------------------------------------
(* Properties *)

TypeOK ==
  /\ objects \subseteq Objects
  /\ refs \in [Objects -> SUBSET Objects]
  /\ roots \in [Sources -> SUBSET Objects]
  /\ marked \subseteq Objects /\ marked \ {pending} \subseteq objects
  /\ gray \subseteq marked
  /\ pc \in {"idle", "recheck", "link", "roots", "trace", "sweep", "broken"}
  /\ back \in {"idle", "recheck", "link"}
  /\ pending \in Objects \cup {Nobody}
  /\ unseen \subseteq Sources
  /\ todo \subseteq objects
  /\ overdue \in BOOLEAN
  /\ refunded \in BOOLEAN
  /\ stale \subseteq objects
  /\ skipped \subseteq objects

\* What the program can reach is allocated, wherever a collection strikes:
\* a reference to a freed object is found only in an object that the last
\* collection did not look into, because its mark was stale.
NoDangling == pc = "idle" => Reach(Base, Without(skipped)) \subseteq objects

\* Nothing black points to something white: what has been blackened is closed
\* under references up to what has been marked.  An object whose mark is
\* stale was not blackened.
BlackIsClosed ==
  \A o \in (marked \ gray) \ stale :
    pc \in {"roots", "trace"} => refs[o] \subseteq marked

\* Interned strings are never removed again, although gc_collect has a step
\* that removes the unmarked ones.  concatenate, which pops its operands
\* before it allocates, depends on this.
StringsStay == [][roots["strings"] \subseteq roots'["strings"]]_vars

\* Every collection ends, on graphs with cycles too, unless it comes upon
\* freed memory.
CollectionEnds == pc # "idle" ~> pc \in {"idle", "broken"}

\* The heap as the program may think of it: an object that sweep is going to
\* free is gone as soon as marking is done, and takes its references with it.
\* The temporary root is not part of it.
Kept == IF pc = "sweep" THEN objects \ (todo \ marked) ELSE objects

A == INSTANCE AtomicHeap WITH
       objects <- Kept,
       refs <- [o \in Objects |-> IF o \in Kept THEN refs[o] ELSE {}],
       roots <- [s \in Sources |-> roots[s] \ {pending}],
       hidden <- IF pc = "sweep" THEN {} ELSE stale,
       freed <- refunded \/ (pc = "sweep" /\ ~(todo \subseteq marked))

\* The collector behaves as one atomic step that frees exactly what cannot be
\* reached without passing through an object with a stale mark.
RefinesAtomicHeap == A!Spec
=============================================================================
