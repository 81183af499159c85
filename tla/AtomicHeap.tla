----------------------------- MODULE AtomicHeap -----------------------------
(***************************************************************************)
(* What the garbage collector promises the rest of the virtual machine: a  *)
(* heap in which a collection is one step that removes exactly the         *)
(* unreachable objects.  The interpreter, the compiler and the host change *)
(* the graph between collections, and reach only what is reachable.        *)
(*                                                                         *)
(* The promise has an exception.  Once a collection has freed something, a *)
(* new object may be hidden: the next collection, and only that one, keeps *)
(* the object but does not follow its references.                          *)
(***************************************************************************)
EXTENDS Reachability

CONSTANTS
  Strings,   \* the objects that are strings: all of them are interned
  Sources    \* the places mark_roots looks at

VARIABLES
  objects,   \* vm.objects
  refs,      \* the references each object holds
  roots,     \* the objects each root source holds
  hidden,    \* the objects the next collection does not look into
  freed      \* a collection has freed something

heapVars == <<objects, refs, roots, hidden, freed>>

Base == UNION {roots[s] : s \in Sources}

Live == Reach(Base, refs)

\* What the program may use; the rest of Live has been freed.
Usable == Live \cap objects

\* What a collection finds: the references of hidden objects are not followed.
Seen == Reach(Base, [o \in Objects |-> IF o \in hidden THEN {} ELSE refs[o]])

\* Where an object is anchored: its source, and the intern table for a string.
Anchored(o, s) ==
  [r \in Sources |-> IF r = s \/ (r = "strings" /\ o \in Strings)
                       THEN roots[r] \cup {o} ELSE roots[r]]

Init ==
  /\ objects = {}
  /\ refs = [o \in Objects |-> {}]
  /\ roots = [s \in Sources |-> {}]
  /\ hidden = {}
  /\ freed = FALSE

New(o, s) ==
  /\ o \notin objects
  /\ s = "strings" => o \in Strings
  /\ objects' = objects \cup {o}
  /\ roots' = Anchored(o, s)
  /\ hidden' \in IF freed THEN {hidden, hidden \cup {o}} ELSE {hidden}
  /\ UNCHANGED <<refs, freed>>

AddRef(o, p) ==
  /\ {o, p} \subseteq Usable
  /\ refs' = [refs EXCEPT ![o] = @ \cup {p}]
  /\ UNCHANGED <<objects, roots, hidden, freed>>

DropRef(o, p) ==
  /\ o \in Usable
  /\ refs' = [refs EXCEPT ![o] = @ \ {p}]
  /\ UNCHANGED <<objects, roots, hidden, freed>>

AddRoot(s, p) ==
  /\ s # "strings"
  /\ p \in Usable
  /\ roots' = [roots EXCEPT ![s] = @ \cup {p}]
  /\ UNCHANGED <<objects, refs, hidden, freed>>

\* Nothing ever leaves the intern table.
DropRoot(s, p) ==
  /\ s # "strings"
  /\ roots' = [roots EXCEPT ![s] = @ \ {p}]
  /\ UNCHANGED <<objects, refs, hidden, freed>>

Collect ==
  LET kept == Seen \cup hidden
  IN  /\ objects' = objects \cap kept
      /\ refs' = [o \in Objects |-> IF o \in kept THEN refs[o] ELSE {}]
      /\ freed' = (freed \/ ~(objects \subseteq kept))
      /\ hidden' = {}
      /\ UNCHANGED roots

Next ==
  \/ \E o \in Objects, s \in Sources : New(o, s)
  \/ \E o, p \in Objects : AddRef(o, p) \/ DropRef(o, p)
  \/ \E s \in Sources, p \in Objects : AddRoot(s, p) \/ DropRoot(s, p)
  \/ Collect

Spec == Init /\ [][Next]_heapVars
=============================================================================
