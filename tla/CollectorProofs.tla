-------------------------- MODULE CollectorProofs --------------------------
(***************************************************************************)
(* Proofs about Collector for any number of objects, any object graph and  *)
(* any set of root sources.  Nothing is assumed of the byte counters: the  *)
(* second collection of allocate_object, and the stale mark it leaves, are *)
(* part of every statement.                                                *)
(***************************************************************************)
EXTENDS Collector, TLAPS

-----------------------------------------------------------------------------
(* Lemmas about reachability *)

\* The reachable objects contain the base and are closed.
LEMMA ReachClosed ==
  ASSUME NEW refs0 \in [Objects -> SUBSET Objects], NEW base \in SUBSET Objects
  PROVE  /\ Reach(base, refs0) \subseteq Objects
         /\ base \subseteq Reach(base, refs0)
         /\ Closed(Reach(base, refs0), refs0)
BY DEF Reach, Closed

\* They are the least such set.
LEMMA ReachLeast ==
  ASSUME NEW refs0, NEW base, NEW S \in SUBSET Objects,
         base \subseteq S, Closed(S, refs0)
  PROVE  Reach(base, refs0) \subseteq S
BY DEF Reach

\* References of unreachable objects do not matter.
LEMMA ReachAgree ==
  ASSUME NEW base \in SUBSET Objects,
         NEW refs1 \in [Objects -> SUBSET Objects],
         NEW refs2 \in [Objects -> SUBSET Objects],
         \A o \in Reach(base, refs1) : refs1[o] = refs2[o]
  PROVE  Reach(base, refs2) = Reach(base, refs1)
<1> DEFINE R1 == Reach(base, refs1)
           R2 == Reach(base, refs2)
<1>1. R1 \subseteq Objects /\ base \subseteq R1 /\ Closed(R1, refs1)
  BY ReachClosed
<1>2. R2 \subseteq Objects /\ base \subseteq R2 /\ Closed(R2, refs2)
  BY ReachClosed
<1>3. R2 \subseteq R1
  <2>1. Closed(R1, refs2)
    BY <1>1 DEF Closed
  <2> HIDE DEF R1
  <2> QED
    BY <1>1, <2>1, ReachLeast
<1>4. R1 \subseteq R2
  <2>1. Closed(R2, refs1)
    BY <1>2, <1>3 DEF Closed
  <2> HIDE DEF R2
  <2> QED
    BY <1>2, <2>1, ReachLeast
<1> QED
  BY <1>3, <1>4

-----------------------------------------------------------------------------
(* The inductive invariant *)

Collecting == pc \in {"roots", "trace", "sweep", "broken"}

\* The objects whose references the running or the last collection does not
\* follow.
Blind == IF pc = "sweep" THEN skipped \cup stale ELSE skipped

\* Roots and references that were followed lead to allocated objects, at every
\* step; only the stack holds the pending object, and what is not allocated is
\* blank.
HeapInv ==
  /\ Base \subseteq Kept \cup {pending}
  /\ \A s \in Sources \ {"stack"} : roots[s] \subseteq Kept
  /\ \A o \in Objects \ objects : refs[o] = {}
  /\ \A o \in Kept \ Blind : refs[o] \subseteq Kept \cup {pending}

\* An object is pending from the time it has an address until it is linked.
PendingInv ==
  IF pc = "link" \/ (Collecting /\ back = "link")
    THEN pending \in Objects \ objects
    ELSE pending = Nobody

\* Between collections the marks are the stale ones and perhaps that of the
\* pending object.
RestInv ==
  /\ ~Collecting => marked \ {pending} = stale
  /\ pc \notin {"roots", "trace", "broken"} => gray = {}

\* The second test of allocate_object succeeds only after an object was freed.
RefundInv ==
  /\ pc = "recheck" /\ overdue => refunded
  /\ pc = "link" /\ pending \in marked => refunded
  /\ Collecting /\ back = "link" => refunded

\* What marking can find: everything that is reachable without passing through
\* an object whose mark is stale.
Found == Reach(Base, Without(stale))

\* Marking stays inside that, and has covered the sources seen.
MarkInv ==
  /\ pc \in {"roots", "trace"} => /\ stale \subseteq marked \ gray
                                  /\ marked \subseteq Found \cup stale
  /\ pc = "roots" => \A s \in Sources \ unseen : roots[s] \subseteq marked
  /\ pc = "trace" => Base \subseteq marked

\* Sweeping clears the marks of what it passes.
SweepInv ==
  pc = "sweep" => /\ stale \subseteq todo \cap marked
                  /\ marked \subseteq todo \cup {pending}

IndInv ==
  /\ TypeOK
  /\ HeapInv
  /\ PendingInv
  /\ BlackIsClosed
  /\ RestInv
  /\ RefundInv
  /\ MarkInv
  /\ SweepInv

LEMMA KeptSubset == Kept \subseteq objects
BY DEF Kept

LEMMA BaseIsFound ==
  ASSUME TypeOK
  PROVE  /\ Base \in SUBSET Objects
         /\ Without(stale) \in [Objects -> SUBSET Objects]
         /\ Found \subseteq Objects /\ Base \subseteq Found /\ Closed(Found, Without(stale))
<1>1. Base \in SUBSET Objects /\ Without(stale) \in [Objects -> SUBSET Objects]
  BY DEF TypeOK, Base, Without
<1> QED
  BY <1>1, ReachClosed DEF Found

\* When tracing is over, what is marked is what could be found and what was
\* marked already.
LEMMA MarkedIsFound ==
  ASSUME IndInv, pc = "trace", gray = {}
  PROVE  marked = Found \cup stale
<1>1. /\ Base \subseteq marked /\ marked \subseteq Found \cup stale /\ stale \subseteq marked
      /\ marked \subseteq objects \cup {pending} /\ stale \subseteq objects
  BY DEF IndInv, MarkInv, TypeOK
<1>2. marked \in SUBSET Objects
  BY <1>1, BaseIsFound DEF IndInv, TypeOK
<1>3. Closed(marked, Without(stale))
  <2> SUFFICES ASSUME NEW o \in marked
               PROVE  Without(stale)[o] \subseteq marked
    BY DEF Closed
  <2>1. o \in Objects
    BY <1>2
  <2>2. CASE o \in stale
    BY <2>1, <2>2 DEF Without
  <2>3. CASE o \notin stale
    <3>1. Without(stale)[o] = refs[o]
      BY <2>1, <2>3 DEF Without
    <3> QED
      BY <2>3, <3>1 DEF IndInv, BlackIsClosed
  <2> QED
    BY <2>2, <2>3
<1>4. Found \subseteq marked
  BY <1>1, <1>2, <1>3, ReachLeast DEF Found
<1> QED
  BY <1>1, <1>4

LEMMA InitInvariant == Init => IndInv
<1> SUFFICES ASSUME Init
             PROVE  IndInv
  OBVIOUS
<1>1. TypeOK
  BY DEF Init, TypeOK
<1>2. Base = {} /\ Kept = {}
  BY DEF Init, Base, Kept
<1> QED
  BY <1>1, <1>2
     DEF Init, IndInv, HeapInv, PendingInv, BlackIsClosed, RestInv, RefundInv, MarkInv,
         SweepInv, Collecting

\* The program adds references and roots only to what is allocated.
LEMMA MutatorKeepsInvariant ==
  ASSUME IndInv, NEW s \in Sources, NEW o \in Objects, NEW p \in Objects,
         AddRef(o, p) \/ DropRef(o, p) \/ AddRoot(s, p) \/ DropRoot(s, p)
  PROVE  IndInv'
<1>1. pc = "idle" /\ UNCHANGED <<objects, gcVars, historyVars>> /\ pending = Nobody
  BY DEF AddRef, DropRef, AddRoot, DropRoot, IndInv, PendingInv, Collecting
<1>2. TypeOK'
  BY <1>1 DEF IndInv, TypeOK, AddRef, DropRef, AddRoot, DropRoot, gcVars, historyVars
<1>3. /\ Kept = objects /\ Kept' = objects /\ Blind = skipped /\ Blind' = skipped
      /\ pending' = pending
  BY <1>1 DEF Kept, Blind, gcVars, historyVars
<1>4. \A r \in Sources : roots'[r] \subseteq roots[r] \cup objects
  BY DEF AddRef, DropRef, AddRoot, DropRoot, Usable, IndInv, TypeOK
<1>5. Base' \subseteq objects \cup {pending}
  <2>1. Base \subseteq objects \cup {pending}
    BY <1>3 DEF IndInv, HeapInv
  <2> QED
    BY <1>4, <2>1 DEF Base
<1>6. \A q \in Objects : q \notin objects => refs'[q] = {}
  <2>1. \A q \in Objects \ objects : refs[q] = {}
    BY DEF IndInv, HeapInv
  <2> QED
    BY <2>1 DEF AddRef, DropRef, AddRoot, DropRoot, Usable, IndInv, TypeOK
<1>7. \A q \in objects \ skipped : refs'[q] \subseteq objects \cup {pending}
  <2>1. \A q \in objects \ skipped : refs[q] \subseteq objects \cup {pending}
    BY <1>3 DEF IndInv, HeapInv
  <2>2. \A q \in objects : refs'[q] \subseteq refs[q] \cup objects
    BY DEF AddRef, DropRef, AddRoot, DropRoot, Usable, IndInv, TypeOK
  <2> QED
    BY <2>1, <2>2
<1>8. HeapInv'
  BY <1>1, <1>3, <1>4, <1>6, <1>7, <1>5 DEF IndInv, HeapInv
<1>9. BlackIsClosed' /\ MarkInv' /\ SweepInv'
  BY <1>1 DEF BlackIsClosed, MarkInv, SweepInv, gcVars
<1>10. RestInv' /\ PendingInv' /\ RefundInv'
  BY <1>1 DEF IndInv, RestInv, PendingInv, RefundInv, Collecting, gcVars, historyVars
<1> QED
  BY <1>2, <1>8, <1>9, <1>10 DEF IndInv

LEMMA AllocationKeepsInvariant ==
  ASSUME IndInv, AllocateArray \/ AllocateObject
  PROVE  IndInv'
<1>1. /\ pc = "idle" /\ UNCHANGED <<heapVars, marked, gray, todo, historyVars>>
      /\ pending' = pending /\ pending = Nobody /\ gray = {} /\ marked \ {pending} = stale
  BY DEF AllocateArray, AllocateObject, IndInv, RestInv, PendingInv, Collecting
<1>2. /\ overdue' \in BOOLEAN
      /\ overdue' => pc' = "roots" /\ unseen' = Sources /\ back' \in {"idle", "recheck"}
      /\ ~overdue' => pc' \in {"idle", "recheck"} /\ back' = back /\ unseen' = unseen
  BY DEF AllocateArray, AllocateObject, Reallocate
<1>3. TypeOK'
  BY <1>1, <1>2 DEF IndInv, TypeOK, heapVars, historyVars
<1>4. marked = stale
  BY <1>1, CollectorAssumption DEF IndInv, TypeOK
<1>5. HeapInv'
  <2>1. Kept = objects /\ Kept' = objects /\ Blind = skipped /\ Blind' = skipped /\ Base' = Base
    BY <1>1, <1>2 DEF Kept, Blind, Base, heapVars, historyVars
  <2> QED
    BY <1>1, <2>1 DEF IndInv, HeapInv, heapVars
<1>6. PendingInv' /\ RestInv' /\ RefundInv'
  BY <1>1, <1>2 DEF IndInv, RestInv, PendingInv, RefundInv, Collecting, heapVars, historyVars
<1>7. BlackIsClosed' /\ SweepInv'
  BY <1>1, <1>2, <1>4 DEF BlackIsClosed, SweepInv, heapVars, historyVars
<1>8. MarkInv'
  BY <1>1, <1>2, <1>4 DEF MarkInv, heapVars, historyVars
<1> QED
  BY <1>3, <1>5, <1>6, <1>7, <1>8 DEF IndInv

\* Blanking an address that is not allocated changes no reference; the second
\* test of allocate_object starts a collection in which that address is marked
\* and a root.
LEMMA RecheckKeepsInvariant ==
  ASSUME IndInv, NEW o \in Objects, Recheck(o)
  PROVE  IndInv' /\ UNCHANGED <<objects, refs>>
<1>1. /\ pc = "recheck" /\ o \notin objects /\ pending' = o /\ pending = Nobody /\ gray = {}
      /\ UNCHANGED <<objects, todo, overdue, refunded, stale, skipped>>
  BY DEF Recheck, IndInv, PendingInv, RestInv, Collecting, historyVars
<1>2. UNCHANGED refs
  <2>1. refs \in [Objects -> SUBSET Objects] /\ refs[o] = {}
    BY <1>1 DEF IndInv, TypeOK, HeapInv
  <2>2. refs' = [refs EXCEPT ![o] = {}]
    BY DEF Recheck
  <2> QED
    BY <2>1, <2>2
<1>3. marked = stale /\ stale \subseteq objects
  BY <1>1, CollectorAssumption DEF IndInv, RestInv, Collecting, TypeOK
<1>4. /\ Kept = objects /\ Kept' = objects /\ Blind = skipped /\ Blind' = skipped
      /\ Base \subseteq objects
  <2>1. pc' # "sweep"
    BY DEF Recheck
  <2>2. Kept = objects /\ Kept' = objects /\ Blind = skipped /\ Blind' = skipped
    BY <1>1, <2>1 DEF Kept, Blind
  <2>3. Base \subseteq objects
    BY <1>1, <2>2, BaseIsFound, CollectorAssumption DEF IndInv, HeapInv
  <2> QED
    BY <2>2, <2>3
<1>5. \A q \in objects \ skipped : refs'[q] \subseteq objects \cup {pending'}
  BY <1>1, <1>2, <1>4, CollectorAssumption DEF IndInv, HeapInv, TypeOK
<1>6. CASE overdue
  <2>1. /\ marked' = stale \cup {o} /\ gray' = {o}
        /\ roots' = [roots EXCEPT !["stack"] = @ \cup {o}]
        /\ pc' = "roots" /\ back' = "link" /\ unseen' = Sources /\ refunded
    BY <1>1, <1>3, <1>6 DEF Recheck, IndInv, RefundInv
  <2>2. TypeOK'
    BY <1>1, <1>2, <1>3, <2>1 DEF IndInv, TypeOK
  <2>3. Base' = Base \cup {o}
    BY <2>1, CollectorAssumption DEF Base, IndInv, TypeOK
  <2>4. HeapInv'
    <3>1. \A s \in Sources \ {"stack"} : roots'[s] \subseteq Kept'
      BY <1>4, <2>1 DEF IndInv, HeapInv, TypeOK
    <3> QED
      BY <1>1, <1>2, <1>4, <1>5, <2>3, <3>1 DEF IndInv, HeapInv
  <2>5. o \in Found'
    <3>1. Base' \in SUBSET Objects /\ Without(stale)' \in [Objects -> SUBSET Objects]
      BY <1>1, <1>2, <2>3, BaseIsFound DEF IndInv, Without
    <3>2. o \in Reach(Base', Without(stale)')
      BY <2>3, <3>1, ReachClosed
    <3> QED
      BY <3>2 DEF Found
  <2>6. MarkInv'
    BY <1>1, <1>3, <2>1, <2>5 DEF MarkInv
  <2>7. BlackIsClosed' /\ SweepInv' /\ PendingInv' /\ RestInv' /\ RefundInv'
    BY <1>1, <1>3, <2>1 DEF BlackIsClosed, SweepInv, PendingInv, RestInv, RefundInv, Collecting
  <2> QED
    BY <1>1, <1>2, <2>2, <2>4, <2>6, <2>7 DEF IndInv
<1>7. CASE ~overdue
  <2>1. /\ marked' = stale /\ pc' = "link"
        /\ UNCHANGED <<gray, roots, back, unseen>>
    BY <1>1, <1>3, <1>7 DEF Recheck
  <2>2. TypeOK'
    BY <1>1, <1>2, <1>3, <2>1 DEF IndInv, TypeOK
  <2>3. HeapInv'
    BY <1>1, <1>2, <1>4, <1>5, <2>1 DEF IndInv, HeapInv, Base
  <2>4. BlackIsClosed' /\ SweepInv' /\ PendingInv' /\ RestInv' /\ RefundInv' /\ MarkInv'
    BY <1>1, <1>3, <2>1
       DEF BlackIsClosed, SweepInv, PendingInv, RestInv, RefundInv, MarkInv, Collecting
  <2> QED
    BY <1>1, <1>2, <2>2, <2>3, <2>4 DEF IndInv
<1> QED
  BY <1>6, <1>7

\* Linking allocates one blank object; if it is marked its mark is stale.
LEMMA LinkKeepsInvariant ==
  ASSUME IndInv, NEW s \in Sources, Link(s)
  PROVE  IndInv'
<1>1. /\ pc = "link" /\ pending \in Objects /\ pending \notin objects /\ refs[pending] = {}
      /\ pending # Nobody /\ gray = {} /\ marked \ {pending} = stale
  BY CollectorAssumption DEF Link, IndInv, PendingInv, HeapInv, RestInv, Collecting
<1>2. /\ objects' = objects \cup {pending} /\ pending' = Nobody /\ pc' = "idle"
      /\ stale' = stale \cup ({pending} \cap marked)
      /\ UNCHANGED <<refs, marked, gray, back, unseen, todo, overdue, refunded, skipped>>
  BY DEF Link
<1>3. roots' \in [Sources -> SUBSET Objects]
  BY <1>1, CollectorAssumption DEF Link, Anchored, IndInv, TypeOK
<1>4. TypeOK'
  BY <1>1, <1>2, <1>3 DEF IndInv, TypeOK
<1>5. /\ Kept = objects /\ Kept' = objects \cup {pending}
      /\ Blind = skipped /\ Blind' = skipped
  BY <1>1, <1>2 DEF Kept, Blind
<1>6. \A r \in Sources : roots'[r] \subseteq roots[r] \cup {pending}
  BY CollectorAssumption DEF Link, Anchored
<1>7. Base' \subseteq Base \cup {pending}
  BY <1>6 DEF Base
<1>8. HeapInv'
  <2>1. Base' \subseteq Kept'
    BY <1>5, <1>7 DEF IndInv, HeapInv
  <2>2. \A q \in Objects \ objects' : refs'[q] = {}
    BY <1>2 DEF IndInv, HeapInv
  <2>3. \A q \in Kept' \ Blind' : refs'[q] \subseteq Kept'
    BY <1>1, <1>2, <1>5 DEF IndInv, HeapInv
  <2>4. \A r \in Sources \ {"stack"} : roots'[r] \subseteq Kept'
    BY <1>5, <1>6 DEF IndInv, HeapInv
  <2> QED
    BY <2>1, <2>2, <2>3, <2>4 DEF HeapInv
<1>9. PendingInv' /\ RestInv' /\ RefundInv'
  BY <1>1, <1>2, <1>4, CollectorAssumption
     DEF PendingInv, RestInv, RefundInv, Collecting, IndInv, TypeOK
<1>10. BlackIsClosed' /\ MarkInv' /\ SweepInv'
  BY <1>2 DEF BlackIsClosed, MarkInv, SweepInv
<1> QED
  BY <1>4, <1>8, <1>9, <1>10 DEF IndInv

LEMMA MarkSourceKeepsInvariant ==
  ASSUME IndInv, NEW s \in Sources, MarkSource(s)
  PROVE  IndInv'
<1>1. /\ pc = "roots" /\ s \in unseen /\ unseen' = unseen \ {s}
      /\ marked' = marked \cup roots[s] /\ gray' = gray \cup (roots[s] \ marked)
      /\ pc' = IF unseen = {s} THEN "trace" ELSE "roots"
      /\ UNCHANGED <<heapVars, back, pending, todo, overdue, historyVars>>
  BY DEF MarkSource, Mark
<1>2. /\ Base' = Base /\ Found' = Found /\ Kept = objects /\ Kept' = objects
      /\ Blind = skipped /\ Blind' = skipped
  BY <1>1 DEF Base, Found, Without, Kept, Blind, heapVars, historyVars
<1>3. roots[s] \subseteq Found /\ roots[s] \subseteq objects \cup {pending}
  BY <1>2, BaseIsFound DEF IndInv, Base, HeapInv
<1>4. TypeOK'
  BY <1>1, <1>3 DEF IndInv, TypeOK, heapVars, historyVars
<1>5. HeapInv'
  BY <1>1, <1>2 DEF IndInv, HeapInv, heapVars
<1>6. PendingInv' /\ RestInv' /\ RefundInv' /\ SweepInv'
  BY <1>1 DEF IndInv, PendingInv, RestInv, RefundInv, SweepInv, Collecting, heapVars, historyVars
<1>7. BlackIsClosed'
  BY <1>1 DEF IndInv, BlackIsClosed, heapVars, historyVars
<1>8. MarkInv'
  <2>1. \A r \in Sources \ unseen' : roots[r] \subseteq marked'
    BY <1>1 DEF IndInv, MarkInv
  <2>2. unseen = {s} => Base \subseteq marked'
    BY <1>1, <2>1 DEF Base
  <2>3. stale \subseteq marked' \ gray' /\ marked' \subseteq Found \cup stale
    BY <1>1, <1>3 DEF IndInv, MarkInv
  <2> QED
    BY <1>1, <1>2, <2>1, <2>2, <2>3 DEF MarkInv, heapVars, historyVars
<1> QED
  BY <1>4, <1>5, <1>6, <1>7, <1>8 DEF IndInv

LEMMA TraceKeepsInvariant ==
  ASSUME IndInv, NEW o \in Objects, Trace(o)
  PROVE  IndInv'
<1>1. /\ pc = "trace" /\ o \in gray /\ o \in marked
      /\ refs[o] \subseteq objects \cup {pending}
      /\ marked' = marked \cup refs[o] /\ gray' = (gray \ {o}) \cup (refs[o] \ marked)
      /\ skipped' = skipped \ {o}
      /\ UNCHANGED <<heapVars, pc, back, pending, unseen, todo, overdue, refunded, stale>>
  BY DEF Trace, IndInv, TypeOK
<1>2. /\ Base' = Base /\ Found' = Found /\ Kept = objects /\ Kept' = objects
      /\ Blind = skipped /\ Blind' = skipped'
  BY <1>1 DEF Base, Found, Without, Kept, Blind, heapVars
<1>3. o \notin stale
  BY <1>1 DEF IndInv, MarkInv
<1>4. refs[o] \subseteq Found
  <2>1. o \in Found
    BY <1>1, <1>3 DEF IndInv, MarkInv
  <2>2. Without(stale)[o] = refs[o]
    BY <1>3 DEF Without
  <2> QED
    BY <2>1, <2>2, BaseIsFound DEF IndInv, Closed
<1>5. TypeOK'
  BY <1>1 DEF IndInv, TypeOK, heapVars
<1>6. HeapInv'
  BY <1>1, <1>2 DEF IndInv, HeapInv, heapVars
<1>7. PendingInv' /\ RestInv' /\ RefundInv' /\ SweepInv'
  BY <1>1 DEF IndInv, PendingInv, RestInv, RefundInv, SweepInv, Collecting, heapVars
<1>8. BlackIsClosed'
  BY <1>1 DEF IndInv, BlackIsClosed, heapVars
<1>9. MarkInv'
  BY <1>1, <1>2, <1>4 DEF IndInv, MarkInv, heapVars
<1> QED
  BY <1>5, <1>6, <1>7, <1>8, <1>9 DEF IndInv

\* Nothing is promised once a collection has read freed memory.
LEMMA TraceFreedKeepsInvariant ==
  ASSUME IndInv, NEW o \in Objects, TraceFreed(o)
  PROVE  IndInv'
<1>1. /\ pc = "trace" /\ pc' = "broken"
      /\ UNCHANGED <<heapVars, marked, gray, back, pending, unseen, todo, overdue, historyVars>>
  BY DEF TraceFreed
<1>2. TypeOK'
  BY <1>1 DEF IndInv, TypeOK, heapVars, historyVars
<1>3. HeapInv'
  <2>1. Kept' = Kept /\ Blind' = Blind /\ Base' = Base
    BY <1>1 DEF Kept, Blind, Base, heapVars, historyVars
  <2> QED
    BY <1>1, <2>1 DEF IndInv, HeapInv, heapVars
<1> QED
  BY <1>1, <1>2, <1>3
     DEF IndInv, PendingInv, RestInv, RefundInv, BlackIsClosed, MarkInv, SweepInv, Collecting,
         heapVars, historyVars

\* The intern table is a root, so removing its white strings removes none.
LEMMA RemoveWhiteKeepsInvariant ==
  ASSUME IndInv, RemoveWhite
  PROVE  /\ IndInv'
         /\ marked = Found \cup stale /\ UNCHANGED heapVars
         /\ Kept = objects /\ Kept' = objects \cap marked
<1>1. /\ pc = "trace" /\ gray = {} /\ todo' = objects /\ pc' = "sweep"
      /\ UNCHANGED <<objects, refs, marked, gray, back, pending, unseen, overdue, historyVars>>
  BY DEF RemoveWhite
<1>2. marked = Found \cup stale
  BY <1>1, MarkedIsFound
<1>3. UNCHANGED roots
  <2>1. roots["strings"] \cap marked = roots["strings"]
    BY <1>1, CollectorAssumption DEF IndInv, MarkInv, Base
  <2> QED
    BY <2>1, CollectorAssumption DEF RemoveWhite, IndInv, TypeOK
<1>4. TypeOK'
  BY <1>1, <1>3 DEF IndInv, TypeOK, historyVars
<1>5. Kept = objects /\ Kept' = objects \cap marked /\ Blind' = skipped \cup stale /\ Base' = Base
  BY <1>1, <1>3 DEF Kept, Blind, Base, historyVars
<1>6. marked \subseteq objects \cup {pending} /\ stale \subseteq objects /\ stale \subseteq marked
  BY <1>1 DEF IndInv, TypeOK, MarkInv
<1>7. HeapInv'
  <2>1. Base \subseteq Kept' \cup {pending}
    BY <1>1, <1>5, <1>6 DEF IndInv, MarkInv
  <2>2. \A s \in Sources \ {"stack"} : roots[s] \subseteq Kept'
    BY <1>1, <1>5 DEF IndInv, HeapInv, MarkInv, Base
  <2>3. ASSUME NEW o \in Kept' \ Blind'
        PROVE  refs[o] \subseteq Kept' \cup {pending}
    <3>1. refs[o] \subseteq marked
      BY <1>1, <1>5, <2>3 DEF IndInv, BlackIsClosed
    <3> QED
      BY <1>5, <1>6, <3>1
  <2> QED
    BY <1>1, <1>3, <1>5, <2>1, <2>2, <2>3 DEF IndInv, HeapInv
<1>8. SweepInv'
  BY <1>1, <1>6 DEF SweepInv, historyVars
<1>9. PendingInv' /\ RestInv' /\ RefundInv' /\ BlackIsClosed' /\ MarkInv'
  BY <1>1 DEF IndInv, PendingInv, RestInv, RefundInv, Collecting, BlackIsClosed, MarkInv, historyVars
<1> QED
  BY <1>1, <1>2, <1>3, <1>4, <1>5, <1>7, <1>8, <1>9 DEF IndInv, heapVars

\* Sweeping changes what is in the list, not what is kept.
LEMMA SweepKeepsInvariant ==
  ASSUME IndInv, NEW o \in Objects, Sweep(o)
  PROVE  /\ IndInv'
         /\ Kept' = Kept /\ \A q \in Kept : refs'[q] = refs[q]
<1>1. /\ pc = "sweep" /\ o \in todo /\ todo' = todo \ {o} /\ gray = {}
      /\ stale \subseteq todo \cap marked /\ marked \subseteq todo \cup {pending}
      /\ todo \subseteq objects /\ stale' = stale \ {o}
      /\ UNCHANGED <<roots, gray, pc, back, pending, unseen, overdue>>
  BY DEF Sweep, IndInv, SweepInv, RestInv, TypeOK
<1>2. Base' = Base /\ refs \in [Objects -> SUBSET Objects]
  BY <1>1 DEF Base, IndInv, TypeOK
<1>3. o # pending
  BY <1>1, CollectorAssumption DEF IndInv, PendingInv, TypeOK
<1>4. CASE o \in marked
  <2>1. /\ marked' = marked \ {o} /\ skipped' = skipped \cup ({o} \cap stale)
        /\ UNCHANGED <<objects, refs, refunded>>
    BY <1>4 DEF Sweep
  <2>2. TypeOK'
    BY <1>1, <2>1 DEF IndInv, TypeOK
  <2>3. Kept' = Kept /\ Blind' = Blind
    BY <1>1, <1>4, <2>1 DEF Kept, Blind
  <2>4. HeapInv'
    BY <1>1, <1>2, <2>1, <2>3 DEF IndInv, HeapInv
  <2>5. PendingInv' /\ RestInv' /\ RefundInv' /\ BlackIsClosed' /\ MarkInv' /\ SweepInv'
    BY <1>1, <2>1
       DEF IndInv, PendingInv, RestInv, RefundInv, BlackIsClosed, MarkInv, SweepInv, Collecting
  <2> QED
    BY <2>1, <2>2, <2>3, <2>4, <2>5 DEF IndInv
<1>5. CASE o \notin marked
  <2>1. /\ objects' = objects \ {o} /\ refs' = [refs EXCEPT ![o] = {}] /\ refunded' = TRUE
        /\ skipped' = skipped \ {o} /\ marked' = marked
    BY <1>5 DEF Sweep
  <2>2. TypeOK'
    BY <1>1, <1>5, <2>1 DEF IndInv, TypeOK
  <2>3. Kept' = Kept /\ o \notin Kept /\ stale' = stale
    BY <1>1, <1>5, <2>1 DEF Kept
  <2>4. Blind' = Blind \ {o}
    BY <1>1, <1>5, <2>1 DEF Blind
  <2>5. \A q \in Objects \ {o} : refs'[q] = refs[q]
    BY <1>2, <2>1
  <2>6. refs'[o] = {}
    BY <1>2, <2>1
  <2>7. Kept \subseteq Objects
    BY KeptSubset DEF IndInv, TypeOK
  <2>8. HeapInv'
    <3>1. Base' \subseteq Kept' \cup {pending'}
      BY <1>1, <1>2, <2>3 DEF IndInv, HeapInv
    <3>2. \A q \in Objects \ objects' : refs'[q] = {}
      BY <2>1, <2>5, <2>6 DEF IndInv, HeapInv
    <3>3. \A q \in Kept' \ Blind' : refs'[q] \subseteq Kept' \cup {pending'}
      BY <1>1, <2>3, <2>4, <2>5, <2>7 DEF IndInv, HeapInv
    <3> QED
      BY <1>1, <2>3, <3>1, <3>2, <3>3 DEF IndInv, HeapInv
  <2>9. PendingInv' /\ RestInv' /\ RefundInv' /\ BlackIsClosed' /\ MarkInv' /\ SweepInv'
    BY <1>1, <1>5, <2>1
       DEF IndInv, PendingInv, RestInv, RefundInv, BlackIsClosed, MarkInv, SweepInv, Collecting
  <2> QED
    BY <2>2, <2>3, <2>5, <2>7, <2>8, <2>9 DEF IndInv
<1> QED
  BY <1>4, <1>5

LEMMA FinishKeepsInvariant ==
  ASSUME IndInv, Finish
  PROVE  IndInv' /\ Kept' = Kept /\ stale = {}
<1>1. /\ pc = "sweep" /\ todo = {} /\ pc' = back /\ gray = {} /\ stale = {}
      /\ marked \subseteq {pending}
      /\ UNCHANGED <<heapVars, marked, gray, back, pending, unseen, todo, historyVars>>
  BY DEF Finish, IndInv, SweepInv, RestInv
<1>2. back \in {"idle", "recheck", "link"} /\ overdue' \in BOOLEAN
  BY DEF IndInv, TypeOK, Finish
<1>3. overdue' => refunded
  BY DEF Finish
<1>4. TypeOK'
  BY <1>1, <1>2 DEF IndInv, TypeOK, heapVars, historyVars
<1>5. Kept' = Kept /\ Blind' = Blind /\ Base' = Base
  BY <1>1, <1>2 DEF Kept, Blind, Base, heapVars, historyVars
<1>6. HeapInv'
  BY <1>1, <1>5 DEF IndInv, HeapInv, heapVars
<1>7. PendingInv' /\ RestInv' /\ RefundInv'
  BY <1>1, <1>2, <1>3 DEF IndInv, PendingInv, RestInv, RefundInv, Collecting, heapVars, historyVars
<1>8. BlackIsClosed' /\ MarkInv' /\ SweepInv'
  BY <1>1, <1>2 DEF BlackIsClosed, MarkInv, SweepInv
<1> QED
  BY <1>1, <1>4, <1>5, <1>6, <1>7, <1>8 DEF IndInv

LEMMA StutterKeepsInvariant ==
  ASSUME IndInv, UNCHANGED vars
  PROVE  IndInv'
<1>1. UNCHANGED <<heapVars, gcVars, historyVars>>
  BY DEF vars
<1>2. Kept' = Kept /\ Blind' = Blind /\ Base' = Base /\ Found' = Found
  BY <1>1 DEF Kept, Blind, Base, Found, Without, heapVars, gcVars, historyVars
<1>3. TypeOK'
  BY <1>1 DEF IndInv, TypeOK, heapVars, gcVars, historyVars
<1>4. HeapInv'
  BY <1>1, <1>2 DEF IndInv, HeapInv, heapVars, gcVars
<1>5. MarkInv'
  BY <1>1, <1>2 DEF IndInv, MarkInv, heapVars, gcVars, historyVars
<1> QED
  BY <1>1, <1>3, <1>4, <1>5
     DEF IndInv, PendingInv, RestInv, RefundInv, BlackIsClosed, SweepInv, Collecting,
         heapVars, gcVars, historyVars

\* IndInv is an invariant of allocation, collection and everything between.
THEOREM CollectorInvariant == Spec => []IndInv
<1>1. IndInv /\ [Next]_vars => IndInv'
  <2> SUFFICES ASSUME IndInv, [Next]_vars
               PROVE  IndInv'
    OBVIOUS
  <2>1. CASE Mutate
    <3>1. CASE AllocateArray \/ AllocateObject
      BY <3>1, AllocationKeepsInvariant
    <3>2. CASE \E o, p \in Objects : AddRef(o, p) \/ DropRef(o, p)
      BY <3>2, MutatorKeepsInvariant, CollectorAssumption
    <3>3. CASE \E s \in Sources, p \in Objects : AddRoot(s, p) \/ DropRoot(s, p)
      BY <3>3, MutatorKeepsInvariant
    <3> QED
      BY <2>1, <3>1, <3>2, <3>3 DEF Mutate
  <2>2. CASE \E o \in Objects : Recheck(o)
    BY <2>2, RecheckKeepsInvariant
  <2>3. CASE \E s \in Sources : Link(s)
    BY <2>3, LinkKeepsInvariant
  <2>4. CASE \E s \in Sources : MarkSource(s)
    BY <2>4, MarkSourceKeepsInvariant
  <2>5. CASE \E o \in Objects : Trace(o)
    BY <2>5, TraceKeepsInvariant
  <2>6. CASE \E o \in Objects : TraceFreed(o)
    BY <2>6, TraceFreedKeepsInvariant
  <2>7. CASE \E o \in Objects : Sweep(o)
    BY <2>7, SweepKeepsInvariant
  <2>8. CASE RemoveWhite
    BY <2>8, RemoveWhiteKeepsInvariant
  <2>9. CASE Finish
    BY <2>9, FinishKeepsInvariant
  <2>10. CASE UNCHANGED vars
    BY <2>10, StutterKeepsInvariant
  <2> QED
    BY <2>1, <2>2, <2>3, <2>4, <2>5, <2>6, <2>7, <2>8, <2>9, <2>10 DEF Next, Run
<1> QED
  BY <1>1, InitInvariant, PTL DEF Spec
-----------------------------------------------------------------------------
(* What the invariant says of the program *)

\* Type correctness.
THEOREM CollectorTypeOK == Spec => []TypeOK
<1>1. IndInv => TypeOK
  BY DEF IndInv
<1> QED
  BY <1>1, CollectorInvariant, PTL

\* What the program reaches is allocated, unless the way leads through an
\* object that the last collection did not look into.
THEOREM CollectorNoDangling == Spec => []NoDangling
<1>1. IndInv => NoDangling
  <2> SUFFICES ASSUME IndInv, pc = "idle"
               PROVE  Reach(Base, Without(skipped)) \subseteq objects
    BY DEF NoDangling
  <2>1. pending = Nobody /\ Kept = objects /\ Blind = skipped
    BY DEF IndInv, PendingInv, Collecting, Kept, Blind
  <2>2. objects \in SUBSET Objects /\ Base \subseteq objects
    BY <2>1, BaseIsFound, CollectorAssumption DEF IndInv, TypeOK, HeapInv
  <2>3. Closed(objects, Without(skipped))
    <3> SUFFICES ASSUME NEW o \in objects
                 PROVE  Without(skipped)[o] \subseteq objects
      BY DEF Closed
    <3>1. o \in Objects /\ refs[o] \subseteq Objects
      BY <2>2 DEF IndInv, TypeOK
    <3>2. o \notin skipped => refs[o] \subseteq objects
      BY <2>1, <3>1, CollectorAssumption DEF IndInv, HeapInv
    <3> QED
      BY <3>1, <3>2 DEF Without
  <2> QED
    BY <2>2, <2>3, ReachLeast
<1> QED
  BY <1>1, CollectorInvariant, PTL

\* Nothing blackened refers to anything unmarked.
THEOREM CollectorBlackIsClosed == Spec => []BlackIsClosed
<1>1. IndInv => BlackIsClosed
  BY DEF IndInv
<1> QED
  BY <1>1, CollectorInvariant, PTL

\* Nothing ever leaves the intern table.
THEOREM CollectorStringsStay == Spec => StringsStay
<1>1. IndInv /\ [Next]_vars => [roots["strings"] \subseteq roots'["strings"]]_vars
  <2> SUFFICES ASSUME IndInv, [Next]_vars
               PROVE  roots["strings"] \subseteq roots'["strings"]
    OBVIOUS
  <2>1. CASE UNCHANGED roots
    BY <2>1
  <2>2. CASE \E s \in Sources, p \in Objects : AddRoot(s, p) \/ DropRoot(s, p)
    BY <2>2, CollectorAssumption DEF AddRoot, DropRoot, IndInv, TypeOK
  <2>3. CASE \E o \in Objects : Recheck(o)
    BY <2>3, CollectorAssumption DEF Recheck, IndInv, TypeOK
  <2>4. CASE \E s \in Sources : Link(s)
    BY <2>4, CollectorAssumption DEF Link, Anchored
  <2>5. CASE RemoveWhite
    BY <2>5, RemoveWhiteKeepsInvariant DEF heapVars
  <2>6. CASE \/ \E o, p \in Objects : AddRef(o, p) \/ DropRef(o, p)
             \/ AllocateArray \/ AllocateObject
             \/ \E s \in Sources : MarkSource(s)
             \/ \E o \in Objects : Trace(o) \/ TraceFreed(o) \/ Sweep(o)
             \/ Finish \/ UNCHANGED vars
    <3>1. UNCHANGED roots
      BY <2>6 DEF AddRef, DropRef, AllocateArray, AllocateObject, MarkSource, Trace, TraceFreed,
                  Sweep, Finish, vars, heapVars
    <3> QED
      BY <3>1
  <2> QED
    BY <2>2, <2>3, <2>4, <2>5, <2>6 DEF Next, Run, Mutate
<1> QED
  BY <1>1, CollectorInvariant, PTL DEF Spec, StringsStay

-----------------------------------------------------------------------------
(* The collector implements the atomic heap *)

\* What the abstract heap sees: the references of what is kept, the roots
\* without the temporary one, and the marks the next collection finds set.
KeptRefs == [o \in Objects |-> IF o \in Kept THEN refs[o] ELSE {}]
KeptRoots == [s \in Sources |-> roots[s] \ {pending}]
Hidden == IF pc = "sweep" THEN {} ELSE stale
Freed == refunded \/ (pc = "sweep" /\ ~(todo \subseteq marked))

heap == <<Kept, KeptRefs, KeptRoots, Hidden, Freed>>

\* Outside sweep the references of both heaps agree.
LEMMA KeptRefsAgree ==
  ASSUME IndInv, pc # "sweep"
  PROVE  Kept = objects /\ KeptRefs = refs /\ Hidden = stale /\ Freed = refunded
<1>1. Kept = objects /\ Hidden = stale /\ Freed = refunded
  BY DEF Kept, Hidden, Freed, IndInv, TypeOK
<1>2. \A o \in Objects : KeptRefs[o] = refs[o]
  BY <1>1 DEF KeptRefs, IndInv, HeapInv
<1> QED
  BY <1>1, <1>2 DEF KeptRefs, IndInv, TypeOK

\* While no object is pending the roots agree too.
LEMMA KeptRootsAgree ==
  ASSUME IndInv, pending = Nobody
  PROVE  KeptRoots = roots
BY CollectorAssumption DEF KeptRoots, IndInv, TypeOK

\* A step that keeps the same objects with the same references, and the same
\* roots, is a stutter of the abstract heap.
LEMMA SameHeap ==
  ASSUME Kept' = Kept, KeptRoots' = KeptRoots, Hidden' = Hidden, Freed' = Freed,
         \A o \in Kept : refs'[o] = refs[o]
  PROVE  UNCHANGED heap
<1>1. KeptRefs' = KeptRefs
  BY DEF KeptRefs
<1> QED
  BY <1>1 DEF heap

LEMMA MutatorRefines ==
  ASSUME IndInv, NEW s \in Sources, NEW o \in Objects, NEW p \in Objects
  PROVE  /\ AddRef(o, p) => A!AddRef(o, p)
         /\ DropRef(o, p) => A!DropRef(o, p)
         /\ AddRoot(s, p) => A!AddRoot(s, p)
         /\ DropRoot(s, p) => A!DropRoot(s, p)
<1> SUFFICES ASSUME AddRef(o, p) \/ DropRef(o, p) \/ AddRoot(s, p) \/ DropRoot(s, p)
             PROVE  /\ AddRef(o, p) => A!AddRef(o, p)
                    /\ DropRef(o, p) => A!DropRef(o, p)
                    /\ AddRoot(s, p) => A!AddRoot(s, p)
                    /\ DropRoot(s, p) => A!DropRoot(s, p)
  OBVIOUS
<1>1. /\ pc = "idle" /\ pc' = "idle" /\ pending = Nobody /\ pending' = Nobody
      /\ UNCHANGED <<objects, stale, refunded>>
  BY DEF AddRef, DropRef, AddRoot, DropRoot, IndInv, PendingInv, Collecting, gcVars, historyVars
<1>2. Kept = objects /\ KeptRefs = refs /\ KeptRoots = roots /\ Hidden = stale /\ Freed = refunded
  BY <1>1, KeptRefsAgree, KeptRootsAgree
<1>3. IndInv'
  BY MutatorKeepsInvariant
<1>4. /\ Kept' = Kept /\ KeptRefs' = refs' /\ KeptRoots' = roots'
      /\ Hidden' = Hidden /\ Freed' = Freed
  <2>1. Kept' = objects' /\ Hidden' = stale' /\ Freed' = refunded'
    BY <1>1, <1>3 DEF Kept, Hidden, Freed, IndInv, TypeOK
  <2>2. \A q \in Objects : KeptRefs'[q] = refs'[q]
    BY <1>3, <2>1 DEF KeptRefs, IndInv, HeapInv
  <2>3. KeptRefs' = refs'
    BY <1>3, <2>2 DEF KeptRefs, IndInv, TypeOK
  <2>4. KeptRoots' = roots'
    BY <1>1, <1>3, CollectorAssumption DEF KeptRoots, IndInv, TypeOK
  <2> QED
    BY <1>1, <1>2, <2>1, <2>3, <2>4
<1>5. A!Usable = Usable
  <2>1. A!Live = Reach(UNION {KeptRoots[r] : r \in Sources}, KeptRefs)
    BY DEF A!Live, A!Base, A!Reach, A!Closed, Reach, Closed, KeptRefs, KeptRoots
  <2>2. A!Live = Live
    BY <1>2, <2>1 DEF Live, Base
  <2> QED
    BY <1>2, <2>2 DEF A!Usable, Usable
<1>6. ASSUME AddRef(o, p)
      PROVE  A!AddRef(o, p)
  BY <1>2, <1>4, <1>5, <1>6 DEF AddRef, A!AddRef, KeptRefs, KeptRoots, Hidden, Freed
<1>7. ASSUME DropRef(o, p)
      PROVE  A!DropRef(o, p)
  BY <1>2, <1>4, <1>5, <1>7 DEF DropRef, A!DropRef, KeptRefs, KeptRoots, Hidden, Freed
<1>8. ASSUME AddRoot(s, p)
      PROVE  A!AddRoot(s, p)
  BY <1>2, <1>4, <1>5, <1>8 DEF AddRoot, A!AddRoot, KeptRefs, KeptRoots, Hidden, Freed
<1>9. ASSUME DropRoot(s, p)
      PROVE  A!DropRoot(s, p)
  BY <1>2, <1>4, <1>9 DEF DropRoot, A!DropRoot, KeptRefs, KeptRoots, Hidden, Freed
<1> QED
  BY <1>6, <1>7, <1>8, <1>9

\* What the abstract collection sees is what marking has found; the temporary
\* root is blank and adds nothing.
LEMMA SeenIsFound ==
  ASSUME IndInv, pc = "trace"
  PROVE  /\ A!Seen \subseteq Found
         /\ Found \subseteq A!Seen \cup {pending}
<1> DEFINE base == UNION {KeptRoots[r] : r \in Sources}
           cut == Without(stale)
           S == Reach(base, cut)
<1>1. KeptRefs = refs /\ Hidden = stale
  BY KeptRefsAgree
<1>2. A!Seen = S
  <2>1. A!Seen = Reach(base, [o \in Objects |-> IF o \in Hidden THEN {} ELSE KeptRefs[o]])
    BY DEF A!Seen, A!Base, A!Reach, A!Closed, Reach, Closed, KeptRefs, KeptRoots, Hidden
  <2>2. [o \in Objects |-> IF o \in Hidden THEN {} ELSE KeptRefs[o]] = Without(stale)
    BY <1>1 DEF Without
  <2> QED
    BY <2>1, <2>2
<1>3. /\ Base \in SUBSET Objects /\ cut \in [Objects -> SUBSET Objects]
      /\ Found \in SUBSET Objects /\ Base \subseteq Found /\ Closed(Found, cut)
  BY BaseIsFound DEF IndInv
<1>4. base \subseteq Base /\ Base \subseteq base \cup {pending}
  BY DEF KeptRoots, Base
<1>5. base \in SUBSET Objects
  BY <1>3, <1>4
<1>6. S \in SUBSET Objects /\ base \subseteq S /\ Closed(S, cut)
  BY <1>3, <1>5, ReachClosed
<1>7. S \subseteq Found
  BY <1>3, <1>4, ReachLeast
<1>8. CASE pending \notin Objects
  <2>1. Base \subseteq S
    BY <1>3, <1>4, <1>6, <1>8
  <2>2. Found \subseteq S
    <3> HIDE DEF S
    <3> QED
      BY <1>6, <2>1, ReachLeast DEF Found
  <2> QED
    BY <1>2, <1>7, <2>2
<1>9. CASE pending \in Objects
  <2> DEFINE T == S \cup {pending}
  <2>1. cut[pending] = {}
    <3>1. pending \notin objects
      BY <1>9, CollectorAssumption DEF IndInv, PendingInv
    <3> QED
      BY <1>9, <3>1 DEF Without, IndInv, HeapInv
  <2>2. T \in SUBSET Objects /\ Base \subseteq T
    BY <1>4, <1>6, <1>9
  <2>3. Closed(T, cut)
    BY <1>6, <2>1 DEF Closed
  <2>4. Found \subseteq T
    <3> HIDE DEF T
    <3> QED
      BY <2>2, <2>3, ReachLeast DEF Found
  <2> QED
    BY <1>2, <1>7, <2>4
<1> QED
  BY <1>8, <1>9

LEMMA RemoveWhiteRefines ==
  ASSUME IndInv, RemoveWhite
  PROVE  A!Collect
<1>1. /\ pc = "trace" /\ pc' = "sweep" /\ todo' = objects /\ marked' = marked
      /\ UNCHANGED <<pending, stale, refunded, objects, refs, roots>>
      /\ marked = Found \cup stale /\ Kept = objects /\ Kept' = objects \cap marked
  BY RemoveWhiteKeepsInvariant DEF RemoveWhite, heapVars, historyVars
<1>2. KeptRefs = refs /\ Hidden = stale /\ Freed = refunded
  BY <1>1, KeptRefsAgree
<1>3. pending \notin objects
  BY <1>1, CollectorAssumption DEF IndInv, PendingInv, TypeOK
<1> DEFINE kept == A!Seen \cup Hidden
<1>4. objects \cap kept = objects \cap marked
  BY <1>1, <1>2, <1>3, SeenIsFound
<1>5. Kept' = Kept \cap kept
  BY <1>1, <1>4
<1>6. KeptRefs' = [o \in Objects |-> IF o \in kept THEN KeptRefs[o] ELSE {}]
  <2> SUFFICES ASSUME NEW o \in Objects
               PROVE  (IF o \in Kept' THEN refs'[o] ELSE {})
                        = (IF o \in kept THEN KeptRefs[o] ELSE {})
    BY DEF KeptRefs
  <2>1. o \notin objects => refs[o] = {}
    BY DEF IndInv, HeapInv
  <2> HIDE DEF kept
  <2> QED
    BY <1>1, <1>2, <1>5, <2>1
<1>7. Freed' = (Freed \/ ~(Kept \subseteq kept))
  <2>1. Freed' = (refunded \/ ~(objects \subseteq marked))
    BY <1>1 DEF Freed
  <2>2. (objects \subseteq marked) = (objects \subseteq kept)
    BY <1>4
  <2> HIDE DEF kept
  <2> QED
    BY <1>1, <1>2, <2>1, <2>2
<1>8. Hidden' = {} /\ KeptRoots' = KeptRoots
  BY <1>1 DEF Hidden, KeptRoots
<1> QED
  BY <1>5, <1>6, <1>7, <1>8 DEF A!Collect, KeptRefs, KeptRoots, Hidden, Freed

LEMMA LinkRefines ==
  ASSUME IndInv, NEW s \in Sources, Link(s)
  PROVE  pending \in Objects /\ A!New(pending, s)
<1>1. /\ pc = "link" /\ pc' = "idle" /\ pending \in Objects /\ pending \notin objects
      /\ objects' = objects \cup {pending} /\ refs' = refs /\ pending' = Nobody
      /\ s = "strings" => pending \in Strings
      /\ stale' = stale \cup ({pending} \cap marked) /\ refunded' = refunded
      /\ pending \in marked => refunded
  BY DEF Link, IndInv, PendingInv, RefundInv, TypeOK
<1>2. Kept = objects /\ KeptRefs = refs /\ Hidden = stale /\ Freed = refunded
  BY <1>1, KeptRefsAgree
<1>3. IndInv'
  BY LinkKeepsInvariant
<1>4. Kept' = objects' /\ Hidden' = stale' /\ Freed' = refunded'
  BY <1>1, <1>3 DEF Kept, Hidden, Freed, IndInv, TypeOK
<1>5. KeptRefs' = KeptRefs
  <2>1. \A q \in Objects : KeptRefs'[q] = refs'[q]
    BY <1>3, <1>4 DEF KeptRefs, IndInv, HeapInv
  <2>2. KeptRefs' = refs'
    BY <1>3, <2>1 DEF KeptRefs, IndInv, TypeOK
  <2> QED
    BY <1>1, <1>2, <2>2
<1>6. KeptRoots' = A!Anchored(pending, s)
  <2>1. roots' = [Anchored(pending, s) EXCEPT !["stack"] =
                    IF s = "stack" THEN @ ELSE @ \ {pending}]
    BY DEF Link
  <2>2. roots \in [Sources -> SUBSET Objects] /\ Nobody \notin Objects
    BY CollectorAssumption DEF IndInv, TypeOK
  <2>3. ASSUME NEW r \in Sources
        PROVE  roots'[r] \ {Nobody} = A!Anchored(pending, s)[r]
    <3>1. r # "stack" => pending \notin roots[r]
      BY <1>1, <1>2 DEF IndInv, HeapInv
    <3> QED
      BY <1>1, <2>1, <2>2, <3>1, CollectorAssumption DEF Anchored, A!Anchored
  <2> QED
    BY <1>1, <2>3 DEF KeptRoots, A!Anchored
<1>7. Hidden' \in IF Freed THEN {Hidden, Hidden \cup {pending}} ELSE {Hidden}
  BY <1>1, <1>2, <1>4
<1> QED
  BY <1>1, <1>2, <1>4, <1>5, <1>6, <1>7 DEF A!New, KeptRefs, KeptRoots, Hidden, Freed

\* Every other step of allocation and collection is invisible.
LEMMA CollectingStutters ==
  ASSUME IndInv,
         \/ AllocateArray \/ AllocateObject
         \/ \E o \in Objects : Recheck(o)
         \/ \E s \in Sources : MarkSource(s)
         \/ \E o \in Objects : Trace(o) \/ TraceFreed(o) \/ Sweep(o)
         \/ Finish \/ UNCHANGED vars
  PROVE  UNCHANGED heap
<1>1. CASE \/ AllocateArray \/ AllocateObject
           \/ \E s \in Sources : MarkSource(s)
           \/ \E o \in Objects : Trace(o) \/ TraceFreed(o)
  <2>1. UNCHANGED <<heapVars, pending, stale, refunded>> /\ pc # "sweep" /\ pc' # "sweep"
    BY <1>1 DEF AllocateArray, AllocateObject, Reallocate, MarkSource, Trace, TraceFreed,
                heapVars, historyVars
  <2> QED
    BY <2>1, SameHeap DEF heapVars, Kept, KeptRoots, Hidden, Freed
<1>2. CASE \E o \in Objects : Recheck(o)
  <2> PICK o \in Objects : Recheck(o)
    BY <1>2
  <2>1. /\ UNCHANGED <<objects, refs, stale, refunded>>
        /\ pc = "recheck" /\ pc' # "sweep" /\ pending = Nobody /\ pending' = o /\ o \notin objects
    BY RecheckKeepsInvariant DEF Recheck, IndInv, PendingInv, Collecting, historyVars
  <2>2. UNCHANGED <<Kept, Hidden, Freed>>
    BY <2>1 DEF Kept, Hidden, Freed
  <2>3. UNCHANGED KeptRoots
    <3>1. \A r \in Sources : o \notin roots[r]
      BY <2>1, KeptSubset, CollectorAssumption DEF IndInv, HeapInv, Base
    <3>2. \A r \in Sources : roots'[r] \ {o} = roots[r] \ {Nobody}
      BY <3>1, CollectorAssumption DEF Recheck, IndInv, TypeOK
    <3> QED
      BY <2>1, <3>2 DEF KeptRoots
  <2> QED
    BY <2>1, <2>2, <2>3, SameHeap
<1>3. CASE \E o \in Objects : Sweep(o)
  <2> PICK o \in Objects : Sweep(o)
    BY <1>3
  <2>1. /\ UNCHANGED <<roots, pending>> /\ pc = "sweep" /\ pc' = "sweep"
        /\ o \in todo /\ todo' = todo \ {o}
    BY DEF Sweep
  <2>2. UNCHANGED Freed
    <3>1. CASE o \in marked
      BY <2>1, <3>1 DEF Sweep, Freed
    <3>2. CASE o \notin marked
      BY <2>1, <3>2 DEF Sweep, Freed
    <3> QED
      BY <3>1, <3>2
  <2>3. UNCHANGED <<Hidden, KeptRoots>>
    BY <2>1 DEF Hidden, KeptRoots
  <2> QED
    BY <2>2, <2>3, SweepKeepsInvariant, SameHeap
<1>4. CASE Finish
  <2>1. /\ pc = "sweep" /\ todo = {} /\ refunded \in BOOLEAN
        /\ UNCHANGED <<heapVars, todo, marked, pending, stale, refunded>>
    BY <1>4 DEF Finish, IndInv, TypeOK, historyVars
  <2>2. UNCHANGED <<Hidden, Freed, KeptRoots>>
    BY <1>4, <2>1, FinishKeepsInvariant DEF Hidden, Freed, KeptRoots, heapVars
  <2> QED
    BY <1>4, <2>1, <2>2, FinishKeepsInvariant, SameHeap DEF heapVars
<1>5. CASE UNCHANGED vars
  <2>1. UNCHANGED <<Kept, KeptRoots, Hidden, Freed, refs>>
    BY <1>5 DEF vars, heapVars, gcVars, historyVars, Kept, KeptRoots, Hidden, Freed
  <2> QED
    BY <2>1, SameHeap
<1> QED
  BY <1>1, <1>2, <1>3, <1>4, <1>5

\* The collector behaves as a heap in which a collection is one atomic step.
THEOREM CollectorRefines == Spec => RefinesAtomicHeap
<1>1. Init => A!Init
  BY DEF Init, A!Init, Kept
<1>2. IndInv /\ [Next]_vars => [A!Next]_heap
  <2> SUFFICES ASSUME IndInv, [Next]_vars
               PROVE  A!Next \/ UNCHANGED heap
    OBVIOUS
  <2>1. CASE \E o, p \in Objects : AddRef(o, p) \/ DropRef(o, p)
    BY <2>1, MutatorRefines, CollectorAssumption DEF A!Next
  <2>2. CASE \E s \in Sources, p \in Objects : AddRoot(s, p) \/ DropRoot(s, p)
    BY <2>2, MutatorRefines DEF A!Next
  <2>3. CASE \E s \in Sources : Link(s)
    BY <2>3, LinkRefines DEF A!Next
  <2>4. CASE RemoveWhite
    BY <2>4, RemoveWhiteRefines DEF A!Next
  <2> QED
    BY <2>1, <2>2, <2>3, <2>4, CollectingStutters DEF Next, Run, Mutate
<1>3. heap = A!heapVars
  BY DEF heap, KeptRefs, KeptRoots, Hidden, Freed, A!heapVars
<1>4. IndInv /\ [Next]_vars => [A!Next]_(A!heapVars)
  BY <1>2, <1>3 DEF heap, KeptRefs, KeptRoots, Hidden, Freed, A!heapVars
<1> QED
  BY <1>1, <1>4, CollectorInvariant, PTL DEF Spec, RefinesAtomicHeap, A!Spec
=============================================================================
