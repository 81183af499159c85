--------------------------- MODULE RootingProofs ---------------------------
(***************************************************************************)
(* Proofs about Rooting, for any objects, any operations and any bounds:   *)
(* no operation but those of PopsFirst uses an object that one of its own  *)
(* allocations has freed, and nothing freed is ever reachable again.       *)
(***************************************************************************)
EXTENDS Rooting, SequenceTheorems, TLAPS

-----------------------------------------------------------------------------
(* Lemmas about reachability *)

\* The reachable objects contain the base and are closed.
LEMMA ReachClosed ==
  ASSUME NEW graph \in [Objects -> SUBSET Objects], NEW base \in SUBSET Objects
  PROVE  /\ Reach(base, graph) \subseteq Objects
         /\ base \subseteq Reach(base, graph)
         /\ Closed(Reach(base, graph), graph)
BY DEF Reach, Closed

\* They are the least such set.
LEMMA ReachLeast ==
  ASSUME NEW graph, NEW base, NEW S \in SUBSET Objects,
         base \subseteq S, Closed(S, graph)
  PROVE  Reach(base, graph) \subseteq S
BY DEF Reach

\* More roots reach more.
LEMMA ReachMore ==
  ASSUME NEW graph \in [Objects -> SUBSET Objects],
         NEW small \in SUBSET Objects, NEW large \in SUBSET Objects,
         small \subseteq Reach(large, graph)
  PROVE  Reach(small, graph) \subseteq Reach(large, graph)
<1>1. Reach(large, graph) \in SUBSET Objects /\ Closed(Reach(large, graph), graph)
  BY ReachClosed
<1> QED
  BY <1>1, ReachLeast

-----------------------------------------------------------------------------
(* The inductive invariant *)

\* The operations that keep objects in C variables.
Ops == {"none", "userdata", "string", "constant", "mj_set_global", "concatenate",
        "define_global", "set_property", "set_index", "mj_set_table", "function"}

\* The C variables of an operation, as one record.
Calls ==
  [op : Ops, on : Tables \cup Strings \cup {Globals}, key : Strings \cup {Nil},
   value : Values, rest : Seq(Values)]

\* Whatever the program reaches is allocated, during an operation too.
LiveAllocated == Live \subseteq objects

\* If nothing held has been freed, nothing reachable from it has been freed either:
\* a collection keeps both or none.
HeldReach == Intact => Reach(Base \cup Held, refs) \subseteq objects

\* Every string is interned, the one being made excepted: operands that are
\* strings need not stay on the stack.
StringsInterned ==
  objects \cap Strings \subseteq interned \cup IF pc = "intern" THEN {call.key} ELSE {}

\* What the C variables are at each allocation.
CallInv ==
  /\ call \in Calls
  /\ pc = "idle" => call = NoCall
  /\ pc = "data" => stack = call.rest
  /\ pc \in {"chars", "copy"} => call.op = "concatenate" /\ call.key \in Strings
  /\ pc = "intern" => /\ call.op \in {"string", "concatenate", "constant", "mj_set_global"}
                      /\ call.key \in Strings \cap objects
                      /\ call.op = "mj_set_global" => stack # <<>> /\ call.on = Globals
                      /\ call.op = "constant" => chain # <<>>
  /\ pc \in {"grow", "store"} => /\ call.key \in Strings /\ call.on \in Tables \cup {Globals}
                                 /\ Items(call.rest) \subseteq Items(stack) \cup {call.value, Nil}
  /\ pc \in {"constant", "append"} => chain # <<>> /\ call.value \in Objects

\* What an operation holds is rooted, unless it is one of PopsFirst or the string
\* it holds is new.
HeldRooted == call.op \notin PopsFirst /\ pc # "intern" => Held \subseteq Base

IndInv ==
  /\ TypeOK
  /\ CallInv
  /\ LiveAllocated
  /\ HeldReach
  /\ StringsInterned
  /\ HeldRooted

-----------------------------------------------------------------------------
(* Consequences of the types *)

\* An object is of one type.
LEMMA OneType ==
  /\ Tables \subseteq Objects /\ Strings \subseteq Objects
  /\ Functions \subseteq Objects /\ Blobs \subseteq Objects
  /\ Nil \notin Objects /\ Absent \notin Values /\ Globals \notin Objects
  /\ \A t \in Tables : t \notin Strings /\ t \notin Functions /\ t \notin Blobs
  /\ \A s \in Strings : s \notin Functions /\ s \notin Blobs
  /\ \A f \in Functions : f \notin Blobs
BY RootingAssumption DEF Values

LEMMA ItemsType ==
  ASSUME NEW S, NEW s \in Seq(S)
  PROVE  Items(s) \subseteq S
BY ElementOfSeq DEF Items

LEMMA EntriesType ==
  ASSUME TypeOK, NEW t \in Tables \cup {Globals}
  PROVE  Entries(t) \subseteq Objects
BY OneType DEF TypeOK, Entries, Values

LEMMA RefsType ==
  ASSUME TypeOK
  PROVE  refs \in [Objects -> SUBSET Objects]
<1>1. \A t \in Tables : Entries(t) \subseteq Objects
  BY EntriesType
<1>2. \A o \in Functions \cup Blobs : inside[o] \subseteq Objects
  BY DEF TypeOK
<1> QED
  BY <1>1, <1>2 DEF refs

LEMMA BaseType ==
  ASSUME TypeOK
  PROVE  Base \subseteq Objects /\ Held \subseteq Objects
<1>1. Items(stack) \subseteq Values /\ Items(chain) \subseteq Functions
  BY ItemsType DEF TypeOK
<1>2. Entries(Globals) \subseteq Objects
  BY EntriesType
<1> QED
  BY <1>1, <1>2, OneType DEF TypeOK, Base, Held, Values

\* Live is closed and contains the base.
LEMMA LiveProperties ==
  ASSUME TypeOK
  PROVE  /\ Live \subseteq Objects /\ Base \subseteq Live
         /\ \A o \in Live : refs[o] \subseteq Live
BY RefsType, BaseType, ReachClosed DEF Live, Closed

\* What a collection leaves: everything reachable, and what is held with
\* everything it reaches, or else not what is held.
LEMMA Survive ==
  ASSUME TypeOK, LiveAllocated, NEW extra \in SUBSET Objects, NEW h \in Survivors(extra)
  PROVE  /\ h \subseteq objects /\ Live \subseteq h
         /\ objects \cap extra \subseteq h
         /\ \A X \in SUBSET Objects :
              X \subseteq h /\ Reach(Base \cup X, refs) \subseteq objects
                => Reach(Base \cup X, refs) \subseteq h
<1> DEFINE R == Reach(Base \cup extra, refs)
<1>1. Base \subseteq Objects /\ refs \in [Objects -> SUBSET Objects]
  BY BaseType, RefsType
<1>2. Base \cup extra \subseteq R /\ R \subseteq Objects
  BY <1>1, ReachClosed
<1>3. h = objects \/ h = objects \cap R
  BY DEF Survivors
<1>4. Live \subseteq R
  BY <1>1, <1>2, ReachMore DEF Live
<1>5. ASSUME NEW X \in SUBSET Objects, X \subseteq R
      PROVE  Reach(Base \cup X, refs) \subseteq R
  BY <1>1, <1>2, <1>5, ReachMore
<1> HIDE DEF R
<1> QED
  BY <1>2, <1>3, <1>4, <1>5 DEF LiveAllocated

\* The references are those of the contents.
LEMMA RefsKept ==
  ASSUME UNCHANGED <<content, inside>>
  PROVE  refs' = refs /\ Entries(Globals)' = Entries(Globals)
BY DEF refs, Entries

\* The next state's reachable objects lie in any set that is closed and has the
\* next state's base.
LEMMA LiveBound ==
  ASSUME NEW S \in SUBSET Objects, Base' \subseteq S,
         \A o \in S : refs'[o] \subseteq S
  PROVE  Live' \subseteq S
BY ReachLeast DEF Live, Closed

\* What is held by the base adds nothing to it.
LEMMA RootedReach ==
  ASSUME Held' \subseteq Base', LiveAllocated'
  PROVE  HeldReach'
<1>1. Base' \cup Held' = Base'
  OBVIOUS
<1> QED
  BY <1>1 DEF LiveAllocated, HeldReach, Live

-----------------------------------------------------------------------------
(* Consequences of what is on the stack *)

LEMMA AppendItems ==
  ASSUME NEW S, NEW s \in Seq(S), NEW e \in S
  PROVE  Append(s, e) \in Seq(S) /\ Items(Append(s, e)) = Items(s) \cup {e}
<1>1. /\ Append(s, e) \in Seq(S) /\ Len(Append(s, e)) = Len(s) + 1 /\ Len(s) \in Nat
      /\ \A i \in 1 .. Len(s) : Append(s, e)[i] = s[i]
      /\ Append(s, e)[Len(s) + 1] = e
  OBVIOUS
<1>2. 1 .. Len(s) + 1 = (1 .. Len(s)) \cup {Len(s) + 1}
  BY <1>1
<1> QED
  BY <1>1, <1>2 DEF Items

LEMMA CutItems ==
  ASSUME NEW S, NEW s \in Seq(S), NEW n \in 0 .. Len(s)
  PROVE  SubSeq(s, 1, n) \in Seq(S) /\ Items(SubSeq(s, 1, n)) \subseteq Items(s)
<1>1. Len(s) \in Nat /\ \A i \in 1 .. n : s[i] \in S
  BY LenProperties, ElementOfSeq
<1>2. /\ SubSeq(s, 1, n) \in Seq(S)
      /\ Len(SubSeq(s, 1, n)) = IF 1 <= n THEN n - 1 + 1 ELSE 0
      /\ \A i \in 1 .. n - 1 + 1 : SubSeq(s, 1, n)[i] = s[1 + i - 1]
  BY <1>1, SubSeqProperties
<1>3. Len(SubSeq(s, 1, n)) = n /\ \A i \in 1 .. n : SubSeq(s, 1, n)[i] = s[i]
  BY <1>2
<1> QED
  BY <1>1, <1>2, <1>3 DEF Items

\* The values near the top, and what is left when they are popped.
LEMMA StackTop ==
  ASSUME TypeOK, NEW n \in Nat, n <= Len(stack)
  PROVE  /\ Popped(n) \in Seq(Values) /\ Items(Popped(n)) \subseteq Items(stack)
         /\ n < Len(stack) => Below(n) \in Items(stack) /\ Below(n) \in Values
<1>1. stack \in Seq(Values) /\ Len(stack) \in Nat
  BY LenProperties DEF TypeOK
<1>2. Len(stack) - n \in 0 .. Len(stack)
  BY <1>1
<1>3. Popped(n) \in Seq(Values) /\ Items(Popped(n)) \subseteq Items(stack)
  BY <1>1, <1>2, CutItems DEF Popped
<1>4. ASSUME n < Len(stack)
      PROVE  Below(n) \in Items(stack) /\ Below(n) \in Values
  <2>1. Len(stack) - n \in 1 .. Len(stack)
    BY <1>1, <1>4
  <2> QED
    BY <1>1, <2>1, ElementOfSeq DEF Below, Items
<1> QED
  BY <1>3, <1>4

LEMMA TopOfStack ==
  ASSUME TypeOK, stack # <<>>
  PROVE  /\ Len(stack) \in Nat \ {0} /\ Top = Below(0)
         /\ Top \in Items(stack) /\ Top \in Values
         /\ Popped(1) \in Seq(Values) /\ Items(Popped(1)) \subseteq Items(stack)
<1>1. Len(stack) \in Nat \ {0}
  BY EmptySeq DEF TypeOK
<1>2. Top = Below(0)
  BY <1>1 DEF Top, Below
<1> QED
  BY <1>1, <1>2, StackTop

\* What is on the stack is live, and a string on it is interned.
LEMMA OnStack ==
  ASSUME IndInv, pc # "intern", NEW v \in Items(stack)
  PROVE  /\ v \in Values
         /\ v # Nil => v \in Base /\ v \in Live /\ v \in objects
         /\ v \in Strings => v \in interned
<1>1. v \in Values
  BY ItemsType DEF IndInv, TypeOK
<1>2. v # Nil => v \in Base
  BY DEF Base
<1>3. v # Nil => v \in Live /\ v \in objects
  BY <1>2, LiveProperties DEF IndInv, LiveAllocated
<1>4. v \in Strings => v \in interned
  BY <1>3, OneType DEF IndInv, StringsInterned
<1> QED
  BY <1>1, <1>2, <1>3, <1>4

\* If the graph stays and the new base was live, nothing becomes live.
LEMMA LiveKept ==
  ASSUME TypeOK, UNCHANGED <<content, inside>>, Base' \subseteq Live
  PROVE  Live' \subseteq Live
<1>1. refs' = refs
  BY RefsKept
<1>2. Live \subseteq Objects /\ \A o \in Live : refs[o] \subseteq Live
  BY LiveProperties
<1> QED
  BY <1>1, <1>2, LiveBound

-----------------------------------------------------------------------------
(* Instructions that allocate nothing *)

\* The C variables when no operation is running.
LEMMA NoCallType == NoCall \in Calls
<1>1. <<>> \in Seq(Values)
  BY EmptySeq
<1>2. Nil \in Values
  BY DEF Values
<1> QED
  BY <1>1, <1>2 DEF NoCall, Calls, Ops

LEMMA InitInv ==
  ASSUME Init
  PROVE  IndInv
<1> USE DEF Init
<1>1. \A S : <<>> \in Seq(S) /\ Len(<<>>) = 0
  BY EmptySeq
<1>2. Items(<<>>) = {}
  BY <1>1 DEF Items
<1>3. NoCall \in Calls /\ call = NoCall
  BY NoCallType
<1>4. TypeOK
  BY <1>1, <1>3 DEF TypeOK, NoCall, Calls
<1>5. Base = {}
  BY <1>2 DEF Base, Entries
<1>6. Live = {}
  <2>1. {} \in SUBSET Objects /\ Closed({}, refs) /\ Base \subseteq {}
    BY <1>5 DEF Closed
  <2>2. Live \subseteq {}
    BY <2>1, ReachLeast DEF Live
  <2> QED
    BY <2>2
<1>7. Held = {}
  BY OneType DEF Held, NoCall
<1>8. CallInv
  BY <1>3 DEF CallInv
<1>9. LiveAllocated /\ HeldReach /\ HeldRooted
  BY <1>5, <1>6, <1>7 DEF LiveAllocated, HeldReach, HeldRooted, Live
<1> QED
  BY <1>4, <1>8, <1>9 DEF IndInv, StringsInterned

\* A step that leaves no operation running keeps the invariant, if it keeps the
\* types, leaves strings interned and what is reachable allocated.
LEMMA IdleInv ==
  ASSUME TypeOK', pc' = "idle", call' = NoCall, LiveAllocated',
         objects' \cap Strings \subseteq interned'
  PROVE  IndInv'
<1>1. Held' = {} /\ call' \in Calls
  <2>1. call' \in Calls
    BY NoCallType
  <2>2. Held' = Objects \cap {Nil}
    BY DEF Held, NoCall
  <2> QED
    BY <2>1, <2>2, OneType
<1>2. CallInv'
  BY <1>1 DEF CallInv
<1>3. HeldRooted' /\ HeldReach'
  BY <1>1, RootedReach DEF HeldRooted
<1> QED
  BY <1>2, <1>3 DEF IndInv, StringsInterned

LEMMA PushInv ==
  ASSUME IndInv, NEW v \in Values, Push(v)
  PROVE  IndInv'
<1> USE DEF Push, Running
<1>1. stack' \in Seq(Values) /\ Items(stack') = Items(stack) \cup {v}
  BY AppendItems DEF IndInv, TypeOK
<1>2. v = Nil \/ v \in Live
  <2>1. CASE v \in Items(stack) \cup interned \cup {Nil}
    BY <2>1, LiveProperties DEF IndInv, Base
  <2>2. ASSUME NEW t \in (Tables \cap Live) \cup {Globals}, NEW k \in Strings,
               content[t][k] = v, v # Nil
        PROVE  v \in Live
    <3>1. v \in Entries(t)
      BY <2>2, OneType DEF Entries
    <3>2. CASE t = Globals
      BY <3>1, <3>2, LiveProperties DEF IndInv, Base
    <3>3. CASE t \in Tables \cap Live
      BY <3>1, <3>3, LiveProperties, OneType DEF IndInv, refs
    <3> QED
      BY <3>2, <3>3
  <2> QED
    BY <2>1, <2>2
<1>3. TypeOK'
  BY <1>1 DEF IndInv, TypeOK
<1>4. Base' \subseteq Live
  <2>1. Entries(Globals)' = Entries(Globals)
    BY RefsKept
  <2> QED
    BY <1>1, <1>2, <2>1, LiveProperties DEF IndInv, Base
<1>5. LiveAllocated'
  BY <1>4, LiveKept DEF IndInv, LiveAllocated
<1>6. objects' \cap Strings \subseteq interned'
  BY DEF IndInv, StringsInterned
<1>7. pc' = "idle" /\ call' = NoCall
  BY DEF IndInv, CallInv
<1> QED
  BY <1>3, <1>5, <1>6, <1>7, IdleInv

LEMMA PopInv ==
  ASSUME IndInv, Pop
  PROVE  IndInv'
<1> USE DEF Pop, Running
<1>1. stack' \in Seq(Values) /\ Items(stack') \subseteq Items(stack)
  BY TopOfStack DEF IndInv
<1>2. TypeOK'
  BY <1>1 DEF IndInv, TypeOK
<1>3. Base' \subseteq Live
  <2>1. Entries(Globals)' = Entries(Globals)
    BY RefsKept
  <2> QED
    BY <1>1, <2>1, LiveProperties DEF IndInv, Base
<1>4. LiveAllocated'
  BY <1>3, LiveKept DEF IndInv, LiveAllocated
<1>5. objects' \cap Strings \subseteq interned'
  BY DEF IndInv, StringsInterned
<1>6. pc' = "idle" /\ call' = NoCall
  BY DEF IndInv, CallInv
<1> QED
  BY <1>2, <1>4, <1>5, <1>6, IdleInv

-----------------------------------------------------------------------------
(* Allocating instructions *)

\* An allocation that changes no reference keeps what is reachable.
LEMMA Collected ==
  ASSUME TypeOK, LiveAllocated, NEW extra \in SUBSET Objects,
         objects' \in Survivors(extra),
         UNCHANGED <<content, inside>>, Base' \subseteq Live
  PROVE  LiveAllocated'
BY Survive, LiveKept DEF LiveAllocated

\* A new object that refers to live objects is all that becomes reachable.
LEMMA NewObject ==
  ASSUME TypeOK, LiveAllocated, NEW extra \in SUBSET Objects,
         NEW h \in Survivors(extra), NEW new \in Objects, objects' = h \cup {new},
         Base' \subseteq Live \cup {new}, refs'[new] \subseteq Live \cup {new},
         \A o \in Live \ {new} : refs'[o] = refs[o]
  PROVE  LiveAllocated'
<1>1. Live \subseteq h
  BY Survive
<1>2. Live \subseteq Objects /\ \A o \in Live : refs[o] \subseteq Live
  BY LiveProperties
<1>3. Live' \subseteq Live \cup {new}
  <2> DEFINE S == Live \cup {new}
  <2>1. S \in SUBSET Objects
    BY <1>2
  <2>2. \A o \in S : refs'[o] \subseteq S
    BY <1>2
  <2> HIDE DEF S
  <2>3. Base' \subseteq S
    BY DEF S
  <2>4. Live' \subseteq S
    BY <2>1, <2>2, <2>3, LiveBound
  <2> QED
    BY <2>4 DEF S
<1> QED
  BY <1>1, <1>3 DEF LiveAllocated

LEMMA NewTableInv ==
  ASSUME IndInv, NEW t \in Tables, NewTable(t)
  PROVE  IndInv'
<1> USE DEF NewTable, Running
<1> PICK h \in Survivors({}) : t \notin h /\ objects' = h \cup {t}
  OBVIOUS
<1>1. t \in Objects /\ t \in Values /\ t # Globals /\ t \notin Strings
  BY OneType DEF Values
<1>2. h \subseteq objects /\ Live \subseteq h
  BY Survive DEF IndInv
<1>3. stack' \in Seq(Values) /\ Items(stack') = Items(stack) \cup {t}
  BY <1>1, AppendItems DEF IndInv, TypeOK
<1>4. content' \in [Tables \cup {Globals} -> [Strings -> Values \cup {Absent}]]
  BY DEF IndInv, TypeOK
<1>5. TypeOK'
  BY <1>1, <1>2, <1>3, <1>4 DEF IndInv, TypeOK
<1>6. /\ Entries(t)' = {} /\ Entries(Globals)' = Entries(Globals)
      /\ \A o \in Tables \ {t} : Entries(o)' = Entries(o)
  BY <1>1 DEF IndInv, TypeOK, Entries
<1>7. refs'[t] = {} /\ \A o \in Objects \ {t} : refs'[o] = refs[o]
  BY <1>1, <1>6 DEF refs
<1>8. Base' \subseteq Live \cup {t}
  BY <1>3, <1>6, LiveProperties DEF IndInv, Base
<1>9. LiveAllocated'
  BY <1>1, <1>7, <1>8, NewObject, LiveProperties DEF IndInv
<1>10. objects' \cap Strings \subseteq interned'
  BY <1>1, <1>2 DEF IndInv, StringsInterned
<1>11. pc' = "idle" /\ call' = NoCall
  BY DEF IndInv, CallInv
<1> QED
  BY <1>5, <1>9, <1>10, <1>11, IdleInv

LEMMA NewClosureInv ==
  ASSUME IndInv, NEW f \in Functions, NEW c \in Blobs, NewClosure(f, c)
  PROVE  IndInv'
<1> USE DEF NewClosure, Running
<1> PICK h \in Survivors({f}) : c \notin h /\ objects' = h \cup {c}
  OBVIOUS
<1>1. /\ c \in Objects /\ c \in Values /\ c \notin Strings /\ c \notin Tables
      /\ f \in Objects /\ f \in Live
  BY OneType DEF Values
<1>2. h \subseteq objects /\ Live \subseteq h
  BY <1>1, Survive DEF IndInv
<1>3. stack' \in Seq(Values) /\ Items(stack') = Items(stack) \cup {c}
  BY <1>1, AppendItems DEF IndInv, TypeOK
<1>4. inside' \in [Functions \cup Blobs -> SUBSET Objects]
  BY <1>1 DEF IndInv, TypeOK
<1>5. TypeOK'
  BY <1>1, <1>2, <1>3, <1>4 DEF IndInv, TypeOK
<1>6. \A o \in Tables \cup {Globals} : Entries(o)' = Entries(o)
  BY DEF Entries
<1>7. refs'[c] = {f} /\ \A o \in Objects \ {c} : refs'[o] = refs[o]
  BY <1>1, <1>6 DEF refs, IndInv, TypeOK
<1>8. Base' \subseteq Live \cup {c}
  BY <1>3, <1>6, LiveProperties DEF IndInv, Base
<1>9. LiveAllocated'
  BY <1>1, <1>7, <1>8, NewObject, LiveProperties DEF IndInv
<1>10. objects' \cap Strings \subseteq interned'
  BY <1>1, <1>2 DEF IndInv, StringsInterned
<1>11. pc' = "idle" /\ call' = NoCall
  BY DEF IndInv, CallInv
<1> QED
  BY <1>5, <1>9, <1>10, <1>11, IdleInv

LEMMA NewUserdataInv ==
  ASSUME IndInv, NEW b \in Blobs, NewUserdata(b)
  PROVE  IndInv'
<1> USE DEF NewUserdata, Running
<1> PICK h \in Survivors({}) : b \notin h /\ objects' = h \cup {b}
  OBVIOUS
<1>1. b \in Objects /\ b \in Values /\ b \notin Strings /\ b \notin Tables /\ b # Nil
  BY OneType DEF Values
<1>2. h \subseteq objects /\ Live \subseteq h
  BY Survive DEF IndInv
<1>3. stack' \in Seq(Values) /\ Items(stack') = Items(stack) \cup {b}
  BY <1>1, AppendItems DEF IndInv, TypeOK
<1>4. inside' \in [Functions \cup Blobs -> SUBSET Objects]
  BY <1>1 DEF IndInv, TypeOK
<1>5. /\ call' \in Calls /\ call'.op = "userdata" /\ call'.on = Globals /\ call'.key = Nil
      /\ call'.value = b /\ call'.rest = stack'
  BY <1>1, <1>3 DEF NoCall, Calls, Ops
<1>6. TypeOK'
  BY <1>1, <1>2, <1>3, <1>4, <1>5 DEF IndInv, TypeOK
<1>7. \A o \in Tables \cup {Globals} : Entries(o)' = Entries(o)
  BY DEF Entries
<1>8. refs'[b] = {} /\ \A o \in Objects \ {b} : refs'[o] = refs[o]
  BY <1>1, <1>7 DEF refs, IndInv, TypeOK
<1>9. Base' \subseteq Live \cup {b}
  BY <1>3, <1>7, LiveProperties DEF IndInv, Base
<1>10. LiveAllocated'
  BY <1>1, <1>8, <1>9, NewObject, LiveProperties DEF IndInv
<1>11. Held' \subseteq Base'
  <2>1. Held' = Objects \cap {b}
    BY <1>5 DEF Held
  <2> QED
    BY <2>1, <1>1, <1>3 DEF Base
<1>12. CallInv'
  BY <1>5 DEF CallInv
<1>13. HeldReach' /\ HeldRooted'
  BY <1>10, <1>11, RootedReach DEF HeldRooted
<1>14. StringsInterned'
  BY <1>1, <1>2 DEF IndInv, StringsInterned
<1> QED
  BY <1>6, <1>10, <1>12, <1>13, <1>14 DEF IndInv

LEMMA AllocateDataInv ==
  ASSUME IndInv, AllocateData
  PROVE  IndInv'
<1> USE DEF AllocateData
<1>1. stack' = stack
  BY DEF IndInv, CallInv
<1>2. objects' \subseteq objects
  BY Survive DEF IndInv
<1>3. call' \in Calls
  BY NoCallType
<1>4. TypeOK'
  BY <1>1, <1>2, <1>3 DEF IndInv, TypeOK, Calls
<1>5. Base' \subseteq Live
  <2>1. Entries(Globals)' = Entries(Globals)
    BY RefsKept
  <2> QED
    BY <1>1, <2>1, LiveProperties DEF IndInv, Base
<1>6. LiveAllocated'
  BY <1>5, Collected DEF IndInv
<1>7. objects' \cap Strings \subseteq interned'
  BY <1>2 DEF IndInv, StringsInterned
<1> QED
  BY <1>4, <1>6, <1>7, IdleInv

-----------------------------------------------------------------------------
(* Strings *)

\* A string refers to nothing, so it adds only itself to what is reachable.
LEMMA StringReach ==
  ASSUME TypeOK, UNCHANGED <<content, inside>>, NEW s \in Strings,
         NEW base \in SUBSET Objects, base \subseteq Live \cup {s}
  PROVE  Reach(base, refs') \subseteq Live \cup {s}
<1>1. refs' = refs
  BY RefsKept
<1>2. Live \subseteq Objects /\ \A o \in Live : refs[o] \subseteq Live
  BY LiveProperties
<1>3. s \in Objects /\ refs[s] = {}
  BY OneType DEF refs
<1> DEFINE S == Live \cup {s}
<1>4. S \in SUBSET Objects /\ Closed(S, refs)
  BY <1>2, <1>3 DEF Closed
<1>5. base \subseteq S
  OBVIOUS
<1> HIDE DEF S
<1>6. Reach(base, refs') \subseteq S
  BY <1>1, <1>4, <1>5, ReachLeast
<1> QED
  BY <1>6 DEF S

\* The operations that make a string, and what they need to finish.
StringOps == {"string", "concatenate", "constant", "mj_set_global"}

Ready(c) ==
  /\ c \in Calls /\ c.op \in StringOps /\ c.key \in Strings
  /\ c.op = "mj_set_global" => stack # <<>> /\ c.on = Globals
  /\ c.op = "constant" => chain # <<>>

\* The string is interned, then pushed, or held as a constant or as a name.
LEMMA FinishInv ==
  ASSUME IndInv, NEW c, Ready(c), Finish(c, stack),
         UNCHANGED <<content, inside, chain>>,
         objects' \subseteq Objects, Live \cup {c.key} \subseteq objects',
         objects' \cap Strings \subseteq interned', c.key \in interned',
         interned \subseteq interned', interned' \subseteq interned \cup {c.key}
  PROVE  IndInv'
<1> DEFINE s == c.key
<1>1. /\ s \in Strings /\ s \in Objects /\ s \in Values /\ s # Nil
      /\ c.on \in Tables \cup Strings \cup {Globals}
      /\ c.op \in Ops /\ c.value \in Values /\ c.rest \in Seq(Values)
  BY OneType DEF Ready, Calls, Values
<1>2. Entries(Globals)' = Entries(Globals) /\ Entries(Globals)' \subseteq Live
  BY RefsKept, LiveProperties DEF IndInv, Base
<1>3. /\ stack \in Seq(Values) /\ interned' \subseteq Strings
      /\ Items(stack) \ {Nil} \subseteq Live /\ Items(chain) \ {Nil} \subseteq Live
      /\ interned \subseteq Live
  BY <1>1, LiveProperties DEF IndInv, TypeOK, Base
<1>4. ASSUME Items(stack') \subseteq Items(stack) \cup {s}
      PROVE  Base' \subseteq Live \cup {s}
  BY <1>2, <1>3, <1>4 DEF Base
<1>5. ASSUME Base' \subseteq Live \cup {s}, TypeOK'
      PROVE  LiveAllocated'
  <2>1. Base' \subseteq Objects
    BY <1>1, <1>5, LiveProperties DEF IndInv
  <2>2. Reach(Base', refs') \subseteq Live \cup {s}
    BY <1>1, <1>5, <2>1, StringReach DEF IndInv
  <2> QED
    BY <2>2 DEF LiveAllocated, Live
<1>6. ASSUME stack' \in Seq(Values), pc' \in {"idle", "constant", "grow"}, call' \in Calls
      PROVE  TypeOK'
  BY <1>3, <1>6 DEF IndInv, TypeOK, Calls
<1>7. CASE c.op \in {"string", "concatenate"}
  <2>1. stack' = Append(stack, s) /\ pc' = "idle" /\ call' = NoCall
    BY <1>7 DEF Finish
  <2>2. stack' \in Seq(Values) /\ Items(stack') = Items(stack) \cup {s}
    BY <1>1, <1>3, <2>1, AppendItems
  <2>3. TypeOK'
    BY <1>6, <2>1, <2>2, NoCallType
  <2>4. LiveAllocated'
    BY <1>4, <1>5, <2>2, <2>3
  <2> QED
    BY <2>1, <2>3, <2>4, IdleInv
<1>8. CASE c.op = "constant"
  <2>1. stack' = stack /\ pc' = "constant" /\ call' = [c EXCEPT !.value = s]
    BY <1>8 DEF Finish
  <2>2. call' \in Calls /\ call'.op = "constant" /\ call'.value = s
    BY <1>1, <1>8, <2>1 DEF Ready, Calls
  <2>3. TypeOK'
    BY <1>3, <1>6, <2>1, <2>2
  <2>4. LiveAllocated'
    BY <1>4, <1>5, <2>1, <2>3
  <2>5. Held' \subseteq Base'
    <3>1. Held' = Objects \cap {s}
      BY <2>1, <2>2 DEF Held
    <3> QED
      BY <3>1 DEF Base
  <2>6. CallInv'
    BY <1>1, <1>8, <2>1, <2>2 DEF CallInv, Ready
  <2>7. HeldReach' /\ HeldRooted'
    BY <2>4, <2>5, RootedReach DEF HeldRooted
  <2>8. StringsInterned'
    BY DEF StringsInterned
  <2> QED
    BY <2>3, <2>4, <2>6, <2>7, <2>8 DEF IndInv
<1>9. CASE c.op = "mj_set_global"
  <2> DEFINE top == stack[Len(stack)]
             left == SubSeq(stack, 1, Len(stack) - 1)
  <2>1. /\ stack' = left /\ pc' = "grow"
        /\ call' = [c EXCEPT !.value = top, !.rest = stack']
    BY <1>9 DEF Finish
  <2>2. /\ left \in Seq(Values) /\ Items(left) \subseteq Items(stack)
        /\ top \in Items(stack) /\ top \in Values
    BY <1>9, TopOfStack DEF Ready, Popped, Top, IndInv
  <2>3. /\ call' \in Calls /\ call'.op = "mj_set_global" /\ call'.key = s
        /\ call'.on = Globals /\ call'.value = top /\ call'.rest = stack'
    BY <1>1, <1>9, <2>1, <2>2 DEF Ready, Calls
  <2> HIDE DEF top, left
  <2>4. TypeOK'
    BY <1>6, <2>1, <2>2, <2>3
  <2>5. Base' \subseteq Live \cup {s}
    BY <1>4, <2>1, <2>2
  <2>6. LiveAllocated'
    BY <1>5, <2>4, <2>5
  <2>7. Held' \subseteq Live \cup {s}
    <3>1. Held' = Objects \cap {Globals, s, top}
      BY <2>1, <2>3 DEF Held
    <3> QED
      BY <1>3, <2>2, <3>1, OneType
  <2>8. HeldReach'
    <3>1. Base' \cup Held' \subseteq Live \cup {s} /\ Base' \cup Held' \in SUBSET Objects
      BY <1>1, <2>5, <2>7, LiveProperties DEF IndInv
    <3>2. Reach(Base' \cup Held', refs') \subseteq Live \cup {s}
      BY <1>1, <3>1, StringReach DEF IndInv
    <3> QED
      BY <3>2 DEF HeldReach
  <2>9. CallInv'
    BY <1>1, <2>1, <2>3 DEF CallInv
  <2>10. HeldRooted'
    BY <2>3 DEF HeldRooted, PopsFirst
  <2>11. StringsInterned'
    BY DEF StringsInterned
  <2> QED
    BY <2>4, <2>6, <2>8, <2>9, <2>10, <2>11 DEF IndInv
<1> QED
  BY <1>7, <1>8, <1>9 DEF Ready, StringOps

\* Making a string: it is interned already, or is a new object.
LEMMA MakeStringInv ==
  ASSUME IndInv, NEW c, Ready(c), pc # "intern", MakeString(c)
  PROVE  IndInv'
<1> DEFINE s == c.key
<1>1. s \in Strings /\ s \in Objects /\ s # Nil /\ c \in Calls /\ c.op \in Ops
  BY OneType DEF Ready, Calls, Values
<1>2. UNCHANGED <<content, inside, interned, chain>>
  BY DEF MakeString
<1>3. CASE s \in interned
  <2>1. objects' = objects /\ Finish(c, stack)
    BY <1>3 DEF MakeString
  <2>2. Live \cup {s} \subseteq objects'
    BY <1>3, <2>1, LiveProperties DEF IndInv, LiveAllocated, Base
  <2>3. objects' \cap Strings \subseteq interned'
    BY <1>2, <2>1 DEF IndInv, StringsInterned
  <2>4. objects' \subseteq Objects
    BY <2>1 DEF IndInv, TypeOK
  <2> QED
    BY <1>2, <1>3, <2>1, <2>2, <2>3, <2>4, FinishInv
<1>4. CASE s \notin interned
  <2>1. PICK h \in Survivors({}) : objects' = h \cup {s}
    BY <1>4 DEF MakeString
  <2>2. pc' = "intern" /\ call' = c /\ stack' = stack
    BY <1>4 DEF MakeString
  <2>3. h \subseteq objects /\ Live \subseteq h
    BY Survive DEF IndInv
  <2>4. TypeOK'
    BY <1>1, <1>2, <2>1, <2>2, <2>3 DEF IndInv, TypeOK, Calls
  <2>5. Base' \subseteq Live
    <3>1. Entries(Globals)' = Entries(Globals)
      BY <1>2, RefsKept
    <3> QED
      BY <1>2, <2>2, <3>1, LiveProperties DEF IndInv, Base
  <2>6. LiveAllocated'
    BY <1>2, <2>1, <2>3, <2>5, LiveKept DEF IndInv, LiveAllocated
  <2>7. HeldReach'
    <3>1. Held' = {s}
      BY <1>1, <2>2 DEF Held
    <3>2. Base' \cup Held' \subseteq Live \cup {s} /\ Base' \cup Held' \in SUBSET Objects
      BY <1>1, <2>5, <3>1, LiveProperties DEF IndInv
    <3>3. Reach(Base' \cup Held', refs') \subseteq Live \cup {s}
      BY <1>1, <1>2, <3>2, StringReach DEF IndInv
    <3> QED
      BY <2>1, <2>3, <3>3 DEF HeldReach
  <2>8. CallInv'
    BY <1>1, <1>2, <2>1, <2>2 DEF CallInv, Ready, StringOps
  <2>9. HeldRooted'
    BY <2>2 DEF HeldRooted
  <2>10. StringsInterned'
    BY <1>2, <2>1, <2>2, <2>3 DEF IndInv, StringsInterned
  <2> QED
    BY <2>4, <2>6, <2>7, <2>8, <2>9, <2>10 DEF IndInv
<1> QED
  BY <1>3, <1>4

LEMMA PushStringInv ==
  ASSUME IndInv, NEW s \in Strings, PushString(s)
  PROVE  IndInv'
<1> DEFINE c == [NoCall EXCEPT !.op = IF chain = <<>> THEN "string" ELSE "constant", !.key = s]
<1>1. pc = "idle" /\ MakeString(c)
  BY DEF PushString, Running, Compiling
<1>2. c \in Calls /\ c.key = s /\ c.op = IF chain = <<>> THEN "string" ELSE "constant"
  BY NoCallType DEF NoCall, Calls, Ops
<1> HIDE DEF c
<1>3. Ready(c)
  BY <1>2 DEF Ready, StringOps
<1> QED
  BY <1>1, <1>3, MakeStringInv

LEMMA HostSetGlobalInv ==
  ASSUME IndInv, NEW s \in Strings, HostSetGlobal(s)
  PROVE  IndInv'
<1> DEFINE c == [NoCall EXCEPT !.op = "mj_set_global", !.key = s]
<1>1. pc = "idle" /\ MakeString(c) /\ stack # <<>>
  BY DEF HostSetGlobal, Running
<1>2. c \in Calls /\ c.key = s /\ c.op = "mj_set_global" /\ c.on = Globals
  BY NoCallType DEF NoCall, Calls, Ops
<1> HIDE DEF c
<1>3. Ready(c)
  BY <1>1, <1>2 DEF Ready, StringOps
<1> QED
  BY <1>1, <1>3, MakeStringInv

LEMMA TakeStringInv ==
  ASSUME IndInv, TakeString
  PROVE  IndInv'
<1>1. pc = "copy" /\ MakeString(call)
  BY DEF TakeString
<1>2. Ready(call)
  BY <1>1 DEF IndInv, CallInv, Ready, StringOps
<1> QED
  BY <1>1, <1>2, MakeStringInv

LEMMA InternInv ==
  ASSUME IndInv, Intern
  PROVE  IndInv'
<1> DEFINE s == call.key
<1>1. /\ pc = "intern" /\ Intact /\ objects' \in Survivors({s})
      /\ interned' = interned \cup {s} /\ Finish(call, stack)
      /\ UNCHANGED <<content, inside, chain>>
  BY DEF Intern
<1>2. Ready(call) /\ s \in objects /\ s \in Strings /\ s \in Objects
  BY <1>1, OneType DEF IndInv, CallInv, Ready, StringOps
<1>3. objects' \subseteq objects /\ Live \subseteq objects' /\ s \in objects'
  BY <1>1, <1>2, Survive DEF IndInv
<1>4. objects' \cap Strings \subseteq interned'
  BY <1>1, <1>3 DEF IndInv, StringsInterned
<1> QED
  BY <1>1, <1>2, <1>3, <1>4, FinishInv DEF IndInv, TypeOK

\* The operands are strings, so they are interned: popping them frees nothing.
LEMMA ConcatenateInv ==
  ASSUME IndInv, NEW s \in Strings, Concatenate(s)
  PROVE  IndInv'
<1> USE DEF Concatenate, Running
<1> DEFINE left == Below(1)
<1>1. stack # <<>> /\ Len(stack) \in Nat
  BY EmptySeq, LenProperties DEF IndInv, TypeOK
<1>2. Top \in Items(stack) /\ left \in Items(stack)
  BY <1>1, TopOfStack, StackTop DEF IndInv
<1>3. Top \in interned /\ left \in interned /\ Top \in Values /\ left \in Values
  BY <1>2, OnStack
<1>4. stack' \in Seq(Values) /\ Items(stack') \subseteq Items(stack)
  BY <1>1, StackTop DEF IndInv
<1>5. /\ call' \in Calls /\ call'.op = "concatenate" /\ call'.key = s
      /\ call'.on = left /\ call'.value = Top /\ call'.rest = <<>>
  BY <1>3, EmptySeq DEF Calls, Ops
<1> HIDE DEF left
<1>6. TypeOK'
  BY <1>4, <1>5 DEF IndInv, TypeOK, Calls
<1>7. Base' \subseteq Live
  <2>1. Entries(Globals)' = Entries(Globals)
    BY RefsKept
  <2> QED
    BY <1>4, <2>1, LiveProperties DEF IndInv, Base
<1>8. LiveAllocated'
  BY <1>7, LiveKept DEF IndInv, LiveAllocated
<1>9. Held' \subseteq Base'
  <2>1. Held' = Objects \cap {left, Top}
    BY <1>5 DEF Held
  <2> QED
    BY <2>1, <1>3 DEF Base
<1>10. CallInv'
  BY <1>5 DEF CallInv
<1>11. HeldReach' /\ HeldRooted'
  BY <1>8, <1>9, RootedReach DEF HeldRooted
<1>12. StringsInterned'
  BY DEF IndInv, StringsInterned
<1> QED
  BY <1>6, <1>8, <1>10, <1>11, <1>12 DEF IndInv

\* An allocation in the middle of an operation, which keeps its C variables.
LEMMA AllocationInv ==
  ASSUME IndInv, NEW extra \in SUBSET Objects, objects' \in Survivors(extra),
         UNCHANGED <<stack, content, inside, interned, chain, call>>,
         \/ pc = "chars" /\ pc' = "copy"
         \/ pc = "grow" /\ pc' = "store"
         \/ pc = "constant" /\ pc' = "append"
  PROVE  IndInv'
<1>1. objects' \subseteq objects
  BY Survive DEF IndInv
<1>2. TypeOK'
  BY <1>1 DEF IndInv, TypeOK
<1>3. refs' = refs /\ Base' = Base
  BY RefsKept DEF Base
<1>4. LiveAllocated'
  BY <1>3, Collected, LiveProperties DEF IndInv
<1>5. Held' = Held
  BY DEF Held
<1>6. CallInv'
  BY DEF IndInv, CallInv
<1>7. HeldReach'
  <2>1. ASSUME Held \subseteq objects'
        PROVE  Reach(Base \cup Held, refs) \subseteq objects'
    <3>1. Held \in SUBSET Objects
      BY BaseType DEF IndInv
    <3>2. Reach(Base \cup Held, refs) \subseteq objects
      BY <1>1, <2>1 DEF IndInv, HeldReach, Intact
    <3> QED
      BY <2>1, <3>1, <3>2, Survive DEF IndInv
  <2> QED
    BY <1>3, <1>5, <2>1 DEF HeldReach, Intact
<1>8. HeldRooted'
  BY <1>3, <1>5 DEF IndInv, HeldRooted
<1>9. StringsInterned'
  BY <1>1 DEF IndInv, StringsInterned
<1> QED
  BY <1>2, <1>4, <1>6, <1>7, <1>8, <1>9 DEF IndInv

LEMMA AllocateCharsInv ==
  ASSUME IndInv, AllocateChars
  PROVE  IndInv'
BY AllocationInv DEF AllocateChars

-----------------------------------------------------------------------------
(* Storing into tables *)

\* A store begins with live operands, rooted still unless it pops them first.
LEMMA BeginInv ==
  ASSUME IndInv, pc = "idle", NEW op \in Ops, NEW on \in Tables \cup {Globals},
         NEW key \in Strings, NEW value \in Values,
         NEW now \in Seq(Values), NEW after \in Seq(Values),
         Items(now) \subseteq Items(stack),
         Items(after) \subseteq Items(now) \cup {value, Nil},
         {on, key, value} \cap Objects \subseteq Live,
         op \notin PopsFirst =>
           {on, key, value} \cap Objects \subseteq Items(now) \cup interned,
         Begin(op, on, key, value, now, after)
  PROVE  IndInv'
<1> USE DEF Begin
<1>1. /\ call' \in Calls /\ call'.op = op /\ call'.on = on /\ call'.key = key
      /\ call'.value = value /\ call'.rest = after
  BY DEF Calls
<1>2. TypeOK'
  BY <1>1 DEF IndInv, TypeOK, Calls
<1>3. Base' \subseteq Live
  <2>1. Entries(Globals)' = Entries(Globals)
    BY RefsKept
  <2> QED
    BY <2>1, LiveProperties DEF IndInv, Base
<1>4. LiveAllocated'
  BY <1>3, LiveKept DEF IndInv, LiveAllocated
<1>5. Held' = {on, key, value} \cap Objects
  BY <1>1 DEF Held
<1>6. HeldReach'
  <2>1. refs' = refs /\ refs \in [Objects -> SUBSET Objects] /\ Base \in SUBSET Objects
    BY RefsKept, RefsType, BaseType DEF IndInv
  <2>2. Base' \cup Held' \subseteq Reach(Base, refs) /\ Base' \cup Held' \in SUBSET Objects
    BY <1>3, <1>5, LiveProperties DEF IndInv, Live
  <2>3. Reach(Base' \cup Held', refs) \subseteq Live
    BY <2>1, <2>2, ReachMore DEF Live
  <2> QED
    BY <2>1, <2>3 DEF HeldReach, IndInv, LiveAllocated
<1>7. HeldRooted'
  BY <1>1, <1>5, OneType DEF HeldRooted, Base
<1>8. CallInv'
  BY <1>1 DEF CallInv
<1>9. StringsInterned'
  BY DEF IndInv, StringsInterned
<1> QED
  BY <1>2, <1>4, <1>6, <1>7, <1>8, <1>9 DEF IndInv

\* A stack whose top value was moved below what was popped.
LEMMA Moved ==
  ASSUME IndInv, stack # <<>>, NEW n \in Nat, n <= Len(stack)
  PROVE  /\ Append(Popped(n), Top) \in Seq(Values)
         /\ Items(Append(Popped(n), Top)) = Items(Popped(n)) \cup {Top}
BY TopOfStack, StackTop, AppendItems DEF IndInv

LEMMA DefineGlobalInv ==
  ASSUME IndInv, NEW k \in Strings, DefineGlobal(k)
  PROVE  IndInv'
<1>1. /\ pc = "idle" /\ k \in interned /\ stack # <<>>
      /\ Begin("define_global", Globals, k, Top, stack, Popped(1))
  BY DEF DefineGlobal, Running
<1>2. /\ Top \in Items(stack) /\ Top \in Values /\ stack \in Seq(Values)
      /\ Popped(1) \in Seq(Values) /\ Items(Popped(1)) \subseteq Items(stack)
  BY <1>1, TopOfStack DEF IndInv, TypeOK
<1>3. k \in Live /\ (Top # Nil => Top \in Live)
  BY <1>1, <1>2, OnStack, LiveProperties DEF IndInv, Base
<1>4. {Globals, k, Top} \cap Objects \subseteq Live \cap (Items(stack) \cup interned)
  BY <1>1, <1>2, <1>3, OneType
<1>5. "define_global" \in Ops
  BY DEF Ops
<1> HIDE DEF Top, Popped
<1>6. /\ Items(Popped(1)) \subseteq Items(stack) \cup {Top, Nil}
      /\ {Globals, k, Top} \cap Objects \subseteq Live
      /\ {Globals, k, Top} \cap Objects \subseteq Items(stack) \cup interned
      /\ Items(stack) \subseteq Items(stack) /\ Globals \in Tables \cup {Globals}
  BY <1>2, <1>4
<1> QED
  BY <1>1, <1>2, <1>5, <1>6, BeginInv

LEMMA SetPropertyInv ==
  ASSUME IndInv, NEW k \in Strings, SetProperty(k)
  PROVE  IndInv'
<1> DEFINE table == Below(1)
           after == Append(Popped(2), Top)
<1>1. /\ pc = "idle" /\ k \in interned /\ Len(stack) >= 2 /\ table \in Tables
      /\ Begin("set_property", table, k, Top, stack, after)
  BY DEF SetProperty, Running
<1>2. stack \in Seq(Values) /\ stack # <<>> /\ Len(stack) \in Nat
  BY <1>1, EmptySeq, LenProperties DEF IndInv, TypeOK
<1>3. /\ Top \in Items(stack) /\ Top \in Values /\ table \in Items(stack)
      /\ Items(Popped(2)) \subseteq Items(stack)
  BY <1>1, <1>2, TopOfStack, StackTop DEF IndInv
<1>4. after \in Seq(Values) /\ Items(after) = Items(Popped(2)) \cup {Top}
  BY <1>1, <1>2, Moved
<1>5. k \in Live /\ (Top # Nil => Top \in Live) /\ table \in Live
  BY <1>1, <1>3, OnStack, OneType, LiveProperties DEF IndInv, Base
<1>6. "set_property" \in Ops
  BY DEF Ops
<1> HIDE DEF after, table
<1>7. /\ Items(after) \subseteq Items(stack) \cup {Top, Nil}
      /\ {table, k, Top} \cap Objects \subseteq Live
      /\ {table, k, Top} \cap Objects \subseteq Items(stack) \cup interned
      /\ Items(stack) \subseteq Items(stack) /\ table \in Tables \cup {Globals}
  BY <1>1, <1>3, <1>4, <1>5, OneType
<1> QED
  BY <1>1, <1>2, <1>3, <1>4, <1>6, <1>7, BeginInv

LEMMA SetIndexInv ==
  ASSUME IndInv, SetIndex
  PROVE  IndInv'
<1> DEFINE key == Below(1)
           table == Below(2)
           now == Popped(3)
           after == Append(Popped(3), Top)
<1>1. /\ pc = "idle" /\ Len(stack) >= 3 /\ key \in Strings /\ table \in Tables
      /\ Begin("set_index", table, key, Top, now, after)
  BY DEF SetIndex, Running
<1>2. stack \in Seq(Values) /\ stack # <<>> /\ Len(stack) \in Nat
  BY <1>1, EmptySeq, LenProperties DEF IndInv, TypeOK
<1>3. /\ Top \in Items(stack) /\ Top \in Values
      /\ key \in Items(stack) /\ table \in Items(stack)
      /\ now \in Seq(Values) /\ Items(now) \subseteq Items(stack)
  BY <1>1, <1>2, TopOfStack, StackTop DEF IndInv
<1>4. after \in Seq(Values) /\ Items(after) = Items(now) \cup {Top}
  BY <1>1, <1>2, Moved
<1>5. (Top # Nil => Top \in Live) /\ key \in Live /\ table \in Live
  BY <1>1, <1>3, OnStack, OneType
<1>6. "set_index" \in Ops /\ "set_index" \in PopsFirst
  BY DEF Ops, PopsFirst
<1> HIDE DEF key, table, now, after
<1>7. /\ Items(after) \subseteq Items(now) \cup {Top, Nil}
      /\ {table, key, Top} \cap Objects \subseteq Live
      /\ table \in Tables \cup {Globals}
  BY <1>1, <1>3, <1>4, <1>5, OneType
<1> QED
  BY <1>1, <1>3, <1>4, <1>6, <1>7, BeginInv

LEMMA HostSetTableInv ==
  ASSUME IndInv, NEW i \in 1 .. MaxStack, HostSetTable(i)
  PROVE  IndInv'
<1> DEFINE key == Below(1)
           table == stack[i]
           now == Popped(2)
<1>1. /\ pc = "idle" /\ i <= Len(stack) - 2 /\ key \in Strings /\ table \in Tables
      /\ Begin("mj_set_table", table, key, Top, now, now)
  BY DEF HostSetTable, Running
<1>2. stack \in Seq(Values) /\ Len(stack) \in Nat /\ i \in 1 .. Len(stack) /\ Len(stack) >= 2
  BY <1>1, LenProperties, RootingAssumption DEF IndInv, TypeOK
<1>3. stack # <<>>
  BY <1>2, EmptySeq
<1>4. /\ Top \in Items(stack) /\ Top \in Values /\ key \in Items(stack)
      /\ now \in Seq(Values) /\ Items(now) \subseteq Items(stack)
  BY <1>2, <1>3, TopOfStack, StackTop DEF IndInv
<1>5. table \in Items(stack)
  BY <1>2 DEF Items
<1>6. (Top # Nil => Top \in Live) /\ key \in Live /\ table \in Live
  BY <1>1, <1>4, <1>5, OnStack, OneType
<1>7. "mj_set_table" \in Ops /\ "mj_set_table" \in PopsFirst
  BY DEF Ops, PopsFirst
<1> HIDE DEF key, table, now
<1>8. /\ Items(now) \subseteq Items(now) \cup {Top, Nil}
      /\ {table, key, Top} \cap Objects \subseteq Live
      /\ table \in Tables \cup {Globals}
  BY <1>1, <1>4, <1>6, OneType
<1> QED
  BY <1>1, <1>4, <1>7, <1>8, BeginInv

LEMMA GrowInv ==
  ASSUME IndInv, Grow
  PROVE  IndInv'
<1>1. Protected \in SUBSET Objects
  BY EntriesType, OneType DEF Grow, Protected, IndInv, CallInv
<1> QED
  BY <1>1, AllocationInv DEF Grow

\* What a store makes reachable was held or reachable before.
LEMMA StoredLive ==
  ASSUME TypeOK, HeldReach, Intact, Base' \subseteq Base \cup Held,
         \A o \in Objects : refs'[o] \subseteq refs[o] \cup Held
  PROVE  Live' \subseteq objects
<1> DEFINE S == Reach(Base \cup Held, refs)
<1>1. Base \cup Held \in SUBSET Objects /\ refs \in [Objects -> SUBSET Objects]
  BY BaseType, RefsType
<1>2. /\ S \subseteq Objects /\ Base \cup Held \subseteq S
      /\ \A o \in S : refs[o] \subseteq S
  BY <1>1, ReachClosed DEF Closed
<1>3. S \subseteq objects
  BY DEF HeldReach
<1> HIDE DEF S
<1>4. \A o \in S : refs'[o] \subseteq S
  BY <1>2
<1>5. Live' \subseteq S
  BY <1>2, <1>4, LiveBound
<1> QED
  BY <1>3, <1>5

LEMMA StoreInv ==
  ASSUME IndInv, Store
  PROVE  IndInv'
<1> USE DEF Store
<1>1. /\ call.key \in Strings /\ call.on \in Tables \cup {Globals} /\ call.value \in Values
      /\ Items(call.rest) \subseteq Items(stack) \cup {call.value, Nil}
      /\ call.rest \in Seq(Values)
  BY DEF IndInv, CallInv, TypeOK
<1>2. Held = Objects \cap {call.on, call.key, call.value}
  BY DEF Held
<1>3. call.key \in Held /\ (call.value # Nil => call.value \in Held) /\ call.value # Absent
  BY <1>1, <1>2, OneType DEF Values
<1>4. content' \in [Tables \cup {Globals} -> [Strings -> Values \cup {Absent}]]
  BY <1>1 DEF IndInv, TypeOK
<1>5. /\ pc' = "idle" /\ call' = NoCall /\ stack' = call.rest
      /\ UNCHANGED <<objects, inside, interned, chain>>
  OBVIOUS
<1>6. TypeOK'
  <2>1. call' \in Calls
    BY NoCallType
  <2> QED
    BY <1>1, <1>4, <1>5, <2>1 DEF IndInv, TypeOK, Calls
<1>7. \A t \in Tables \cup {Globals}, k \in Strings :
        content'[t][k] = content[t][k]
          \/ (t = call.on /\ k = call.key /\ content'[t][k] = call.value)
  <2>1. content \in [Tables \cup {Globals} -> [Strings -> Values \cup {Absent}]]
    BY DEF IndInv, TypeOK
  <2>2. content' = [content EXCEPT ![call.on] = [content[call.on] EXCEPT ![call.key] = call.value]]
    OBVIOUS
  <2>3. \A t \in Tables \cup {Globals} :
          content'[t] = IF t = call.on THEN [content[call.on] EXCEPT ![call.key] = call.value]
                                       ELSE content[t]
    BY <1>1, <2>1, <2>2
  <2>4. content[call.on] \in [Strings -> Values \cup {Absent}]
    BY <1>1, <2>1
  <2>5. \A k \in Strings :
          [content[call.on] EXCEPT ![call.key] = call.value][k] =
            IF k = call.key THEN call.value ELSE content[call.on][k]
    BY <2>4
  <2> QED
    BY <2>3, <2>5
<1>8. \A t \in Tables \cup {Globals} : Entries(t)' \subseteq Entries(t) \cup Held
  BY <1>3, <1>7 DEF Entries
<1>9. Base' \subseteq Base \cup Held
  BY <1>1, <1>3, <1>5, <1>8 DEF Base
<1>10. \A o \in Objects : refs'[o] \subseteq refs[o] \cup Held
  BY <1>8 DEF refs
<1>11. LiveAllocated'
  BY <1>5, <1>9, <1>10, StoredLive DEF IndInv, LiveAllocated
<1>12. objects' \cap Strings \subseteq interned'
  BY DEF IndInv, StringsInterned
<1> QED
  BY <1>5, <1>6, <1>11, <1>12, IdleInv

-----------------------------------------------------------------------------
(* The compiler *)

\* The innermost function and the ones around it.
LEMMA ChainParts ==
  ASSUME TypeOK, chain # <<>>
  PROVE  /\ Head(chain) \in Functions /\ Head(chain) \in Items(chain)
         /\ Tail(chain) \in Seq(Functions) /\ Items(Tail(chain)) \subseteq Items(chain)
         /\ Len(chain) > 1 => Tail(chain) # <<>>
<1>1. /\ chain \in Seq(Functions) /\ Len(chain) \in Nat \ {0}
      /\ \A i \in 1 .. Len(chain) : chain[i] \in Functions
  BY EmptySeq, LenProperties, ElementOfSeq DEF TypeOK
<1>2. Head(chain) = chain[1]
  BY <1>1, HeadTailProperties
<1>3. /\ Tail(chain) \in Seq(Functions) /\ Len(Tail(chain)) = Len(chain) - 1
      /\ \A i \in 1 .. Len(Tail(chain)) : Tail(chain)[i] = chain[i + 1]
  BY <1>1, HeadTailProperties
<1> DEFINE inner == Tail(chain)
<1>4. inner \in Seq(Functions) /\ Len(inner) = Len(chain) - 1
  BY <1>3
<1> HIDE DEF inner
<1>5. Len(chain) > 1 => inner # <<>>
  BY <1>1, <1>4, EmptySeq
<1> USE DEF inner
<1> QED
  BY <1>1, <1>2, <1>3, <1>5 DEF Items

LEMMA BeginFunctionInv ==
  ASSUME IndInv, NEW f \in Functions, BeginFunction(f)
  PROVE  IndInv'
<1> USE DEF BeginFunction
<1> PICK h \in Survivors({}) : f \notin h /\ objects' = h \cup {f}
  OBVIOUS
<1>1. f \in Objects /\ f \notin Strings /\ f \notin Tables
  BY OneType
<1>2. h \subseteq objects /\ Live \subseteq h
  BY Survive DEF IndInv
<1>3. chain' \in Seq(Functions) /\ Items(chain') = Items(chain) \cup {f}
  <2>1. chain \in Seq(Functions) /\ Len(chain) \in Nat
    BY LenProperties DEF IndInv, TypeOK
  <2>2. /\ chain' \in Seq(Functions) /\ Len(chain') = Len(chain) + 1 /\ chain'[1] = f
        /\ \A i \in 2 .. Len(chain) + 1 : chain'[i] = chain[i - 1]
    BY <2>1
  <2>3. \A i \in 1 .. Len(chain) : i + 1 \in 1 .. Len(chain') /\ chain'[i + 1] = chain[i]
    BY <2>1, <2>2
  <2>4. Items(chain) \cup {f} \subseteq Items(chain')
    BY <2>1, <2>2, <2>3 DEF Items
  <2>5. Items(chain') \subseteq Items(chain) \cup {f}
    <3>1. \A i \in 1 .. Len(chain') : i = 1 \/ (i - 1 \in 1 .. Len(chain) /\ chain'[i] = chain[i - 1])
      BY <2>1, <2>2
    <3> QED
      BY <2>2, <3>1 DEF Items
  <2> QED
    BY <2>2, <2>4, <2>5
<1>4. inside' \in [Functions \cup Blobs -> SUBSET Objects]
  BY DEF IndInv, TypeOK
<1>5. TypeOK'
  BY <1>1, <1>2, <1>3, <1>4 DEF IndInv, TypeOK
<1>6. \A o \in Tables \cup {Globals} : Entries(o)' = Entries(o)
  BY DEF Entries
<1>7. refs'[f] = {} /\ \A o \in Objects \ {f} : refs'[o] = refs[o]
  BY <1>1, <1>6 DEF refs, IndInv, TypeOK
<1>8. Base' \subseteq Live \cup {f}
  BY <1>3, <1>6, LiveProperties DEF IndInv, Base
<1>9. LiveAllocated'
  BY <1>1, <1>7, <1>8, NewObject, LiveProperties DEF IndInv
<1>10. objects' \cap Strings \subseteq interned'
  BY <1>1, <1>2 DEF IndInv, StringsInterned
<1>11. pc' = "idle" /\ call' = NoCall
  BY DEF IndInv, CallInv
<1> QED
  BY <1>5, <1>9, <1>10, <1>11, IdleInv

LEMMA EndFunctionInv ==
  ASSUME IndInv, EndFunction
  PROVE  IndInv'
<1> USE DEF EndFunction, Compiling
<1> DEFINE f == Head(chain)
<1>1. /\ f \in Functions /\ f \in Items(chain) /\ f \in Objects /\ f \in Values /\ f # Nil
      /\ chain' \in Seq(Functions) /\ Items(chain') \subseteq Items(chain)
      /\ Len(chain) > 1 => chain' # <<>>
  BY ChainParts, OneType DEF IndInv, Values
<1>2. /\ pc = "idle" /\ call = NoCall /\ chain # <<>>
      /\ UNCHANGED <<objects, content, inside, interned>>
  BY DEF IndInv, CallInv
<1>3. refs' = refs /\ Entries(Globals)' = Entries(Globals)
  BY <1>2, RefsKept
<1>4. Base \subseteq Live
  BY LiveProperties DEF IndInv
<1>5. CASE Len(chain) > 1
  <2>1. /\ call' = [NoCall EXCEPT !.op = "function", !.value = f]
        /\ pc' = "constant" /\ stack' = stack
    BY <1>5
  <2>2. /\ call' \in Calls /\ call'.op = "function" /\ call'.value = f
    BY <1>1, <2>1, NoCallType DEF NoCall, Calls, Ops
  <2> HIDE DEF f
  <2>3. TypeOK'
    BY <1>1, <1>2, <2>1, <2>2 DEF IndInv, TypeOK, Calls
  <2>4. Held' = {f}
    BY <1>1, <2>1, <2>2 DEF Held
  <2>5. Base' \cup Held' \subseteq Base
    BY <1>1, <1>2, <1>3, <2>1, <2>4 DEF Base
  <2>6. LiveAllocated'
    BY <1>2, <1>4, <2>5, LiveKept DEF IndInv, LiveAllocated
  <2>7. HeldReach'
    <3>1. Base' \cup Held' \subseteq Reach(Base, refs) /\ Base' \cup Held' \in SUBSET Objects
      BY <1>4, <2>5, BaseType DEF IndInv, Live
    <3>2. Reach(Base' \cup Held', refs) \subseteq Live
      BY <3>1, RefsType, BaseType, ReachMore DEF Live, IndInv
    <3> QED
      BY <1>2, <1>3, <3>2 DEF HeldReach, IndInv, LiveAllocated
  <2>8. CallInv'
    BY <1>1, <1>5, <2>1, <2>2 DEF CallInv
  <2>9. HeldRooted'
    BY <2>2 DEF HeldRooted, PopsFirst
  <2>10. StringsInterned'
    BY <1>2 DEF IndInv, StringsInterned
  <2> QED
    BY <2>3, <2>6, <2>7, <2>8, <2>9, <2>10 DEF IndInv
<1>6. CASE ~(Len(chain) > 1)
  <2>1. stack' = Append(stack, f) /\ pc' = "idle" /\ call' = NoCall
    BY <1>2, <1>6
  <2>2. stack' \in Seq(Values) /\ Items(stack') = Items(stack) \cup {f}
    BY <1>1, <2>1, AppendItems DEF IndInv, TypeOK
  <2>3. TypeOK'
    <3>1. call' \in Calls
      BY <2>1, NoCallType
    <3> QED
      BY <1>1, <1>2, <2>1, <2>2, <3>1 DEF IndInv, TypeOK, Calls
  <2>4. Base' \subseteq Live
    BY <1>1, <1>2, <1>3, <1>4, <2>2 DEF Base
  <2>5. LiveAllocated'
    BY <1>2, <2>4, LiveKept DEF IndInv, LiveAllocated
  <2>6. objects' \cap Strings \subseteq interned'
    BY <1>2 DEF IndInv, StringsInterned
  <2> QED
    BY <2>1, <2>3, <2>5, <2>6, IdleInv
<1> QED
  BY <1>5, <1>6

LEMMA GrowConstantsInv ==
  ASSUME IndInv, GrowConstants
  PROVE  IndInv'
BY AllocationInv DEF GrowConstants

LEMMA AddConstantInv ==
  ASSUME IndInv, AddConstant
  PROVE  IndInv'
<1> USE DEF AddConstant
<1>1. Head(chain) \in Functions /\ Head(chain) \in Objects
  BY ChainParts, OneType DEF IndInv, CallInv
<1>2. call.value \in Objects /\ Held = {call.value}
  BY DEF IndInv, CallInv, Held
<1>3. inside' \in [Functions \cup Blobs -> SUBSET Objects]
  BY <1>2 DEF IndInv, TypeOK
<1>4. TypeOK'
  <2>1. call' \in Calls
    BY NoCallType
  <2> QED
    BY <1>3, <2>1 DEF IndInv, TypeOK, Calls
<1>5. \A t \in Tables \cup {Globals} : Entries(t)' = Entries(t)
  BY DEF Entries
<1>6. Base' = Base
  BY <1>5 DEF Base
<1>7. \A o \in Functions \cup Blobs : inside'[o] \subseteq inside[o] \cup Held
  BY <1>1, <1>2 DEF IndInv, TypeOK
<1>8. \A o \in Objects : refs'[o] \subseteq refs[o] \cup Held
  BY <1>5, <1>7 DEF refs
<1>9. LiveAllocated'
  BY <1>6, <1>8, StoredLive DEF IndInv, LiveAllocated
<1>10. objects' \cap Strings \subseteq interned'
  BY DEF IndInv, StringsInterned
<1> QED
  BY <1>4, <1>9, <1>10, IdleInv

-----------------------------------------------------------------------------
(* Theorems *)

LEMMA NextInv ==
  ASSUME IndInv, [Next]_vars
  PROVE  IndInv'
<1>1. ASSUME NEW v \in Values, Push(v)
      PROVE  IndInv'
  BY <1>1, PushInv
<1>2. ASSUME NEW t \in Tables, NewTable(t)
      PROVE  IndInv'
  BY <1>2, NewTableInv
<1>3. ASSUME NEW f \in Functions, NEW c \in Blobs, NewClosure(f, c)
      PROVE  IndInv'
  BY <1>3, NewClosureInv
<1>4. ASSUME NEW b \in Blobs, NewUserdata(b)
      PROVE  IndInv'
  BY <1>4, NewUserdataInv
<1>5. ASSUME NEW s \in Strings, PushString(s) \/ Concatenate(s) \/ HostSetGlobal(s)
      PROVE  IndInv'
  BY <1>5, PushStringInv, ConcatenateInv, HostSetGlobalInv
<1>6. ASSUME NEW k \in Strings, DefineGlobal(k) \/ SetProperty(k)
      PROVE  IndInv'
  BY <1>6, DefineGlobalInv, SetPropertyInv
<1>7. ASSUME NEW i \in 1 .. MaxStack, HostSetTable(i)
      PROVE  IndInv'
  BY <1>7, HostSetTableInv
<1>8. ASSUME NEW f \in Functions, BeginFunction(f)
      PROVE  IndInv'
  BY <1>8, BeginFunctionInv
<1>9. CASE Pop \/ AllocateData \/ AllocateChars \/ TakeString \/ Intern
  BY <1>9, PopInv, AllocateDataInv, AllocateCharsInv, TakeStringInv, InternInv
<1>10. CASE SetIndex \/ Grow \/ Store
  BY <1>10, SetIndexInv, GrowInv, StoreInv
<1>11. CASE EndFunction \/ GrowConstants \/ AddConstant
  BY <1>11, EndFunctionInv, GrowConstantsInv, AddConstantInv
<1>12. CASE UNCHANGED vars
  <2> USE <1>12 DEF vars
  <2>1. refs' = refs /\ Base' = Base /\ Held' = Held
    BY RefsKept DEF Base, Held
  <2>2. TypeOK' /\ CallInv' /\ StringsInterned'
    BY DEF IndInv, TypeOK, CallInv, StringsInterned
  <2>3. LiveAllocated' /\ HeldReach' /\ HeldRooted'
    BY <2>1 DEF IndInv, LiveAllocated, HeldReach, HeldRooted, Live, Intact
  <2> QED
    BY <2>2, <2>3 DEF IndInv
<1> QED
  BY <1>1, <1>2, <1>3, <1>4, <1>5, <1>6, <1>7, <1>8, <1>9, <1>10, <1>11, <1>12 DEF Next

\* The inductive invariant holds always.
THEOREM RootingInv == Spec => []IndInv
BY InitInv, NextInv, PTL DEF Spec

\* The variables keep their types.
THEOREM RootingTypeOK == Spec => []TypeOK
<1>1. IndInv => TypeOK
  BY DEF IndInv
<1> QED
  BY <1>1, RootingInv, PTL

\* Nothing that the program can reach has been freed, between its operations
\* (what ReachableAllocated says) or during them.
THEOREM RootingReachableAllocated == Spec => []ReachableAllocated /\ [](Live \subseteq objects)
<1>1. IndInv => ReachableAllocated /\ Live \subseteq objects
  BY DEF IndInv, LiveAllocated, ReachableAllocated
<1> QED
  BY <1>1, RootingInv, PTL

\* No operation but OP_SET_INDEX, mj_set_global, mj_set_table and the end of an
\* inner function uses an object that one of its own allocations has freed.
THEOREM RootingHeldAllocated == Spec => []HeldAllocated
<1>1. ASSUME IndInv
      PROVE  HeldAllocated
  <2>1. CASE pc = "intern"
    <3>1. call.key \in objects
      BY <1>1, <2>1 DEF IndInv, CallInv
    <3> QED
      BY <2>1, <3>1 DEF HeldAllocated, Intact, Held
  <2>2. CASE pc # "intern"
    <3>1. Base \subseteq objects
      BY <1>1, LiveProperties DEF IndInv, LiveAllocated
    <3> QED
      BY <1>1, <2>2, <3>1 DEF IndInv, HeldRooted, HeldAllocated, Intact
  <2> QED
    BY <2>1, <2>2
<1> QED
  BY <1>1, RootingInv, PTL
=============================================================================
