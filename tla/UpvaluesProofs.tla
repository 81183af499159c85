--------------------------- MODULE UpvaluesProofs ---------------------------
(***************************************************************************)
(* Proofs about Upvalues, for any variables and values, any depth of calls *)
(* and any bounds: the list of open upvalues is sorted and complete, every *)
(* open upvalue points at the variable it was made for, and slots, open    *)
(* and closed upvalues together are variables that functions share:        *)
(* Upvalues implements Variables.                                          *)
(***************************************************************************)
EXTENDS Upvalues, SequenceTheorems, FiniteSetTheorems, WellFoundedInduction, TLAPS

-----------------------------------------------------------------------------
(* Lemmas about numbers and sequences *)

\* A nonempty set of naturals has a least element.
LEMMA LeastNatural ==
  ASSUME NEW S \in SUBSET Nat, S # {}
  PROVE  \E n \in S : \A m \in S : n <= m
<1> DEFINE T == {0 .. n : n \in S}
<1>1. T \subseteq FiniteSubsetsOf(Nat) /\ T # {}
  <2>1. \A n \in S : IsFiniteSet(0 .. n) /\ 0 .. n \subseteq Nat
    BY FS_Interval
  <2> QED
    BY <2>1 DEF FiniteSubsetsOf
<1>2. PICK t \in T : \A u \in T : ~ (<<u, t>> \in StrictSubsetOrdering(Nat))
  <2> HIDE DEF T
  <2>1. IsWellFoundedOn(StrictSubsetOrdering(Nat), FiniteSubsetsOf(Nat))
    BY FS_StrictSubsetOrderingWellFounded
  <2> QED
    BY <1>1, <2>1, WFMin, Zenon
<1>3. PICK n \in S : t = 0 .. n
  OBVIOUS
<1>4. ASSUME NEW m \in S, m < n
      PROVE  FALSE
  <2>1. n \in 0 .. n /\ n \notin 0 .. m /\ 0 .. m \subseteq 0 .. n
    BY <1>4
  <2>2. <<0 .. m, t>> \in StrictSubsetOrdering(Nat)
    BY <1>3, <2>1 DEF StrictSubsetOrdering
  <2> QED
    BY <1>2, <2>2
<1> QED
  BY <1>4

\* A search that goes on through the places in P stops behind the last place of a prefix.
LEMMA SearchStops ==
  ASSUME NEW len \in Nat, NEW P
  PROVE  \E n \in 0 .. len : (\A i \in 1 .. n : i \in P) /\ (n < len => n + 1 \notin P)
<1> DEFINE S == {n \in 0 .. len : n < len => n + 1 \notin P}
<1>1. S \in SUBSET Nat /\ len \in S
  OBVIOUS
<1>2. PICK n \in S : \A m \in S : n <= m
  <2> HIDE DEF S
  <2> QED
    BY <1>1, LeastNatural
<1>3. ASSUME NEW i \in 1 .. n
      PROVE  i \in P
  <2>1. i - 1 \notin S /\ i - 1 \in 0 .. len /\ i - 1 < len /\ (i - 1) + 1 = i
    BY <1>2
  <2> QED
    BY <2>1
<1> QED
  BY <1>2, <1>3

\* What Append does to a sequence.
LEMMA Appended ==
  ASSUME NEW S, NEW s \in Seq(S), NEW e \in S
  PROVE  /\ Append(s, e) \in Seq(S)
         /\ Len(Append(s, e)) = Len(s) + 1
         /\ \A i \in 1 .. Len(s) : Append(s, e)[i] = s[i]
         /\ Append(s, e)[Len(s) + 1] = e
OBVIOUS

\* What is left of a sequence whose end is cut off, or whose beginning.
LEMMA Cut ==
  ASSUME NEW S, NEW s \in Seq(S), NEW n \in 0 .. Len(s)
  PROVE  /\ SubSeq(s, 1, n) \in Seq(S)
         /\ Len(SubSeq(s, 1, n)) = n
         /\ \A i \in 1 .. n : SubSeq(s, 1, n)[i] = s[i]
         /\ SubSeq(s, n + 1, Len(s)) \in Seq(S)
         /\ Len(SubSeq(s, n + 1, Len(s))) = Len(s) - n
         /\ \A i \in 1 .. Len(s) - n : SubSeq(s, n + 1, Len(s))[i] = s[n + i]
<1>1. Len(s) \in Nat /\ \A i \in 1 .. Len(s) : s[i] \in S
  BY ElementOfSeq, LenProperties
<1>2. /\ SubSeq(s, 1, n) \in Seq(S)
      /\ Len(SubSeq(s, 1, n)) = IF 1 <= n THEN n - 1 + 1 ELSE 0
      /\ \A i \in 1 .. n - 1 + 1 : SubSeq(s, 1, n)[i] = s[1 + i - 1]
  BY <1>1, SubSeqProperties
<1>3. /\ SubSeq(s, n + 1, Len(s)) \in Seq(S)
      /\ Len(SubSeq(s, n + 1, Len(s))) =
           IF n + 1 <= Len(s) THEN Len(s) - (n + 1) + 1 ELSE 0
      /\ \A i \in 1 .. Len(s) - (n + 1) + 1 :
           SubSeq(s, n + 1, Len(s))[i] = s[(n + 1) + i - 1]
  BY <1>1, SubSeqProperties
<1> QED
  BY <1>1, <1>2, <1>3

\* s with e as its element n + 1.
InsertBehind(s, n, e) == SubSeq(s, 1, n) \o <<e>> \o SubSeq(s, n + 1, Len(s))

\* What inserting an element into a sequence gives.
LEMMA Insertion ==
  ASSUME NEW S, NEW s \in Seq(S), NEW n \in 0 .. Len(s), NEW e \in S
  PROVE  /\ InsertBehind(s, n, e) \in Seq(S)
         /\ Len(InsertBehind(s, n, e)) = Len(s) + 1
         /\ \A i \in 1 .. n : InsertBehind(s, n, e)[i] = s[i]
         /\ InsertBehind(s, n, e)[n + 1] = e
         /\ \A i \in n + 2 .. Len(s) + 1 : InsertBehind(s, n, e)[i] = s[i - 1]
<1> DEFINE left == SubSeq(s, 1, n)
           right == SubSeq(s, n + 1, Len(s))
           one == <<e>>
           front == left \o one
           t == front \o right
<1>1. /\ left \in Seq(S) /\ Len(left) = n
      /\ \A i \in 1 .. n : left[i] = s[i]
      /\ right \in Seq(S) /\ Len(right) = Len(s) - n
      /\ \A i \in 1 .. Len(s) - n : right[i] = s[n + i]
  BY Cut
<1>2. one \in Seq(S) /\ Len(one) = 1 /\ one[1] = e
  OBVIOUS
<1>3. Len(s) \in Nat
  BY LenProperties
<1> HIDE DEF left, right, one
<1>4. /\ front \in Seq(S) /\ Len(front) = n + 1
      /\ \A i \in 1 .. n + 1 : front[i] = IF i <= n THEN left[i] ELSE one[i - n]
  <2>1. /\ front \in Seq(S) /\ Len(front) = Len(left) + Len(one)
        /\ \A i \in 1 .. Len(left) + Len(one) :
             front[i] = IF i <= Len(left) THEN left[i] ELSE one[i - Len(left)]
    BY <1>1, <1>2, ConcatProperties
  <2> HIDE DEF front
  <2> QED
    BY <1>1, <1>2, <2>1
<1> HIDE DEF front
<1>5. (n + 1) + (Len(s) - n) = Len(s) + 1
  BY <1>3
<1>6. /\ t \in Seq(S) /\ Len(t) = Len(s) + 1
      /\ \A i \in 1 .. Len(s) + 1 :
           t[i] = IF i <= n + 1 THEN front[i] ELSE right[i - (n + 1)]
  <2>1. /\ t \in Seq(S) /\ Len(t) = Len(front) + Len(right)
        /\ \A i \in 1 .. Len(front) + Len(right) :
             t[i] = IF i <= Len(front) THEN front[i] ELSE right[i - Len(front)]
    <3>1. front \in Seq(S) /\ right \in Seq(S)
      BY <1>1, <1>4
    <3> QED
      BY <3>1, ConcatProperties
  <2> HIDE DEF t
  <2> QED
    BY <1>1, <1>4, <1>5, <2>1
<1> HIDE DEF t
<1>7. ASSUME NEW i \in 1 .. n
      PROVE  t[i] = s[i]
  <2>1. i \in 1 .. Len(s) + 1 /\ i \in 1 .. n + 1 /\ i <= n /\ i <= n + 1
    BY <1>3
  <2> QED
    BY <1>1, <1>4, <1>6, <2>1
<1>8. t[n + 1] = e
  <2>1. /\ n + 1 \in 1 .. Len(s) + 1 /\ n + 1 \in 1 .. n + 1
        /\ ~ (n + 1 <= n) /\ n + 1 <= n + 1 /\ (n + 1) - n = 1
    BY <1>3
  <2>2. t[n + 1] = front[n + 1]
    BY <1>6, <2>1
  <2>3. front[n + 1] = one[1]
    BY <1>4, <2>1
  <2> QED
    BY <1>2, <2>2, <2>3
<1>9. ASSUME NEW i \in n + 2 .. Len(s) + 1
      PROVE  t[i] = s[i - 1]
  <2>1. /\ i - (n + 1) \in 1 .. Len(s) - n /\ n + (i - (n + 1)) = i - 1
        /\ i \in 1 .. Len(s) + 1 /\ ~ (i <= n + 1)
    BY <1>3
  <2>2. t[i] = right[i - (n + 1)]
    BY <1>6, <2>1
  <2> QED
    BY <1>1, <2>1, <2>2
<1>10. InsertBehind(s, n, e) = t
  BY DEF InsertBehind, t, front, left, right, one
<1> QED
  BY <1>6, <1>7, <1>8, <1>9, <1>10

\* A function on 1 .. n is a sequence of length n.
LEMMA FunctionIsSeq ==
  ASSUME NEW S, NEW n \in Nat, NEW f \in [1 .. n -> S]
  PROVE  f \in Seq(S) /\ Len(f) = n
<1>1. f \in Seq(S)
  BY SeqDef
<1> QED
  BY <1>1, LenProperties

-----------------------------------------------------------------------------
(* The inductive invariant *)

\* Frames lie above one another, and the stack reaches the newest.
FramesStacked ==
  /\ frames # <<>> => Frame.slots <= Height
  /\ \A i, j \in 1 .. Len(frames) : i < j => frames[i].slots < frames[j].slots

\* What every action preserves: the searches of the list are right because it
\* is sorted, and it stays sorted because the searches are right.
IndInv ==
  /\ TypeOK
  /\ Height <= MaxStack
  /\ FramesStacked
  /\ OpenSorted
  /\ OpenAtHome

\* The stack and the list of open upvalues are within their types.
LEMMA Ranges ==
  ASSUME TypeOK
  PROVE  /\ Height \in Nat
         /\ \A i \in 1 .. Height : stack[i] \in Values /\ home[i] \in Vars
         /\ Len(location) \in Nat /\ DOMAIN location = 1 .. Len(location)
         /\ DOMAIN closed = 1 .. Len(location)
         /\ \A u \in 1 .. Len(location) :
              location[u] \in 0 .. MaxStack /\ closed[u] \in Values /\ of[u] \in Vars
         /\ Len(open) \in Nat
         /\ \A i \in 1 .. Len(open) : open[i] \in 1 .. Len(location)
         /\ \A u \in stranded : u \in 1 .. Len(location) /\ location[u] # 0
BY UpvaluesAssumption, LenProperties, ElementOfSeq DEF TypeOK, Height, Open

\* What the search of capture_upvalue returns.
LEMMA PassedProperty ==
  ASSUME TypeOK, NEW slot \in Int
  PROVE  /\ Passed(slot) \in 0 .. Len(open)
         /\ \A i \in 1 .. Passed(slot) : location[open[i]] > slot
         /\ Passed(slot) < Len(open) => location[open[Passed(slot) + 1]] <= slot
<1> DEFINE P == {i \in 1 .. Len(open) : location[open[i]] > slot}
<1>1. /\ Len(open) \in Nat
      /\ \A i \in 1 .. Len(open) : location[open[i]] \in Int
  BY Ranges, UpvaluesAssumption
<1>2. PICK n \in 0 .. Len(open) :
           (\A i \in 1 .. n : i \in P) /\ (n < Len(open) => n + 1 \notin P)
  <2> HIDE DEF P
  <2> QED
    BY <1>1, SearchStops
<1>3. \A i \in 1 .. Len(open) : i \in P <=> (location[open[i]] > slot)
  OBVIOUS
<1>4. /\ \A i \in 1 .. n : location[open[i]] > slot
      /\ n < Len(open) => location[open[n + 1]] <= slot
  <2> HIDE DEF P
  <2> QED
    BY <1>1, <1>2, <1>3
<1> QED
  BY <1>4 DEF Passed

\* What the search of close_upvalues returns.
LEMMA ClosingProperty ==
  ASSUME TypeOK, NEW last \in Int
  PROVE  /\ Closing(last) \in 0 .. Len(open)
         /\ \A i \in 1 .. Closing(last) : location[open[i]] >= last
         /\ Closing(last) < Len(open) => location[open[Closing(last) + 1]] < last
<1> DEFINE P == {i \in 1 .. Len(open) : location[open[i]] >= last}
<1>1. /\ Len(open) \in Nat
      /\ \A i \in 1 .. Len(open) : location[open[i]] \in Int
  BY Ranges, UpvaluesAssumption
<1>2. PICK n \in 0 .. Len(open) :
           (\A i \in 1 .. n : i \in P) /\ (n < Len(open) => n + 1 \notin P)
  <2> HIDE DEF P
  <2> QED
    BY <1>1, SearchStops
<1>3. \A i \in 1 .. Len(open) : i \in P <=> (location[open[i]] >= last)
  OBVIOUS
<1>4. /\ \A i \in 1 .. n : location[open[i]] >= last
      /\ n < Len(open) => location[open[n + 1]] < last
  <2> HIDE DEF P
  <2> QED
    BY <1>1, <1>2, <1>3
<1> QED
  BY <1>4 DEF Closing

\* Because the list is sorted, the search of capture_upvalue finds an open
\* upvalue of the slot whenever there is one.
LEMMA SearchComplete ==
  ASSUME TypeOK, OpenSorted, NEW slot \in Int, ~ Captured(slot), slot > 0
  PROVE  /\ \A u \in DOMAIN location : location[u] # slot
         /\ \A i \in Passed(slot) + 1 .. Len(open) : location[open[i]] < slot
<1>1. /\ Len(open) \in Nat /\ DOMAIN location = 1 .. Len(location)
      /\ \A i \in 1 .. Len(open) : location[open[i]] \in Int
  BY Ranges, UpvaluesAssumption
<1>2. /\ Passed(slot) \in 0 .. Len(open)
      /\ \A i \in 1 .. Passed(slot) : location[open[i]] > slot
      /\ Passed(slot) < Len(open) => location[open[Passed(slot) + 1]] <= slot
  BY PassedProperty
<1>3. \A i \in Passed(slot) + 1 .. Len(open) : location[open[i]] < slot
  BY <1>1, <1>2 DEF Captured, OpenSorted
<1>4. ASSUME NEW u \in DOMAIN location, location[u] = slot
      PROVE  FALSE
  <2>1. PICK i \in 1 .. Len(open) : u = open[i]
    BY <1>4 DEF OpenSorted, Open, ElementsOf
  <2> QED
    BY <1>1, <1>2, <1>3, <1>4, <2>1
<1> QED
  BY <1>3, <1>4

\* Because the list is sorted, close_upvalues closes every upvalue of the slots
\* from last on, and none of the others; the list stays sorted.
LEMMA Closes ==
  ASSUME TypeOK, OpenSorted, NEW last \in Int, last > 0,
         CloseUpvalues(last)
  PROVE  /\ closed' \in Seq(Values) /\ Len(closed') = Len(location)
         /\ location' \in Seq(0 .. MaxStack) /\ Len(location') = Len(location)
         /\ open' \in Seq(1 .. Len(location))
         /\ OpenSorted'
         /\ \A u \in 1 .. Len(location) :
              location'[u] # 0 => location'[u] = location[u] /\ location[u] < last
         /\ stranded' = {u \in stranded : location'[u] # 0}
<1> DEFINE n == Closing(last)
           gone == {open[i] : i \in 1 .. n}
<1>1. /\ Len(open) \in Nat /\ Len(location) \in Nat /\ Height \in Nat
      /\ DOMAIN location = 1 .. Len(location) /\ DOMAIN closed = 1 .. Len(location)
      /\ \A i \in 1 .. Height : stack[i] \in Values
      /\ \A i \in 1 .. Len(open) : open[i] \in 1 .. Len(location)
      /\ \A u \in 1 .. Len(location) :
           location[u] \in 0 .. MaxStack /\ location[u] \in Int /\ closed[u] \in Values
  BY Ranges, UpvaluesAssumption
<1>2. /\ n \in 0 .. Len(open)
      /\ \A i \in 1 .. n : location[open[i]] >= last
      /\ n < Len(open) => location[open[n + 1]] < last
  BY ClosingProperty
<1>3. /\ \E copy \in [gone -> Values] :
           closed' = [u \in 1 .. Len(location) |-> IF u \in gone THEN copy[u] ELSE closed[u]]
      /\ stranded' = stranded \ gone
      /\ location' = [u \in 1 .. Len(location) |-> IF u \in gone THEN 0 ELSE location[u]]
      /\ open' = SubSeq(open, n + 1, Len(open))
  BY <1>1 DEF CloseUpvalues
<1> HIDE DEF n
<1>4. /\ ElementsOf(open) = Open
      /\ \A i, j \in 1 .. Len(open) : i < j => location[open[i]] > location[open[j]]
  BY DEF OpenSorted
<1>5. \A i \in n + 1 .. Len(open) : location[open[i]] < last /\ open[i] \notin gone
  <2>1. \A i \in n + 1 .. Len(open) : location[open[i]] < last
    BY <1>1, <1>2, <1>4
  <2> QED
    BY <1>1, <1>2, <2>1
<1>6. /\ open' \in Seq(1 .. Len(location))
      /\ Len(open') = Len(open) - n
      /\ \A i \in 1 .. Len(open) - n : open'[i] = open[n + i]
  <2>1. open \in Seq(1 .. Len(location))
    BY <1>1 DEF TypeOK
  <2> QED
    BY <1>2, <1>3, <2>1, Cut
<1>7. PICK copy \in [gone -> Values] :
           closed' = [u \in 1 .. Len(location) |-> IF u \in gone THEN copy[u] ELSE closed[u]]
  BY <1>3
<1>8. closed' \in Seq(Values) /\ Len(closed') = Len(location)
  <2>1. \A u \in 1 .. Len(location) :
          (IF u \in gone THEN copy[u] ELSE closed[u]) \in Values
    <3> HIDE DEF gone
    <3> QED
      BY <1>1
  <2> HIDE DEF gone
  <2>2. closed' \in [1 .. Len(location) -> Values]
    BY <1>7, <2>1
  <2> QED
    BY <1>1, <2>2, FunctionIsSeq
<1>9. location' \in Seq(0 .. MaxStack) /\ Len(location') = Len(location)
  <2> HIDE DEF gone
  <2>1. location' \in [1 .. Len(location) -> 0 .. MaxStack]
    BY <1>1, <1>3, UpvaluesAssumption
  <2> DEFINE T == 0 .. MaxStack
             n1 == Len(location)
  <2>2. location' \in [1 .. n1 -> T] /\ n1 \in Nat
    BY <1>1, <2>1
  <2> HIDE DEF T, n1
  <2>3. location' \in Seq(T) /\ Len(location') = n1
    BY <2>2, FunctionIsSeq
  <2> QED
    BY <2>3 DEF T, n1
<1>10. \A u \in 1 .. Len(location) :
         location'[u] # 0 => location'[u] = location[u] /\ location[u] < last
  <2> SUFFICES ASSUME NEW u \in 1 .. Len(location), location'[u] # 0
               PROVE  location'[u] = location[u] /\ location[u] < last
    OBVIOUS
  <2>1. u \notin gone /\ location'[u] = location[u]
    <3> HIDE DEF gone
    <3>1. location' = [w \in 1 .. Len(location) |-> IF w \in gone THEN 0 ELSE location[w]]
      BY <1>3
    <3> QED
      BY <3>1
  <2>2. PICK i \in 1 .. Len(open) : open[i] = u
    BY <1>1, <1>4, <2>1 DEF Open, ElementsOf
  <2>3. i \in n + 1 .. Len(open)
    BY <1>1, <1>2, <2>1, <2>2
  <2> QED
    BY <1>5, <2>1, <2>2, <2>3
<1>11. DOMAIN location' = 1 .. Len(location)
  BY <1>3
<1>12. \A i \in 1 .. Len(open) - n : location'[open'[i]] = location[open[n + i]]
  <2> SUFFICES ASSUME NEW i \in 1 .. Len(open) - n
               PROVE  location'[open'[i]] = location[open[n + i]]
    OBVIOUS
  <2>1. n + i \in n + 1 .. Len(open) /\ n + i \in 1 .. Len(open)
    BY <1>1, <1>2
  <2>2. open'[i] \in 1 .. Len(location) /\ open'[i] \notin gone
    BY <1>1, <1>5, <1>6, <2>1
  <2> HIDE DEF gone
  <2> QED
    BY <1>3, <1>6, <2>2
<1>13. OpenSorted'
  <2>1. ASSUME NEW u \in Open'
        PROVE  u \in ElementsOf(open')
    <3>1. u \in 1 .. Len(location) /\ location'[u] # 0
      BY <1>11 DEF Open
    <3>2. location[u] < last /\ location[u] # 0
      BY <1>10, <3>1
    <3>3. PICK i \in 1 .. Len(open) : open[i] = u
      BY <1>1, <1>4, <3>1, <3>2 DEF Open, ElementsOf
    <3>4. i - n \in 1 .. Len(open) - n /\ n + (i - n) = i
      BY <1>1, <1>2, <3>2, <3>3
    <3> QED
      BY <1>6, <3>3, <3>4 DEF ElementsOf
  <2>2. ASSUME NEW u \in ElementsOf(open')
        PROVE  u \in Open'
    <3>1. PICK i \in 1 .. Len(open) - n : u = open'[i]
      BY <1>6 DEF ElementsOf
    <3>2. n + i \in 1 .. Len(open) /\ u = open[n + i] /\ u \in 1 .. Len(location)
      <4>1. n + i \in 1 .. Len(open)
        BY <1>1, <1>2
      <4>2. u = open[n + i]
        BY <1>6, <3>1
      <4> QED
        BY <1>1, <4>1, <4>2
    <3>3. location[u] # 0
      BY <1>4, <3>2 DEF Open, ElementsOf
    <3> QED
      BY <1>11, <1>12, <3>1, <3>2, <3>3 DEF Open
  <2>3. ASSUME NEW i \in 1 .. Len(open'), NEW j \in 1 .. Len(open'), i < j
        PROVE  location'[open'[i]] > location'[open'[j]]
    <3>1. n + i \in 1 .. Len(open) /\ n + j \in 1 .. Len(open) /\ n + i < n + j
      BY <1>1, <1>2, <1>6, <2>3
    <3> QED
      BY SMTT(40), <1>4, <1>6, <1>12, <3>1
  <2> QED
    BY <2>1, <2>2, <2>3 DEF OpenSorted, ElementsOf
<1>14. stranded' = {u \in stranded : location'[u] # 0}
  <2>1. \A u \in stranded : u \in 1 .. Len(location) /\ location[u] # 0
    BY Ranges
  <2> HIDE DEF gone
  <2> QED
    BY <1>3, <2>1
<1> QED
  BY <1>6, <1>8, <1>9, <1>10, <1>13, <1>14

-----------------------------------------------------------------------------
(* What the parts of an action preserve *)

\* The conjuncts of TypeOK, by the part of the state they are about.
StackType ==
  /\ stack \in Seq(Values)
  /\ home \in Seq(Vars) /\ Len(home) = Height
  /\ Height <= MaxStack

ListType ==
  /\ location \in Seq(0 .. MaxStack)
  /\ closed \in Seq(Values) /\ Len(closed) = Len(location)
  /\ of \in Seq(Vars) /\ Len(of) = Len(location)
  /\ open \in Seq(DOMAIN location)
  /\ stranded \subseteq Open

ClosureType ==
  /\ closures \in Seq(Seq(DOMAIN location))
  /\ frames \in Seq([slots : 1 .. MaxStack, closure : 0 .. Len(closures)])
  /\ pending \in 0 .. MaxUpvalues
  /\ pending > 0 => frames # <<>> /\ closures # <<>>

LEMMA Parts ==
  ASSUME StackType', ListType', ClosureType', FramesStacked', OpenSorted', OpenAtHome'
  PROVE  IndInv'
BY DEF IndInv, TypeOK, StackType, ListType, ClosureType

\* The running function's frame and upvalues are within their types.
LEMMA Running ==
  ASSUME IndInv, frames # <<>>
  PROVE  /\ Len(frames) \in Nat \ {0}
         /\ Frame.slots \in 1 .. MaxStack /\ Frame.slots <= Height
         /\ Frame.closure \in 0 .. Len(closures)
         /\ \A k \in UpvalueNumbers : Upvalue(k) \in 1 .. Len(location)
         /\ \A i \in 1 .. Len(frames) : frames[i].slots \in 1 .. MaxStack
<1>1. /\ frames \in Seq([slots : 1 .. MaxStack, closure : 0 .. Len(closures)])
      /\ closures \in Seq(Seq(DOMAIN location))
      /\ DOMAIN location = 1 .. Len(location)
  BY Ranges DEF IndInv, TypeOK
<1>2. Len(frames) \in Nat \ {0}
  BY <1>1, EmptySeq
<1>3. \A i \in 1 .. Len(frames) :
        frames[i] \in [slots : 1 .. MaxStack, closure : 0 .. Len(closures)]
  BY <1>1, ElementOfSeq
<1>4. Frame \in [slots : 1 .. MaxStack, closure : 0 .. Len(closures)]
  BY <1>2, <1>3 DEF Frame
<1>5. ASSUME NEW k \in UpvalueNumbers
      PROVE  Upvalue(k) \in 1 .. Len(location)
  <2>1. Frame.closure \in 1 .. Len(closures) /\ k \in 1 .. Len(closures[Frame.closure])
    BY <1>1, <1>4, <1>5, LenProperties DEF UpvalueNumbers
  <2> DEFINE c == closures[Frame.closure]
  <2>2. c \in Seq(1 .. Len(location))
    <3>1. closures \in Seq(Seq(1 .. Len(location)))
      BY <1>1
    <3> QED
      BY <2>1, <3>1, ElementOfSeq
  <2>3. Upvalue(k) = c[k] /\ k \in 1 .. Len(c)
    BY <2>1 DEF Upvalue
  <2> HIDE DEF c
  <2>4. c[k] \in 1 .. Len(location)
    BY <2>2, <2>3, ElementOfSeq
  <2> QED
    BY <2>3, <2>4
<1> QED
  BY <1>2, <1>3, <1>4, <1>5 DEF IndInv, FramesStacked

\* What an upvalue holds is a value, wherever it is held.
LEMMA DerefType ==
  ASSUME IndInv, NEW u \in 1 .. Len(location)
  PROVE  Deref(u) \subseteq Values
<1>1. Height \in Nat /\ location[u] \in Nat /\ closed[u] \in Values
  BY Ranges, UpvaluesAssumption DEF IndInv
<1>2. \A i \in 1 .. Height : stack[i] \in Values
  BY Ranges DEF IndInv
<1>3. location[u] = 0 \/ location[u] \in 1 .. Height \/ location[u] > Height
  BY <1>1
<1> QED
  BY <1>1, <1>2, <1>3 DEF Deref

\* Pushing a value makes a slot that no upvalue points at.
LEMMA PushKeeps ==
  ASSUME IndInv, NEW v \in Values, Push(v), UNCHANGED <<location, of, stranded>>
  PROVE  StackType' /\ OpenAtHome' /\ Height' = Height + 1
<1>1. Fresh \in Vars /\ Height \in Nat /\ Height + 1 <= MaxStack
  BY Ranges, UpvaluesAssumption DEF Push, Fresh, Unused, IndInv
<1>2. /\ stack' \in Seq(Values) /\ Len(stack') = Height + 1
      /\ home' \in Seq(Vars) /\ Len(home') = Height + 1
      /\ \A i \in 1 .. Height : home'[i] = home[i]
  <2>1. /\ stack \in Seq(Values) /\ home \in Seq(Vars) /\ Len(home) = Height /\ Height = Len(stack)
        /\ stack' = Append(stack, v) /\ home' = Append(home, Fresh)
    BY DEF IndInv, TypeOK, Push, Height
  <2>2. Append(stack, v) \in Seq(Values) /\ Len(Append(stack, v)) = Height + 1
    BY <2>1, Appended
  <2>3. /\ Append(home, Fresh) \in Seq(Vars) /\ Len(Append(home, Fresh)) = Height + 1
        /\ \A i \in 1 .. Height : Append(home, Fresh)[i] = home[i]
    BY <1>1, <2>1, Appended
  <2> QED
    BY <2>1, <2>2, <2>3
<1>3. Height' = Height + 1
  BY <1>2 DEF Height
<1>4. OpenAtHome'
  BY <1>1, <1>2, <1>3, Ranges, UpvaluesAssumption DEF OpenAtHome, Open, IndInv
<1> QED
  BY <1>1, <1>2, <1>3, <1>4 DEF StackType

\* A stack that is cut off at a height no upvalue points above.
LEMMA DropKeeps ==
  ASSUME IndInv, NEW n \in 0 .. Height,
         stack' = SubSeq(stack, 1, n), home' = SubSeq(home, 1, n)
  PROVE  StackType' /\ Height' = n /\ \A i \in 1 .. n : home'[i] = home[i]
<1>1. n \in 0 .. Len(stack) /\ n \in 0 .. Len(home) /\ Height \in Nat /\ Height <= MaxStack
  BY Ranges DEF IndInv, TypeOK, Height
<1>2. /\ stack' \in Seq(Values) /\ Len(stack') = n
      /\ home' \in Seq(Vars) /\ Len(home') = n
      /\ \A i \in 1 .. n : home'[i] = home[i]
  BY <1>1, Cut DEF IndInv, TypeOK
<1> QED
  BY <1>1, <1>2, UpvaluesAssumption DEF StackType, Height

\* Open upvalues stay at home when those that stay open keep their slots and
\* their slots keep their variables.
LEMMA StayAtHome ==
  ASSUME IndInv, NEW n \in Nat, n <= Height', of' = of, Len(location') = Len(location),
         DOMAIN location' = 1 .. Len(location),
         \A i \in 1 .. n : home'[i] = home[i],
         \A u \in 1 .. Len(location) :
           location'[u] # 0 /\ u \notin stranded'
             => u \notin stranded /\ location'[u] = location[u] /\ location[u] <= n,
         Height' \in Nat
  PROVE  OpenAtHome'
<1>1. /\ DOMAIN location = 1 .. Len(location)
      /\ \A u \in 1 .. Len(location) : location[u] \in Nat
  BY Ranges, UpvaluesAssumption DEF IndInv
<1> SUFFICES ASSUME NEW u \in Open' \ stranded'
             PROVE  location'[u] <= Height' /\ of'[u] = home'[location'[u]]
  BY DEF OpenAtHome
<1>2. u \in 1 .. Len(location) /\ location'[u] # 0 /\ u \notin stranded'
  BY DEF Open
<1>3. location'[u] = location[u] /\ location[u] \in 1 .. n /\ u \notin stranded
  BY <1>1, <1>2
<1>4. of[u] = home[location[u]]
  BY <1>1, <1>2, <1>3 DEF IndInv, OpenAtHome, Open
<1> QED
  BY <1>3, <1>4

\* What does not touch the list of open upvalues keeps it sorted.
LEMMA ListKept ==
  ASSUME IndInv, UNCHANGED <<location, open>>
  PROVE  OpenSorted'
BY DEF IndInv, OpenSorted, Open, ElementsOf

\* Frames stay stacked under a stack that does not shrink below the newest.
LEMMA FramesKept ==
  ASSUME IndInv, UNCHANGED frames, frames # <<>> => Frame.slots <= Height'
  PROVE  FramesStacked'
BY DEF IndInv, FramesStacked, Frame

LEMMA ClosuresKept ==
  ASSUME IndInv, UNCHANGED <<closures, frames, pending>>, DOMAIN location' = DOMAIN location
  PROVE  ClosureType'
BY DEF IndInv, TypeOK, ClosureType

-----------------------------------------------------------------------------
(* Every action preserves the invariant *)

LEMMA InitInv ==
  ASSUME Init
  PROVE  IndInv
<1>1. \A S : <<>> \in Seq(S) /\ Len(<<>>) = 0
  BY EmptySeq
<1> QED
  BY <1>1, UpvaluesAssumption
  DEF Init, IndInv, TypeOK, Height, FramesStacked, OpenSorted, OpenAtHome, Open, ElementsOf

\* A step that changes nothing.
LEMMA SameInv ==
  ASSUME IndInv, UNCHANGED vars
  PROVE  IndInv'
<1> USE DEF vars, IndInv
<1>1. StackType' /\ ListType' /\ ClosureType'
  BY DEF TypeOK, StackType, ListType, ClosureType, Height, Open
<1>2. FramesStacked'
  BY DEF FramesStacked, Frame, Height
<1>3. OpenSorted' /\ OpenAtHome'
  BY DEF OpenSorted, OpenAtHome, Open, ElementsOf, Height
<1> QED
  BY <1>1, <1>2, <1>3, Parts

\* What only pushes a value.
LEMMA PushInv ==
  ASSUME IndInv, NEW v \in Values, Push(v),
         UNCHANGED <<frames, closures, location, closed, open, pending, of, stranded>>
  PROVE  IndInv'
<1>1. StackType' /\ OpenAtHome' /\ Height' = Height + 1
  BY PushKeeps
<1>2. ListType'
  BY DEF IndInv, TypeOK, ListType, Open
<1>3. ClosureType' /\ OpenSorted'
  BY ClosuresKept, ListKept
<1>4. FramesStacked'
  <2>1. frames # <<>> => Frame.slots <= Height'
    BY <1>1, Running, Ranges DEF IndInv
  <2> QED
    BY <2>1, FramesKept
<1> QED
  BY <1>1, <1>2, <1>3, <1>4, Parts

LEMMA EnterInv ==
  ASSUME IndInv, NEW v \in Values, Enter(v)
  PROVE  IndInv'
<1> USE DEF Enter
<1>1. StackType' /\ OpenAtHome' /\ Height' = Height + 1
  BY PushKeeps
<1>2. ListType' /\ OpenSorted'
  BY ListKept DEF IndInv, TypeOK, ListType, Open
<1>3. Height \in Nat /\ Height + 1 \in 1 .. MaxStack
  BY Ranges, UpvaluesAssumption DEF Push, IndInv
<1>4. /\ frames' \in Seq([slots : 1 .. MaxStack, closure : 0 .. Len(closures)])
      /\ Len(frames') = 1 /\ frames'[1].slots = Height + 1 /\ frames' # <<>>
  <2>1. Len(closures) \in Nat
    BY LenProperties DEF IndInv, TypeOK
  <2>2. [slots |-> Height + 1, closure |-> 0]
          \in [slots : 1 .. MaxStack, closure : 0 .. Len(closures)]
    BY <1>3, <2>1
  <2> QED
    BY <2>2
<1>5. ClosureType'
  BY <1>4 DEF IndInv, TypeOK, ClosureType
<1>6. FramesStacked'
  BY <1>1, <1>3, <1>4 DEF FramesStacked, Frame
<1> QED
  BY <1>1, <1>2, <1>5, <1>6, Parts

LEMMA DeclareInv ==
  ASSUME IndInv, NEW v \in Values, Declare(v)
  PROVE  IndInv'
BY PushInv DEF Declare

LEMMA GetLocalInv ==
  ASSUME IndInv, NEW slot, GetLocal(slot)
  PROVE  IndInv'
<1>1. stack[slot] \in Values
  BY Running, Ranges, UpvaluesAssumption DEF GetLocal, Ready, LocalSlots, IndInv
<1> QED
  BY <1>1, PushInv DEF GetLocal

LEMMA GetUpvalueInv ==
  ASSUME IndInv, NEW k, GetUpvalue(k)
  PROVE  IndInv'
<1>1. Deref(Upvalue(k)) \subseteq Values
  BY Running, DerefType DEF GetUpvalue, Ready
<1>2. PICK v \in Deref(Upvalue(k)) : Push(v)
  BY DEF GetUpvalue
<1> QED
  BY <1>1, <1>2, PushInv DEF GetUpvalue

\* What only assigns to a slot of the stack.
LEMMA AssignInv ==
  ASSUME IndInv, frames # <<>>, NEW slot \in 1 .. Height,
         stack' = [stack EXCEPT ![slot] = stack[Height]],
         UNCHANGED <<frames, closures, location, closed, open, pending, home, of, stranded>>
  PROVE  IndInv'
<1>1. Height \in 1 .. Height /\ stack[Height] \in Values
  BY Running, Ranges, UpvaluesAssumption DEF IndInv
<1>2. stack' \in Seq(Values) /\ Len(stack') = Height
  BY <1>1, ExceptSeq DEF IndInv, TypeOK, Height
<1>3. Height' = Height
  BY <1>2 DEF Height
<1>4. StackType' /\ ListType'
  BY <1>2, <1>3 DEF IndInv, TypeOK, StackType, ListType, Open
<1>5. ClosureType' /\ OpenSorted' /\ FramesStacked'
  BY <1>3, ClosuresKept, ListKept, FramesKept, Running
<1>6. OpenAtHome'
  BY <1>3 DEF IndInv, OpenAtHome, Open
<1> QED
  BY <1>4, <1>5, <1>6, Parts

LEMMA SetLocalInv ==
  ASSUME IndInv, NEW slot, SetLocal(slot)
  PROVE  IndInv'
<1>1. slot \in 1 .. Height
  BY Running, Ranges, UpvaluesAssumption DEF SetLocal, Ready, LocalSlots, IndInv
<1> QED
  BY <1>1, AssignInv DEF SetLocal, Ready

LEMMA SetUpvalueInv ==
  ASSUME IndInv, NEW k, SetUpvalue(k)
  PROVE  IndInv'
<1> DEFINE u == Upvalue(k)
<1>1. frames # <<>> /\ u \in 1 .. Len(location)
  BY Running DEF SetUpvalue, Ready
<1>2. Height \in Nat /\ location[u] \in Nat
  BY <1>1, Ranges, UpvaluesAssumption DEF IndInv
<1>3. CASE location[u] \in 1 .. Height
  <2>1. location[u] # 0
    BY <1>3
  <2>2. /\ stack' = [stack EXCEPT ![location[u]] = stack[Height]]
        /\ UNCHANGED <<frames, closures, location, closed, open, pending, home, of, stranded>>
    BY <1>3, <2>1 DEF SetUpvalue
  <2> HIDE DEF u
  <2> QED
    BY <1>1, <1>3, <2>2, AssignInv
<1>4. CASE location[u] = 0
  <2>1. closed' = [closed EXCEPT ![u] = stack[Height]] /\ UNCHANGED stack
    BY <1>2, <1>4 DEF SetUpvalue
  <2>2. UNCHANGED <<stack, frames, closures, location, open, pending, home, of, stranded>>
    BY <2>1 DEF SetUpvalue
  <2>3. stack[Height] \in Values
    BY <1>1, Running, Ranges, UpvaluesAssumption DEF IndInv
  <2> HIDE DEF u
  <2>4. closed' \in Seq(Values) /\ Len(closed') = Len(location)
    BY <1>1, <2>1, <2>3, ExceptSeq DEF IndInv, TypeOK
  <2>5. Height' = Height /\ StackType' /\ ListType'
    BY <2>2, <2>4 DEF IndInv, TypeOK, StackType, ListType, Height, Open
  <2>6. ClosureType' /\ OpenSorted' /\ FramesStacked'
    BY <1>1, <2>2, <2>5, ClosuresKept, ListKept, FramesKept, Running
  <2>7. OpenAtHome'
    BY <2>2, <2>5 DEF IndInv, OpenAtHome, Open
  <2> QED
    BY <2>5, <2>6, <2>7, Parts
<1>5. CASE location[u] > Height
  <2>1. location[u] # 0 /\ location[u] \notin 1 .. Height
    BY <1>2, <1>5
  <2>2. UNCHANGED vars
    BY <2>1 DEF SetUpvalue, vars
  <2> QED
    BY <2>2, SameInv
<1> QED
  BY <1>2, <1>3, <1>4, <1>5

LEMMA PopInv ==
  ASSUME IndInv, Pop
  PROVE  IndInv'
<1>1. /\ Height \in Nat /\ Height - 1 \in 0 .. Height
      /\ Frame.slots \in Nat /\ Frame.slots <= Height - 1
  BY Running, Ranges, UpvaluesAssumption DEF Pop, Ready, IndInv
<1>2. StackType' /\ Height' = Height - 1 /\ \A i \in 1 .. Height - 1 : home'[i] = home[i]
  BY <1>1, DropKeeps DEF Pop
<1>3. ListType' /\ ClosureType' /\ OpenSorted'
  <2>1. stranded' \subseteq Open'
    BY <1>1 DEF Pop, IndInv, TypeOK, Open
  <2> QED
    BY <2>1, ClosuresKept, ListKept DEF Pop, IndInv, TypeOK, ListType
<1>4. FramesStacked'
  BY <1>1, <1>2, FramesKept DEF Pop
<1>5. OpenAtHome'
  <2>1. \A u \in 1 .. Len(location) :
          location[u] # 0 /\ u \notin stranded'
            => u \notin stranded /\ location[u] <= Height - 1
    BY <1>1, Ranges, UpvaluesAssumption DEF Pop, IndInv, OpenAtHome, Open
  <2>2. Height - 1 \in Nat /\ Height - 1 <= Height' /\ Height' \in Nat
    BY <1>1, <1>2
  <2>3. location' = location /\ of' = of /\ DOMAIN location' = 1 .. Len(location)
    BY Ranges DEF Pop, IndInv
  <2> QED
    BY <1>2, <2>1, <2>2, <2>3, StayAtHome
<1> QED
  BY <1>2, <1>3, <1>4, <1>5, Parts

LEMMA CloseUpvalueInv ==
  ASSUME IndInv, CloseUpvalue
  PROVE  IndInv'
<1>1. /\ Height \in Nat \ {0} /\ Height - 1 \in 0 .. Height
      /\ Frame.slots \in Nat /\ Frame.slots <= Height - 1
  BY Running, Ranges, UpvaluesAssumption DEF CloseUpvalue, Ready, IndInv
<1>2. StackType' /\ Height' = Height - 1 /\ \A i \in 1 .. Height - 1 : home'[i] = home[i]
  BY <1>1, DropKeeps DEF CloseUpvalue
<1>3. /\ closed' \in Seq(Values) /\ Len(closed') = Len(location)
      /\ location' \in Seq(0 .. MaxStack) /\ Len(location') = Len(location)
      /\ open' \in Seq(1 .. Len(location))
      /\ OpenSorted'
      /\ \A u \in 1 .. Len(location) :
           location'[u] # 0 => location'[u] = location[u] /\ location[u] < Height
      /\ stranded' = {u \in stranded : location'[u] # 0}
  BY <1>1, Closes DEF CloseUpvalue, IndInv
<1>4. DOMAIN location' = 1 .. Len(location) /\ DOMAIN location = 1 .. Len(location)
  BY <1>3, Ranges, LenProperties DEF IndInv
<1>5. ListType' /\ ClosureType'
  <2>1. stranded' \subseteq Open'
    BY <1>3, <1>4, Ranges DEF IndInv, Open
  <2> QED
    BY <1>3, <1>4, <2>1, ClosuresKept DEF CloseUpvalue, IndInv, TypeOK, ListType
<1>6. FramesStacked'
  BY <1>1, <1>2, FramesKept DEF CloseUpvalue
<1>7. OpenAtHome'
  <2>1. \A u \in 1 .. Len(location) :
          location'[u] # 0 /\ u \notin stranded'
            => u \notin stranded /\ location'[u] = location[u] /\ location[u] <= Height - 1
    BY <1>1, <1>3, Ranges, UpvaluesAssumption DEF IndInv
  <2>2. Height - 1 \in Nat /\ Height - 1 <= Height' /\ Height' \in Nat /\ of' = of
    BY <1>1, <1>2 DEF CloseUpvalue
  <2> QED
    BY <1>2, <1>3, <1>4, <2>1, <2>2, StayAtHome
<1> QED
  BY <1>2, <1>3, <1>5, <1>6, <1>7, Parts

LEMMA ClosureInv ==
  ASSUME IndInv, NEW v \in Values, NEW n \in 0 .. MaxUpvalues, Closure(v, n)
  PROVE  IndInv'
<1>1. StackType' /\ OpenAtHome' /\ Height' = Height + 1
  BY PushKeeps DEF Closure
<1>2. ListType' /\ OpenSorted'
  BY ListKept DEF Closure, IndInv, TypeOK, ListType, Open
<1>3. /\ closures' \in Seq(Seq(DOMAIN location)) /\ Len(closures') = Len(closures) + 1
      /\ Len(closures) \in Nat
  <2>1. <<>> \in Seq(DOMAIN location)
    BY EmptySeq
  <2>2. closures \in Seq(Seq(DOMAIN location)) /\ closures' = Append(closures, <<>>)
    BY DEF Closure, IndInv, TypeOK
  <2> QED
    BY <2>1, <2>2, Appended, LenProperties
<1>4. frames' \in Seq([slots : 1 .. MaxStack, closure : 0 .. Len(closures')])
  <2>1. [slots : 1 .. MaxStack, closure : 0 .. Len(closures)]
          \subseteq [slots : 1 .. MaxStack, closure : 0 .. Len(closures')]
    BY <1>3
  <2>2. frames' = frames
        /\ frames \in Seq([slots : 1 .. MaxStack, closure : 0 .. Len(closures)])
    BY DEF Closure, IndInv, TypeOK
  <2> QED
    BY <2>1, <2>2, SeqMonotonic
<1>5. ClosureType'
  <2>1. closures' # <<>>
    BY <1>3, EmptySeq
  <2> QED
    BY <1>3, <1>4, <2>1 DEF Closure, Ready, ClosureType
<1>6. FramesStacked'
  <2>1. Frame.slots <= Height'
    BY <1>1, Running, Ranges DEF Closure, Ready, IndInv
  <2> QED
    BY <2>1, FramesKept DEF Closure
<1> QED
  BY <1>1, <1>2, <1>5, <1>6, Parts

\* The closure being made gets an upvalue, of those there were or a new one.
LEMMA GiveKeeps ==
  ASSUME IndInv, pending > 0, NEW u \in DOMAIN location', Give(u), UNCHANGED frames,
         DOMAIN location \subseteq DOMAIN location'
  PROVE  ClosureType'
<1>1. /\ closures # <<>> /\ frames # <<>> /\ pending \in 1 .. MaxUpvalues
      /\ closures \in Seq(Seq(DOMAIN location))
  BY UpvaluesAssumption DEF IndInv, TypeOK
<1>2. Seq(DOMAIN location) \subseteq Seq(DOMAIN location')
  BY SeqMonotonic
<1>3. closures \in Seq(Seq(DOMAIN location'))
  BY <1>1, <1>2, SeqMonotonic
<1>4. Len(closures) \in 1 .. Len(closures) /\ Len(closures) \in Nat \ {0}
  BY <1>1, EmptySeq
<1>5. Append(closures[Len(closures)], u) \in Seq(DOMAIN location')
  BY <1>3, <1>4, ElementOfSeq, Appended
<1>6. closures' \in Seq(Seq(DOMAIN location')) /\ Len(closures') = Len(closures)
  BY <1>3, <1>4, <1>5, ExceptSeq DEF Give
<1>7. closures' # <<>>
  BY <1>4, <1>6, EmptySeq
<1>8. pending' \in 0 .. MaxUpvalues
  BY <1>1, UpvaluesAssumption DEF Give
<1> QED
  BY <1>1, <1>6, <1>7, <1>8 DEF IndInv, TypeOK, ClosureType

LEMMA PassOnInv ==
  ASSUME IndInv, NEW k, PassOn(k)
  PROVE  IndInv'
<1> USE DEF PassOn
<1>1. frames # <<>>
  BY DEF IndInv, TypeOK
<1>2. DOMAIN location' = DOMAIN location /\ Upvalue(k) \in DOMAIN location'
  BY <1>1, Running, Ranges DEF IndInv
<1>3. ClosureType'
  BY <1>2, GiveKeeps
<1>4. StackType' /\ ListType' /\ OpenAtHome' /\ Height' = Height
  BY DEF IndInv, TypeOK, StackType, ListType, OpenAtHome, Open, Height
<1>5. OpenSorted' /\ FramesStacked'
  BY <1>1, <1>4, ListKept, FramesKept, Running
<1> QED
  BY <1>3, <1>4, <1>5, Parts

\* g is the descending list f of len numbers with x in its place behind n of them.
Placed(f, g, len, n, x) ==
  /\ \A k \in 1 .. len : f[k] \in Nat
  /\ \A k, l \in 1 .. len : k < l => f[k] > f[l]
  /\ \A k \in 1 .. n : f[k] > x
  /\ \A k \in n + 1 .. len : f[k] < x
  /\ \A k \in 1 .. n : g[k] = f[k]
  /\ g[n + 1] = x
  /\ \A k \in n + 2 .. len + 1 : g[k] = f[k - 1]

\* A number inserted where it belongs leaves a list of numbers descending.
LEMMA InsertDescending ==
  ASSUME NEW len \in Nat, NEW n \in 0 .. len, NEW f, NEW g, NEW x \in Nat,
         Placed(f, g, len, n, x),
         NEW i \in 1 .. len + 1, NEW j \in 1 .. len + 1, i < j
  PROVE  g[i] > g[j]
<1> USE DEF Placed
<1>1. CASE j <= n
  <2>1. i \in 1 .. n /\ j \in 1 .. n /\ i \in 1 .. len /\ j \in 1 .. len
    BY <1>1
  <2> QED
    BY <2>1
<1>2. CASE j = n + 1
  <2>1. i \in 1 .. n
    BY <1>2
  <2> QED
    BY <1>2, <2>1
<1>3. CASE j > n + 1
  <2>1. j \in n + 2 .. len + 1 /\ j - 1 \in n + 1 .. len /\ j - 1 \in 1 .. len
    BY <1>3
  <2>2. g[j] = f[j - 1] /\ f[j - 1] \in Nat /\ f[j - 1] < x
    BY <2>1
  <2>3. CASE i <= n
    <3>1. i \in 1 .. n /\ i \in 1 .. len /\ i < j - 1
      BY <1>3, <2>3
    <3> QED
      BY <2>1, <2>2, <3>1
  <2>4. CASE i = n + 1
    BY <2>2, <2>4
  <2>5. CASE i > n + 1
    <3>1. i \in n + 2 .. len + 1 /\ i - 1 \in 1 .. len /\ i - 1 < j - 1
      BY <2>5
    <3>2. g[i] = f[i - 1]
      BY <3>1
    <3>3. f[i - 1] > f[j - 1]
      BY <2>1, <3>1
    <3> QED
      BY <2>2, <3>2, <3>3
  <2> QED
    BY <2>3, <2>4, <2>5
<1> QED
  BY <1>1, <1>2, <1>3

\* A new upvalue is put where the search stopped, which keeps the list sorted.
LEMMA InsertKeeps ==
  ASSUME IndInv, NEW slot \in 1 .. Height, ~ Captured(slot),
         location' = Append(location, slot),
         open' = Inserted(Len(location) + 1, slot)
  PROVE  OpenSorted' /\ open' \in Seq(1 .. Len(location) + 1)
<1> DEFINE n == Passed(slot)
           new == Len(location) + 1
<1>1. /\ Len(open) \in Nat /\ Len(location) \in Nat /\ Height \in Nat /\ slot \in Nat \ {0}
      /\ DOMAIN location = 1 .. Len(location)
      /\ \A i \in 1 .. Len(open) : open[i] \in 1 .. Len(location)
      /\ \A u \in 1 .. Len(location) : location[u] \in Nat
  BY Ranges, UpvaluesAssumption DEF IndInv
<1>2. /\ n \in 0 .. Len(open)
      /\ \A i \in 1 .. n : location[open[i]] > slot
      /\ \A u \in DOMAIN location : location[u] # slot
      /\ \A i \in n + 1 .. Len(open) : location[open[i]] < slot
  <2>1. TypeOK /\ OpenSorted /\ slot \in Int /\ slot > 0
    BY <1>1 DEF IndInv
  <2> QED
    BY <2>1, PassedProperty, SearchComplete
<1> HIDE DEF n
<1>3. /\ Len(location') = new /\ DOMAIN location' = 1 .. new
      /\ \A u \in 1 .. Len(location) : location'[u] = location[u]
      /\ location'[new] = slot
  <2>1. location \in Seq(0 .. MaxStack) /\ slot \in 0 .. MaxStack
    BY <1>1, UpvaluesAssumption DEF IndInv, TypeOK
  <2>2. location' \in Seq(0 .. MaxStack)
    BY <2>1, Appended
  <2> QED
    BY <2>1, <2>2, Appended, LenProperties
<1>4. /\ open' \in Seq(1 .. new) /\ Len(open') = Len(open) + 1
      /\ \A i \in 1 .. n : open'[i] = open[i]
      /\ open'[n + 1] = new
      /\ \A i \in n + 2 .. Len(open) + 1 : open'[i] = open[i - 1]
  <2>1. 1 .. Len(location) \subseteq 1 .. new /\ new \in 1 .. new
    BY <1>1
  <2>2. open \in Seq(1 .. new)
    BY <1>1, <2>1, SeqMonotonic DEF IndInv, TypeOK
  <2> HIDE DEF new
  <2>3. open' = InsertBehind(open, n, new)
    BY DEF Inserted, InsertBehind, n, new
  <2> DEFINE S == 1 .. new
  <2>4. /\ InsertBehind(open, n, new) \in Seq(S)
        /\ Len(InsertBehind(open, n, new)) = Len(open) + 1
        /\ \A i \in 1 .. n : InsertBehind(open, n, new)[i] = open[i]
        /\ InsertBehind(open, n, new)[n + 1] = new
        /\ \A i \in n + 2 .. Len(open) + 1 : InsertBehind(open, n, new)[i] = open[i - 1]
    <3>1. n \in 0 .. Len(open) /\ new \in S /\ open \in Seq(S)
      BY <1>2, <2>1, <2>2
    <3> HIDE DEF S
    <3>2. InsertBehind(open, n, new) \in Seq(S)
      BY <3>1, Insertion
    <3>3. Len(InsertBehind(open, n, new)) = Len(open) + 1
      BY <3>1, Insertion
    <3>4. \A i \in 1 .. n : InsertBehind(open, n, new)[i] = open[i]
      BY <3>1, Insertion
    <3>5. InsertBehind(open, n, new)[n + 1] = new
      BY <3>1, Insertion
    <3>6. \A i \in n + 2 .. Len(open) + 1 : InsertBehind(open, n, new)[i] = open[i - 1]
      BY <3>1, Insertion
    <3> QED
      BY <3>2, <3>3, <3>4, <3>5, <3>6
  <2> QED
    BY <2>3, <2>4
<1>5. /\ ElementsOf(open) = Open
      /\ \A i, j \in 1 .. Len(open) : i < j => location[open[i]] > location[open[j]]
  BY DEF IndInv, OpenSorted
<1>6. /\ \A i \in 1 .. n : location'[open'[i]] = location[open[i]]
      /\ location'[open'[n + 1]] = slot
      /\ \A i \in n + 2 .. Len(open) + 1 : location'[open'[i]] = location[open[i - 1]]
  <2>1. \A i \in 1 .. n : i \in 1 .. Len(open)
    BY <1>1, <1>2
  <2>2. \A i \in n + 2 .. Len(open) + 1 : i - 1 \in 1 .. Len(open)
    BY <1>1, <1>2
  <2> QED
    BY <1>1, <1>3, <1>4, <2>1, <2>2
<1>7. ASSUME NEW i \in 1 .. Len(open'), NEW j \in 1 .. Len(open'), i < j
      PROVE  location'[open'[i]] > location'[open'[j]]
  <2> DEFINE f == [k \in 1 .. Len(open) |-> location[open[k]]]
             g == [k \in 1 .. Len(open) + 1 |-> location'[open'[k]]]
  <2>1. /\ \A k \in 1 .. Len(open) : f[k] \in Nat
        /\ \A k, l \in 1 .. Len(open) : k < l => f[k] > f[l]
        /\ \A k \in 1 .. n : f[k] > slot
        /\ \A k \in n + 1 .. Len(open) : f[k] < slot
    <3>1. /\ \A k \in 1 .. n : k \in 1 .. Len(open)
          /\ \A k \in n + 1 .. Len(open) : k \in 1 .. Len(open)
      BY <1>1, <1>2
    <3> QED
      BY <1>1, <1>2, <1>5, <3>1
  <2>2. /\ \A k \in 1 .. n : g[k] = f[k]
        /\ g[n + 1] = slot
        /\ \A k \in n + 2 .. Len(open) + 1 : g[k] = f[k - 1]
    <3>1. /\ \A k \in 1 .. n : k \in 1 .. Len(open) /\ k \in 1 .. Len(open) + 1
          /\ n + 1 \in 1 .. Len(open) + 1
          /\ \A k \in n + 2 .. Len(open) + 1 :
               k - 1 \in 1 .. Len(open) /\ k \in 1 .. Len(open) + 1
      BY <1>1, <1>2
    <3> QED
      BY <1>6, <3>1
  <2>3. i \in 1 .. Len(open) + 1 /\ j \in 1 .. Len(open) + 1
    BY <1>4
  <2>4. location'[open'[i]] = g[i] /\ location'[open'[j]] = g[j]
    BY <2>3
  <2> HIDE DEF f, g
  <2>5. g[i] > g[j]
    <3>1. Placed(f, g, Len(open), n, slot)
      BY <2>1, <2>2 DEF Placed
    <3>2. slot \in Nat /\ i < j
      BY <1>1, <1>7
    <3> QED
      BY <1>1, <1>2, <2>3, <3>1, <3>2, InsertDescending
  <2> QED
    BY <2>4, <2>5
<1>8. ASSUME NEW u \in Open'
      PROVE  \E i \in 1 .. Len(open') : open'[i] = u
  <2>1. CASE u = new
    BY SMTT(40), <1>1, <1>2, <1>4, <2>1
  <2>2. CASE u # new
    <3>1. u \in 1 .. Len(location) /\ location[u] # 0
      BY <1>1, <1>3, <2>2 DEF Open
    <3>2. PICK i \in 1 .. Len(open) : open[i] = u
      BY <1>1, <1>5, <3>1 DEF Open, ElementsOf
    <3>3. CASE i <= n
      <4>1. i \in 1 .. n /\ i \in 1 .. Len(open')
        BY <1>1, <1>2, <1>4, <3>3
      <4> QED
        BY <1>4, <3>2, <4>1
    <3>4. CASE i > n
      <4>1. i + 1 \in n + 2 .. Len(open) + 1 /\ (i + 1) - 1 = i /\ i + 1 \in 1 .. Len(open')
        BY <1>1, <1>2, <1>4, <3>4
      <4> QED
        BY <1>4, <3>2, <4>1
    <3> QED
      BY <1>1, <1>2, <3>3, <3>4
  <2> QED
    BY <2>1, <2>2
<1>9. ASSUME NEW i \in 1 .. Len(open')
      PROVE  open'[i] \in Open'
  <2>1. location'[open'[i]] # 0
    <3>1. \A k \in 1 .. Len(open) : location[open[k]] # 0
      BY <1>5 DEF Open, ElementsOf
    <3>2. CASE i <= n
      <4>1. i \in 1 .. n /\ i \in 1 .. Len(open)
        BY <1>1, <1>2, <3>2
      <4> QED
        BY <1>6, <3>1, <4>1
    <3>3. CASE i = n + 1
      BY <1>1, <1>6, <3>3
    <3>4. CASE i > n + 1
      <4>1. i \in n + 2 .. Len(open) + 1 /\ i - 1 \in 1 .. Len(open)
        BY <1>1, <1>2, <1>4, <3>4
      <4> QED
        BY <1>6, <3>1, <4>1
    <3>5. i \in Nat /\ n \in Nat
      BY <1>1, <1>2
    <3>6. i <= n \/ i = n + 1 \/ i > n + 1
      BY <3>5
    <3> QED
      BY <3>2, <3>3, <3>4, <3>6
  <2> QED
    BY <1>3, <1>4, <2>1, ElementOfSeq DEF Open
<1>10. ElementsOf(open') = Open'
  BY <1>8, <1>9 DEF ElementsOf
<1>11. open' \in Seq(1 .. Len(location) + 1)
  BY <1>4 DEF new
<1>12. OpenSorted'
  BY <1>7, <1>10 DEF OpenSorted, ElementsOf
<1> QED
  BY <1>11, <1>12

LEMMA CaptureLocalInv ==
  ASSUME IndInv, NEW slot, CaptureLocal(slot)
  PROVE  IndInv'
<1> USE DEF CaptureLocal
<1>1. frames # <<>>
  BY DEF IndInv, TypeOK
<1>2. /\ slot \in 1 .. Height /\ Height \in Nat /\ Len(location) \in Nat
      /\ DOMAIN location = 1 .. Len(location)
  BY <1>1, Running, Ranges, UpvaluesAssumption DEF LocalSlots, IndInv
<1>3. Height' = Height /\ StackType'
  BY DEF IndInv, TypeOK, StackType, Height
<1>4. FramesStacked'
  BY <1>1, <1>3, Running, FramesKept
<1>5. CASE Captured(slot)
  <2> DEFINE u == open[Passed(slot) + 1]
  <2>1. Give(u) /\ UNCHANGED <<location, closed, open, of>>
    BY <1>5
  <2>2. u \in DOMAIN location
    <3>1. Passed(slot) \in 0 .. Len(open)
      BY <1>2, PassedProperty DEF IndInv
    <3>2. Passed(slot) + 1 \in 1 .. Len(open)
      BY <1>5, <3>1, Ranges DEF Captured, IndInv
    <3> QED
      BY <1>2, <3>2, Ranges DEF IndInv
  <2> HIDE DEF u
  <2>3. ClosureType'
    BY <2>1, <2>2, GiveKeeps
  <2>4. ListType' /\ OpenAtHome'
    BY <1>3, <2>1 DEF IndInv, TypeOK, ListType, OpenAtHome, Open
  <2>5. OpenSorted'
    BY <2>1, ListKept
  <2> QED
    BY <1>3, <1>4, <2>3, <2>4, <2>5, Parts
<1>6. CASE ~ Captured(slot)
  <2>1. /\ location' = Append(location, slot)
        /\ closed' = Append(closed, Nil)
        /\ open' = Inserted(Len(location) + 1, slot)
        /\ of' = Append(of, home[slot])
        /\ Give(Len(location) + 1)
    BY <1>6
  <2>2. slot \in 0 .. MaxStack /\ home[slot] \in Vars /\ Nil \in Values
    BY <1>2, Ranges, UpvaluesAssumption DEF IndInv
  <2>3. /\ location' \in Seq(0 .. MaxStack) /\ Len(location') = Len(location) + 1
        /\ DOMAIN location' = 1 .. Len(location) + 1
        /\ \A u \in 1 .. Len(location) : location'[u] = location[u]
        /\ location'[Len(location) + 1] = slot
    <3>1. /\ location' \in Seq(0 .. MaxStack) /\ Len(location') = Len(location) + 1
          /\ \A u \in 1 .. Len(location) : location'[u] = location[u]
          /\ location'[Len(location) + 1] = slot
      BY <2>1, <2>2, Appended DEF IndInv, TypeOK
    <3> QED
      BY <3>1, LenProperties
  <2>4. closed' \in Seq(Values) /\ Len(closed') = Len(location) + 1
    <3>1. closed \in Seq(Values) /\ Len(closed) = Len(location)
      BY DEF IndInv, TypeOK
    <3>2. /\ Append(closed, Nil) \in Seq(Values)
          /\ Len(Append(closed, Nil)) = Len(closed) + 1
      BY <2>2, <3>1, Appended
    <3> QED
      BY <2>1, <3>1, <3>2
  <2>5. /\ of' \in Seq(Vars) /\ Len(of') = Len(location) + 1
        /\ \A u \in 1 .. Len(location) : of'[u] = of[u]
        /\ of'[Len(location) + 1] = home[slot]
    BY SMTT(40), <2>1, <2>2, Appended DEF IndInv, TypeOK
  <2>6. OpenSorted' /\ open' \in Seq(1 .. Len(location) + 1)
    BY <1>2, <1>6, <2>1, InsertKeeps
  <2>7. ListType'
    <3>1. \A u \in stranded : u \in 1 .. Len(location) /\ location[u] # 0
      BY Ranges DEF IndInv
    <3>2. stranded' \subseteq Open'
      BY <1>2, <2>3, <3>1 DEF Open
    <3> QED
      BY <2>3, <2>4, <2>5, <2>6, <3>2 DEF ListType
  <2>8. ClosureType'
    <3>1. Len(location) + 1 \in DOMAIN location' /\ DOMAIN location \subseteq DOMAIN location'
      BY <1>2, <2>3
    <3>2. pending > 0 /\ UNCHANGED frames
      OBVIOUS
    <3> QED
      BY <2>1, <3>1, <3>2, GiveKeeps
  <2>9. OpenAtHome'
    <3> SUFFICES ASSUME NEW u \in Open' \ stranded'
                 PROVE  location'[u] <= Height' /\ of'[u] = home'[location'[u]]
      BY DEF OpenAtHome
    <3>1. u \in 1 .. Len(location) + 1 /\ location'[u] # 0 /\ u \notin stranded
      BY <2>3 DEF Open
    <3>2. CASE u = Len(location) + 1
      BY <1>2, <1>3, <2>3, <2>5, <3>2
    <3>3. CASE u # Len(location) + 1
      <4>1. u \in 1 .. Len(location)
        BY <1>2, <3>1, <3>3
      <4>2. location[u] <= Height /\ of[u] = home[location[u]]
        BY <1>2, <2>3, <3>1, <4>1 DEF IndInv, OpenAtHome, Open
      <4> QED
        BY <1>3, <2>3, <2>5, <4>1, <4>2
    <3> QED
      BY <3>2, <3>3
  <2> QED
    BY <1>3, <1>4, <2>6, <2>7, <2>8, <2>9, Parts
<1> QED
  BY <1>5, <1>6

LEMMA CallInv ==
  ASSUME IndInv, NEW c \in 1 .. Len(closures), NEW n \in Nat, Call(c, n)
  PROVE  IndInv'
<1> USE DEF Call
<1>1. /\ frames # <<>> /\ Height \in Nat /\ Height <= MaxStack
      /\ Len(frames) \in Nat \ {0} /\ Frame.slots \in 1 .. MaxStack
      /\ \A i \in 1 .. Len(frames) : frames[i].slots \in 1 .. MaxStack
      /\ Len(closures) \in Nat
  BY Running, Ranges, LenProperties DEF Ready, IndInv, TypeOK
<1> DEFINE new == [slots |-> Height - n, closure |-> c]
<1>2. /\ Height - n \in 1 .. MaxStack /\ Height - n <= Height /\ Height - n > Frame.slots
      /\ new.slots = Height - n
      /\ new \in [slots : 1 .. MaxStack, closure : 0 .. Len(closures)]
  BY <1>1, UpvaluesAssumption
<1>3. frames' = Append(frames, new)
  OBVIOUS
<1> HIDE DEF new
<1>4. /\ frames' \in Seq([slots : 1 .. MaxStack, closure : 0 .. Len(closures)])
      /\ Len(frames') = Len(frames) + 1
      /\ \A i \in 1 .. Len(frames) : frames'[i] = frames[i]
      /\ frames'[Len(frames) + 1] = new
  <2> DEFINE T == [slots : 1 .. MaxStack, closure : 0 .. Len(closures)]
  <2>1. frames \in Seq(T) /\ new \in T
    BY <1>2 DEF IndInv, TypeOK
  <2> HIDE DEF T
  <2>2. /\ Append(frames, new) \in Seq(T) /\ Len(Append(frames, new)) = Len(frames) + 1
        /\ \A i \in 1 .. Len(frames) : Append(frames, new)[i] = frames[i]
        /\ Append(frames, new)[Len(frames) + 1] = new
    BY <2>1, Appended
  <2> QED
    BY <1>3, <2>2 DEF T
<1>5. StackType' /\ ListType' /\ OpenAtHome' /\ OpenSorted' /\ Height' = Height
  BY ListKept DEF IndInv, TypeOK, StackType, ListType, OpenAtHome, Open, Height
<1>6. frames' # <<>>
  <2>1. Len(frames') # 0
    BY <1>1, <1>4
  <2> QED
    BY <2>1
<1>7. ClosureType'
  BY <1>4, <1>6 DEF IndInv, TypeOK, ClosureType
<1>8. FramesStacked'
  <2>1. Frame'.slots = Height - n
    BY <1>2, <1>4 DEF Frame
  <2>2. ASSUME NEW i \in 1 .. Len(frames'), NEW j \in 1 .. Len(frames'), i < j
        PROVE  frames'[i].slots < frames'[j].slots
    <3>1. i \in 1 .. Len(frames)
      BY <1>1, <1>4, <2>2
    <3>2. CASE j \in 1 .. Len(frames)
      BY <1>4, <2>2, <3>1, <3>2 DEF IndInv, FramesStacked
    <3>3. CASE j \notin 1 .. Len(frames)
      <4>1. j = Len(frames) + 1
        BY <1>1, <1>4, <3>3
      <4>2. frames[i].slots <= Frame.slots
        <5>1. CASE i = Len(frames)
          BY <1>1, <5>1 DEF Frame
        <5>2. CASE i # Len(frames)
          <6>1. i < Len(frames) /\ Len(frames) \in 1 .. Len(frames)
            BY <1>1, <3>1, <5>2
          <6> QED
            BY <1>1, <3>1, <6>1 DEF IndInv, FramesStacked, Frame
        <5> QED
          BY <5>1, <5>2
      <4> QED
        BY SMTT(40), <1>1, <1>2, <1>4, <3>1, <4>1, <4>2
    <3> QED
      BY <3>2, <3>3
  <2> QED
    BY <1>2, <1>5, <2>1, <2>2 DEF FramesStacked
<1> QED
  BY <1>5, <1>7, <1>8, Parts

LEMMA ReturnInv ==
  ASSUME IndInv, Return
  PROVE  IndInv'
<1> DEFINE m == Frame.slots - 1
<1>1. /\ frames # <<>> /\ Height \in Nat /\ Height <= MaxStack /\ pending = 0
      /\ Len(frames) \in Nat \ {0} /\ Frame.slots \in 1 .. MaxStack
      /\ Frame.slots < Height /\ m \in 0 .. Height
  BY SMTT(40), Running, Ranges, UpvaluesAssumption DEF Return, Ready, IndInv
<1>2. /\ closed' \in Seq(Values) /\ Len(closed') = Len(location)
      /\ location' \in Seq(0 .. MaxStack) /\ Len(location') = Len(location)
      /\ open' \in Seq(1 .. Len(location))
      /\ OpenSorted'
      /\ \A u \in 1 .. Len(location) :
           location'[u] # 0 => location'[u] = location[u] /\ location[u] < Frame.slots
      /\ stranded' = {u \in stranded : location'[u] # 0}
  <2>1. Frame.slots \in Int /\ Frame.slots > 0 /\ CloseUpvalues(Frame.slots)
    BY <1>1, UpvaluesAssumption DEF Return
  <2> QED
    BY <2>1, Closes DEF IndInv
<1>3. DOMAIN location' = 1 .. Len(location) /\ DOMAIN location = 1 .. Len(location)
  BY <1>2, Ranges, LenProperties DEF IndInv
<1>4. ListType'
  <2>1. stranded' \subseteq Open'
    BY <1>2, <1>3, Ranges DEF IndInv, Open
  <2> QED
    BY <1>2, <1>3, <2>1 DEF Return, IndInv, TypeOK, ListType
<1>5. /\ frames' \in Seq([slots : 1 .. MaxStack, closure : 0 .. Len(closures)])
      /\ Len(frames') = Len(frames) - 1
      /\ \A i \in 1 .. Len(frames) - 1 : frames'[i] = frames[i]
  <2>1. frames' = SubSeq(frames, 1, Len(frames) - 1)
    BY DEF Return
  <2>2. Len(frames) - 1 \in 0 .. Len(frames)
    BY <1>1
  <2>3. frames \in Seq([slots : 1 .. MaxStack, closure : 0 .. Len(closures)])
    BY DEF IndInv, TypeOK
  <2> QED
    BY ZenonT(60), <2>1, <2>2, <2>3, Cut
<1>6. ClosureType'
  BY <1>1, <1>3, <1>5 DEF Return, IndInv, TypeOK, ClosureType
<1>7. /\ StackType' /\ Height' \in Nat /\ m <= Height'
      /\ Len(frames) # 1 => Height' = Frame.slots
      /\ \A i \in 1 .. m : home'[i] = home[i]
  <2>1. CASE Len(frames) = 1
    <3>1. stack' = SubSeq(stack, 1, Height - 2) /\ home' = SubSeq(home, 1, Height - 2)
      BY <2>1 DEF Return
    <3>2. Height - 2 \in 0 .. Height /\ m <= Height - 2
      BY <1>1, UpvaluesAssumption
    <3>3. StackType' /\ Height' = Height - 2 /\ \A i \in 1 .. Height - 2 : home'[i] = home[i]
      BY <3>1, <3>2, DropKeeps
    <3>4. m \in Nat
      BY <1>1
    <3> HIDE DEF m
    <3> QED
      BY <1>1, <2>1, <3>2, <3>3, <3>4
  <2>2. CASE Len(frames) # 1
    <3>1. /\ stack' = Append(SubSeq(stack, 1, m), stack[Height])
          /\ home' = Append(SubSeq(home, 1, m), Fresh)
          /\ Unused # {}
      BY <2>2 DEF Return
    <3> HIDE DEF m
    <3>2. stack[Height] \in Values /\ Fresh \in Vars
      BY <1>1, <3>1, Ranges DEF IndInv, Fresh, Unused
    <3>3. /\ SubSeq(stack, 1, m) \in Seq(Values) /\ Len(SubSeq(stack, 1, m)) = m
          /\ SubSeq(home, 1, m) \in Seq(Vars) /\ Len(SubSeq(home, 1, m)) = m
          /\ \A i \in 1 .. m : SubSeq(home, 1, m)[i] = home[i]
      <4>1. m \in 0 .. Len(stack) /\ m \in 0 .. Len(home)
        BY <1>1 DEF IndInv, TypeOK, Height
      <4> QED
        BY <4>1, Cut DEF IndInv, TypeOK
    <3>4. stack' \in Seq(Values) /\ Len(stack') = m + 1
      BY <3>1, <3>2, <3>3, Appended
    <3>5. /\ home' \in Seq(Vars) /\ Len(home') = m + 1
          /\ \A i \in 1 .. m : home'[i] = home[i]
      BY <3>1, <3>2, <3>3, Appended
    <3>6. Height' = m + 1 /\ m + 1 = Frame.slots
      BY <1>1, <3>4 DEF Height, m
    <3> QED
      BY <1>1, <2>2, <3>4, <3>5, <3>6 DEF StackType
  <2> QED
    BY <2>1, <2>2
<1>8. FramesStacked'
  <2>1. ASSUME NEW i \in 1 .. Len(frames'), NEW j \in 1 .. Len(frames'), i < j
        PROVE  frames'[i].slots < frames'[j].slots
    <3>1. /\ i \in 1 .. Len(frames) - 1 /\ j \in 1 .. Len(frames) - 1
          /\ i \in 1 .. Len(frames) /\ j \in 1 .. Len(frames)
      BY <1>1, <1>5
    <3> QED
      BY <1>5, <2>1, <3>1 DEF IndInv, FramesStacked
  <2>2. ASSUME frames' # <<>>
        PROVE  Frame'.slots <= Height'
    <3>1. Len(frames') \in Nat \ {0}
      BY <1>5, <2>2, EmptySeq
    <3> DEFINE k == Len(frames) - 1
    <3>2. k \in 1 .. Len(frames) - 1 /\ k \in 1 .. Len(frames)
          /\ Len(frames) \in 1 .. Len(frames) /\ k < Len(frames) /\ Len(frames) # 1
      BY <1>1, <1>5, <3>1
    <3>3. Frame' = frames[k]
      BY <1>5, <3>2 DEF Frame
    <3>4. frames[k].slots < frames[Len(frames)].slots
      BY <3>2 DEF IndInv, FramesStacked
    <3>5. frames[k].slots \in 1 .. MaxStack
      BY <1>1, <3>2, Running
    <3> QED
      BY <1>1, <1>7, <3>2, <3>3, <3>4, <3>5 DEF Frame
  <2> QED
    BY <2>1, <2>2 DEF FramesStacked
<1>9. OpenAtHome'
  <2>1. m \in Nat /\ of' = of
    BY <1>1 DEF Return
  <2>2. \A u \in 1 .. Len(location) :
          location'[u] # 0 /\ u \notin stranded'
            => u \notin stranded /\ location'[u] = location[u] /\ location[u] <= m
    BY SMTT(40), <1>1, <1>2, Ranges, UpvaluesAssumption DEF IndInv
  <2> HIDE DEF m
  <2> QED
    BY <1>2, <1>3, <1>7, <2>1, <2>2, StayAtHome
<1> QED
  BY <1>2, <1>4, <1>6, <1>7, <1>8, <1>9, Parts

LEMMA StepInv ==
  ASSUME IndInv, [Next]_vars
  PROVE  IndInv'
<1>1. ASSUME NEW v \in Values, Enter(v) \/ Declare(v)
      PROVE  IndInv'
  BY <1>1, EnterInv, DeclareInv
<1>2. ASSUME NEW slot \in 1 .. MaxStack, GetLocal(slot) \/ SetLocal(slot) \/ CaptureLocal(slot)
      PROVE  IndInv'
  BY <1>2, GetLocalInv, SetLocalInv, CaptureLocalInv
<1>3. ASSUME NEW k \in 1 .. MaxUpvalues, GetUpvalue(k) \/ SetUpvalue(k) \/ PassOn(k)
      PROVE  IndInv'
  BY <1>3, GetUpvalueInv, SetUpvalueInv, PassOnInv
<1>4. CASE Pop
  BY <1>4, PopInv
<1>5. CASE CloseUpvalue
  BY <1>5, CloseUpvalueInv
<1>6. ASSUME NEW v \in Values, NEW n \in 0 .. MaxUpvalues, Closure(v, n)
      PROVE  IndInv'
  BY <1>6, ClosureInv
<1>7. ASSUME NEW c \in 1 .. MaxClosures, NEW n \in 0 .. MaxStack, c <= Len(closures), Call(c, n)
      PROVE  IndInv'
  <2>1. Len(closures) \in Nat
    BY LenProperties DEF IndInv, TypeOK
  <2>2. c \in 1 .. Len(closures) /\ n \in Nat
    BY <1>7, <2>1, UpvaluesAssumption
  <2> QED
    BY <1>7, <2>2, CallInv
<1>8. CASE Return
  BY <1>8, ReturnInv
<1>9. CASE UNCHANGED vars
  BY <1>9, SameInv
<1> QED
  BY <1>1, <1>2, <1>3, <1>4, <1>5, <1>6, <1>7, <1>8, <1>9 DEF Next

-----------------------------------------------------------------------------
(* The theorems *)

\* The inductive invariant holds for any depth of calls and any bounds.
THEOREM Invariance == Spec => []IndInv
<1>1. Init => IndInv
  BY InitInv
<1>2. IndInv /\ [Next]_vars => IndInv'
  BY StepInv
<1> QED
  BY <1>1, <1>2, PTL DEF Spec

\* Slots, frames, closures and upvalues refer to one another within their ranges,
\* whatever is declared, captured, called and returned from.
THEOREM UpvaluesTypeOK == Spec => []TypeOK
<1>1. IndInv => TypeOK
  BY DEF IndInv
<1> QED
  BY <1>1, Invariance, PTL

\* The list of open upvalues is complete and sorted, so that capture_upvalue
\* never makes a second upvalue of a slot.
THEOREM UpvaluesOpenSorted == Spec => []OpenSorted
<1>1. IndInv => OpenSorted
  BY DEF IndInv
<1> QED
  BY <1>1, Invariance, PTL

\* No upvalue points above the top of the stack or at a later tenant of its
\* slot, except where OP_POP gave the slot away: OP_CLOSE_UPVALUE and OP_RETURN
\* close every upvalue they must.
THEOREM UpvaluesOpenAtHome == Spec => []OpenAtHome
<1>1. IndInv => OpenAtHome
  BY DEF IndInv
<1> QED
  BY <1>1, Invariance, PTL

-----------------------------------------------------------------------------
(* Who has a variable *)

\* A variable has one slot or none, and one upvalue or none.  Among the slots from
\* base on, a closed upvalue's variable has none, nor has a stranded one's (str),
\* and the others' are where the upvalues point.
Owned(hm, loc, ofs, base, str) ==
  /\ \A i, j \in 1 .. Len(hm) : hm[i] = hm[j] => i = j
  /\ \A u, w \in 1 .. Len(loc) : ofs[u] = ofs[w] => u = w
  /\ \A u \in 1 .. Len(loc) : loc[u] # 0 => loc[u] >= base
  /\ \A u \in 1 .. Len(loc) :
       loc[u] = 0 \/ u \in str => \A i \in base .. Len(hm) : ofs[u] # hm[i]
  /\ \A u \in 1 .. Len(loc) :
       loc[u] # 0 /\ u \notin str => loc[u] <= Len(hm) /\ ofs[u] = hm[loc[u]]

\* The lowest slot of the script that is running; below it lies what the
\* scripts before it have left on the stack.
Base == IF frames = <<>> THEN Height + 1 ELSE frames[1].slots

\* Upvalue u is one of the upvalues of a closure.
HeldIn(cls, u) == \E c \in 1 .. Len(cls) : \E k \in 1 .. Len(cls[c]) : cls[c][k] = u

AllHeld == \A u \in 1 .. Len(location) : HeldIn(closures, u)

\* The variables of each closure.
VariablesOf(cls, ofs) ==
  [c \in 1 .. Len(cls) |-> [k \in 1 .. Len(cls[c]) |-> ofs[cls[c][k]]]]

VarInv ==
  /\ IndInv
  /\ Owned(home, location, of, Base, stranded)
  /\ AllHeld

\* The variables that have a slot or an upvalue.
Known == ElementsOf(home) \cup ElementsOf(of)

\* The values Variables knows.
Value == [x \in Known |-> ValueOf(x)]

\* The running function's slots are slots of the running script.
LEMMA BaseRange ==
  ASSUME IndInv
  PROVE  /\ Base \in Nat /\ Base >= 1 /\ Base <= Height + 1
         /\ frames # <<>> => Base <= Frame.slots /\ Frame.slots \in Nat /\ Frame.slots <= Height
<1>1. Height \in Nat
  BY Ranges DEF IndInv
<1>2. CASE frames = <<>>
  BY <1>1, <1>2 DEF Base
<1>3. CASE frames # <<>>
  <2>1. /\ Len(frames) \in Nat \ {0} /\ Frame.slots \in 1 .. MaxStack /\ Frame.slots <= Height
        /\ frames[1].slots \in 1 .. MaxStack
    BY <1>3, Running
  <2>2. frames[1].slots <= Frame.slots
    <3>1. CASE Len(frames) = 1
      BY <2>1, <3>1 DEF Frame
    <3>2. CASE Len(frames) # 1
      <4>1. 1 \in 1 .. Len(frames) /\ Len(frames) \in 1 .. Len(frames) /\ 1 < Len(frames)
        BY <2>1, <3>2
      <4>2. frames[1].slots < frames[Len(frames)].slots
        BY <4>1 DEF IndInv, FramesStacked
      <4> QED
        BY <2>1, <4>2, UpvaluesAssumption DEF Frame
    <3> QED
      BY <3>1, <3>2
  <2>3. Base = frames[1].slots /\ Frame.slots \in Nat /\ frames[1].slots \in Nat /\ frames[1].slots >= 1
    BY <1>3, <2>1, UpvaluesAssumption DEF Base
  <2> QED
    BY <1>1, <2>1, <2>2, <2>3
<1> QED
  BY <1>2, <1>3

LEMMA BaseKept ==
  ASSUME frames # <<>>, UNCHANGED frames
  PROVE  Base' = Base
BY DEF Base

-----------------------------------------------------------------------------
(* Reading a variable *)

\* HasCell and ValueOf, of a state given by its parts.
CellIn(loc, ofs, x) == \E u \in DOMAIN ofs : ofs[u] = x /\ loc[u] = 0

ReadOf(stk, hm, loc, cl, ofs, x) ==
  IF x \in ElementsOf(hm) /\ ~ CellIn(loc, ofs, x)
    THEN stk[CHOOSE i \in 1 .. Len(stk) : hm[i] = x]
    ELSE cl[CHOOSE u \in DOMAIN ofs : ofs[u] = x]

ReadsIn(stk, hm, loc, cl, ofs) ==
  /\ \A i \in 1 .. Len(stk) :
       CellIn(loc, ofs, hm[i]) \/ ReadOf(stk, hm, loc, cl, ofs, hm[i]) = stk[i]
  /\ \A u \in 1 .. Len(loc) :
       ReadOf(stk, hm, loc, cl, ofs, ofs[u]) = IF loc[u] = 0 THEN cl[u] ELSE stk[loc[u]]

\* Where a variable has a slot its value is there, otherwise in its upvalue.
LEMMA ReadsOne ==
  ASSUME NEW stk, NEW hm, NEW loc, NEW cl, NEW ofs, NEW base,
         Len(hm) = Len(stk), Len(stk) \in Nat, DOMAIN ofs = 1 .. Len(loc),
         \A u \in 1 .. Len(loc) : loc[u] \in Nat,
         Owned(hm, loc, ofs, base, {})
  PROVE  ReadsIn(stk, hm, loc, cl, ofs)
<1>1. ASSUME NEW i \in 1 .. Len(stk), ~ CellIn(loc, ofs, hm[i])
      PROVE  ReadOf(stk, hm, loc, cl, ofs, hm[i]) = stk[i]
  <2>1. hm[i] \in ElementsOf(hm)
    BY DEF ElementsOf
  <2>2. (CHOOSE j \in 1 .. Len(stk) : hm[j] = hm[i]) = i
    BY DEF Owned
  <2> QED
    BY <1>1, <2>1, <2>2 DEF ReadOf
<1>2. ASSUME NEW u \in 1 .. Len(loc)
      PROVE  ReadOf(stk, hm, loc, cl, ofs, ofs[u]) = IF loc[u] = 0 THEN cl[u] ELSE stk[loc[u]]
  <2>1. CASE loc[u] = 0
    <3>1. CellIn(loc, ofs, ofs[u])
      BY <2>1 DEF CellIn
    <3>2. (CHOOSE w \in DOMAIN ofs : ofs[w] = ofs[u]) = u
      BY DEF Owned
    <3> QED
      BY <2>1, <3>1, <3>2 DEF ReadOf
  <2>2. CASE loc[u] # 0
    <3>1. loc[u] <= Len(hm) /\ ofs[u] = hm[loc[u]]
      BY <2>2 DEF Owned
    <3>2. loc[u] \in 1 .. Len(stk)
      BY <2>2, <3>1
    <3>3. ~ CellIn(loc, ofs, ofs[u])
      BY <2>2 DEF CellIn, Owned
    <3> QED
      BY <1>1, <2>2, <3>1, <3>2, <3>3
  <2> QED
    BY <2>1, <2>2
<1> QED
  BY <1>1, <1>2 DEF ReadsIn

\* The values of Variables are those of the slots and of the upvalues, while none
\* is stranded.
Reads ==
  /\ \A i \in 1 .. Height :
       home[i] \in Known /\ (HasCell(home[i]) \/ Value[home[i]] = stack[i])
  /\ \A u \in 1 .. Len(location) : of[u] \in Known /\ Deref(u) = {Value[of[u]]}

LEMMA ReadsNow ==
  ASSUME VarInv, stranded = {}
  PROVE  Reads
<1>1. /\ Len(home) = Len(stack) /\ Len(stack) \in Nat /\ DOMAIN of = 1 .. Len(location)
      /\ Len(of) = Len(location) /\ Height = Len(stack)
      /\ \A u \in 1 .. Len(location) : location[u] \in Nat
  BY LenProperties, Ranges, UpvaluesAssumption DEF VarInv, IndInv, TypeOK, Height
<1>2. /\ \A x : ReadOf(stack, home, location, closed, of, x) = ValueOf(x)
      /\ \A x : CellIn(location, of, x) <=> HasCell(x)
  BY DEF ReadOf, ValueOf, Height, CellIn, HasCell
<1>3. Owned(home, location, of, Base, {})
  BY DEF VarInv
<1>4. /\ \A i \in 1 .. Len(stack) : HasCell(home[i]) \/ ValueOf(home[i]) = stack[i]
      /\ \A u \in 1 .. Len(location) :
           ValueOf(of[u]) = IF location[u] = 0 THEN closed[u] ELSE stack[location[u]]
  <2>1. ReadsIn(stack, home, location, closed, of)
    <3> DEFINE base == Base
    <3>1. Owned(home, location, of, base, {})
      BY <1>3
    <3> HIDE DEF base
    <3> QED
      BY <1>1, <3>1, ReadsOne
  <2>2. /\ \A i \in 1 .. Len(stack) :
             CellIn(location, of, home[i]) \/ ReadOf(stack, home, location, closed, of, home[i]) = stack[i]
        /\ \A u \in 1 .. Len(location) :
             ReadOf(stack, home, location, closed, of, of[u])
               = IF location[u] = 0 THEN closed[u] ELSE stack[location[u]]
    BY <2>1 DEF ReadsIn
  <2> QED
    BY <1>2, <2>2
<1>5. /\ \A i \in 1 .. Len(stack) : home[i] \in Known
      /\ \A u \in 1 .. Len(location) : of[u] \in Known
  BY <1>1 DEF Known, ElementsOf
<1>6. ASSUME NEW u \in 1 .. Len(location)
      PROVE  Deref(u) = {ValueOf(of[u])}
  <2>1. location[u] # 0 => location[u] <= Height
    BY <1>1, <1>3 DEF Owned
  <2> QED
    BY <1>4, <2>1 DEF Deref
<1> QED
  BY <1>1, <1>4, <1>5, <1>6 DEF Reads, Value

\* No slot of the running script has a variable with a cell of its own.
LEMMA InUse ==
  ASSUME VarInv, stranded = {}, NEW i \in Base .. Height
  PROVE  /\ i \in 1 .. Height /\ ~ HasCell(home[i])
         /\ home[i] \in Known /\ Value[home[i]] = stack[i]
<1>1. i \in 1 .. Height
  BY BaseRange, Ranges DEF VarInv, IndInv
<1>2. ~ HasCell(home[i])
  <2>1. /\ Height = Len(home) /\ DOMAIN of = 1 .. Len(location)
        /\ Owned(home, location, of, Base, stranded)
    BY LenProperties DEF VarInv, IndInv, TypeOK
  <2> QED
    BY <2>1 DEF Owned, HasCell
<1> QED
  BY <1>1, <1>2, ReadsNow DEF Reads

LEMMA ReadsNext ==
  ASSUME VarInv', stranded' = {}
  PROVE  Reads'
<1>1. /\ Len(home)' = Len(stack)' /\ Len(stack)' \in Nat /\ (DOMAIN of)' = 1 .. Len(location)'
      /\ Len(of)' = Len(location)' /\ Height' = Len(stack')
      /\ \A u \in 1 .. Len(location') : location'[u] \in Nat
  <2> DEFINE T == 0 .. MaxStack
  <2>1. /\ location' \in Seq(T) /\ of' \in Seq(Vars) /\ Len(of') = Len(location')
        /\ stack' \in Seq(Values) /\ Len(home') = Len(stack')
    BY DEF VarInv, IndInv, TypeOK, Height
  <2>2. \A n \in T : n \in Nat
    BY UpvaluesAssumption
  <2> HIDE DEF T
  <2>3. \A u \in 1 .. Len(location') : location'[u] \in Nat
    BY <2>1, <2>2, ElementOfSeq
  <2> QED
    BY <2>1, <2>3, LenProperties DEF Height
<1>2. /\ \A x : ReadOf(stack', home', location', closed', of', x) = ValueOf(x)'
      /\ \A x : CellIn(location', of', x) <=> HasCell(x)'
  BY DEF ReadOf, ValueOf, Height, CellIn, HasCell
<1>3. Owned(home', location', of', Base', {})
  BY DEF VarInv, Owned
<1>4. /\ \A i \in 1 .. Len(stack') : HasCell(home[i])' \/ ValueOf(home[i])' = stack'[i]
      /\ \A u \in 1 .. Len(location') :
           ValueOf(of[u])' = IF location'[u] = 0 THEN closed'[u] ELSE stack'[location'[u]]
  <2>1. ReadsIn(stack', home', location', closed', of')
    BY <1>1, <1>3, ReadsOne
  <2>2. /\ \A i \in 1 .. Len(stack') :
             \/ CellIn(location', of', home'[i])
             \/ ReadOf(stack', home', location', closed', of', home'[i]) = stack'[i]
        /\ \A u \in 1 .. Len(location') :
             ReadOf(stack', home', location', closed', of', of'[u])
               = IF location'[u] = 0 THEN closed'[u] ELSE stack'[location'[u]]
    BY <2>1 DEF ReadsIn
  <2> QED
    BY <1>2, <2>2
<1>5. /\ \A i \in 1 .. Len(stack') : home'[i] \in Known'
      /\ \A u \in 1 .. Len(location') : of'[u] \in Known'
  BY <1>1 DEF Known, ElementsOf
<1>6. ASSUME NEW u \in 1 .. Len(location')
      PROVE  Deref(u)' = {ValueOf(of[u])'}
  <2>1. location'[u] # 0 => location'[u] <= Height'
    BY <1>1, <1>3 DEF Owned
  <2> QED
    BY <1>4, <2>1 DEF Deref
<1> QED
  BY <1>1, <1>4, <1>5, <1>6 DEF Reads, Value

\* A function that gives slots and upvalues what they hold is Value.
LEMMA ValuesNext ==
  ASSUME VarInv', stranded' = {}, NEW f,
         \A i \in 1 .. Len(stack') : HasCell(home[i])' \/ f[home'[i]] = stack'[i],
         \A u \in 1 .. Len(location') : Deref(u)' = {f[of'[u]]}
  PROVE  Value' = [x \in Known' |-> f[x]]
<1>1. Reads'
  BY ReadsNext
<1>2. /\ Len(home)' = Len(stack)' /\ Len(of)' = Len(location)'
      /\ DOMAIN of' = 1 .. Len(location')
  BY LenProperties DEF VarInv, IndInv, TypeOK, Height
<1>3. ASSUME NEW u \in 1 .. Len(location')
      PROVE  Value'[of'[u]] = f[of'[u]]
  <2>1. Deref(u)' = {Value'[of'[u]]}
    BY <1>1 DEF Reads
  <2>2. Deref(u)' = {f[of'[u]]}
    OBVIOUS
  <2> QED
    BY <2>1, <2>2
<1>4. ASSUME NEW x \in Known'
      PROVE  Value'[x] = f[x]
  <2>1. \/ \E i \in 1 .. Len(stack') : x = home'[i] /\ ~ HasCell(home[i])'
        \/ \E u \in 1 .. Len(location') : x = of'[u]
    <3>1. \/ \E i \in 1 .. Len(stack') : x = home'[i]
          \/ \E u \in 1 .. Len(location') : x = of'[u]
      BY <1>2 DEF Known, ElementsOf
    <3>2. \A i \in 1 .. Len(stack') :
            HasCell(home[i])' => \E u \in 1 .. Len(location') : home'[i] = of'[u]
      BY <1>2 DEF HasCell
    <3> QED
      BY <3>1, <3>2
  <2>2. ASSUME NEW i \in 1 .. Len(stack'), x = home'[i], ~ HasCell(home[i])'
        PROVE  Value'[x] = f[x]
    BY <1>1, <2>2 DEF Reads, Height
  <2> QED
    BY <1>3, <2>1, <2>2
<1> QED
  BY <1>4 DEF Value

-----------------------------------------------------------------------------
(* What the parts of an action do to the ownership of variables *)

\* A stack that loses its top, with the upvalues that pointed there closed or
\* stranded.
LEMMA OwnedBelow ==
  ASSUME NEW S, NEW hm \in Seq(S), NEW n \in 0 .. Len(hm), NEW base \in Nat, base >= 1,
         NEW loc, NEW now, NEW ofs, Len(now) = Len(loc), Len(loc) \in Nat,
         NEW str, NEW nstr,
         \A u \in 1 .. Len(loc) : loc[u] \in Nat,
         Owned(hm, loc, ofs, base, str),
         \A u \in 1 .. Len(loc) :
           IF loc[u] > n THEN now[u] = 0 \/ (now[u] = loc[u] /\ u \in nstr)
                         ELSE now[u] = loc[u] /\ (u \in str <=> u \in nstr)
  PROVE  Owned(SubSeq(hm, 1, n), now, ofs, base, nstr)
<1> DEFINE low == SubSeq(hm, 1, n)
<1>1. Len(low) = n /\ \A i \in 1 .. n : low[i] = hm[i]
  BY Cut
<1>2. Len(hm) \in Nat
  BY LenProperties
<1> HIDE DEF low
<1>3. \A i, j \in 1 .. n : low[i] = low[j] => i = j
  BY <1>1, <1>2 DEF Owned
<1>4. \A u, w \in 1 .. Len(now) : ofs[u] = ofs[w] => u = w
  BY DEF Owned
<1>5. ASSUME NEW u \in 1 .. Len(now), now[u] # 0
      PROVE  now[u] >= base
  <2>1. now[u] = loc[u]
    BY <1>5
  <2> QED
    BY <1>5, <2>1 DEF Owned
<1>6. ASSUME NEW u \in 1 .. Len(now), now[u] = 0 \/ u \in nstr, NEW i \in base .. n
      PROVE  ofs[u] # low[i]
  <2>1. i \in base .. Len(hm) /\ low[i] = hm[i] /\ i \in 1 .. Len(hm)
    BY <1>1, <1>2
  <2>2. CASE loc[u] = 0 \/ u \in str
    BY <2>1, <2>2 DEF Owned
  <2>3. CASE loc[u] # 0 /\ u \notin str
    <3>1. loc[u] <= Len(hm) /\ ofs[u] = hm[loc[u]] /\ loc[u] \in 1 .. Len(hm)
      BY <1>2, <2>3 DEF Owned
    <3>2. loc[u] > n
      BY <1>6, <2>3
    <3>3. loc[u] # i
      BY <3>2
    <3> QED
      BY <2>1, <3>1, <3>3 DEF Owned
  <2> QED
    BY <2>2, <2>3
<1>7. ASSUME NEW u \in 1 .. Len(now), now[u] # 0, u \notin nstr
      PROVE  now[u] <= n /\ ofs[u] = low[now[u]]
  <2>1. now[u] = loc[u] /\ ~ (loc[u] > n) /\ u \notin str
    BY <1>7
  <2>2. loc[u] \in 1 .. n
    BY <1>7, <2>1
  <2>3. ofs[u] = hm[loc[u]]
    BY <1>7, <2>1 DEF Owned
  <2> QED
    BY <1>1, <2>1, <2>2, <2>3
<1>8. Owned(low, now, ofs, base, nstr)
  BY <1>1, <1>3, <1>4, <1>5, <1>6, <1>7 DEF Owned
<1> QED
  BY <1>8 DEF low

\* A slot for a variable that nobody has.
LEMMA OwnedMore ==
  ASSUME NEW S, NEW hm \in Seq(S), NEW x \in S, NEW loc, NEW ofs, NEW str, NEW base \in Nat,
         base >= 1, \A u \in 1 .. Len(loc) : loc[u] \in Nat,
         Owned(hm, loc, ofs, base, str), Len(ofs) = Len(loc),
         x \notin ElementsOf(hm) \cup ElementsOf(ofs)
  PROVE  Owned(Append(hm, x), loc, ofs, base, str)
<1> DEFINE more == Append(hm, x)
<1>1. /\ Len(more) = Len(hm) + 1
      /\ \A i \in 1 .. Len(hm) : more[i] = hm[i]
      /\ more[Len(hm) + 1] = x
  BY Appended
<1>2. Len(hm) \in Nat
  BY LenProperties
<1> HIDE DEF more
<1>3. /\ \A i \in 1 .. Len(hm) : hm[i] # x
      /\ \A u \in 1 .. Len(loc) : ofs[u] # x
  BY DEF ElementsOf
<1>4. \A i, j \in 1 .. Len(more) : more[i] = more[j] => i = j
  <2> TAKE i, j \in 1 .. Len(more)
  <2> HAVE more[i] = more[j]
  <2>1. i \in 1 .. Len(hm) \/ i = Len(hm) + 1
    BY <1>1, <1>2
  <2>2. j \in 1 .. Len(hm) \/ j = Len(hm) + 1
    BY <1>1, <1>2
  <2> QED
    BY <1>1, <1>3, <2>1, <2>2 DEF Owned
<1>5. ASSUME NEW u \in 1 .. Len(loc), loc[u] = 0 \/ u \in str, NEW i \in base .. Len(more)
      PROVE  ofs[u] # more[i]
  <2>1. i \in base .. Len(hm) \/ i = Len(hm) + 1
    BY <1>1, <1>2
  <2>2. CASE i = Len(hm) + 1
    BY <1>1, <1>3, <2>2
  <2>3. CASE i \in base .. Len(hm)
    <3>1. ofs[u] # hm[i] /\ i \in 1 .. Len(hm)
      BY <1>2, <1>5, <2>3 DEF Owned
    <3> QED
      BY <1>1, <3>1
  <2> QED
    BY <2>1, <2>2, <2>3
<1>6. ASSUME NEW u \in 1 .. Len(loc), loc[u] # 0, u \notin str
      PROVE  loc[u] <= Len(more) /\ ofs[u] = more[loc[u]]
  <2>1. loc[u] <= Len(hm) /\ ofs[u] = hm[loc[u]] /\ loc[u] \in Nat
    BY <1>6 DEF Owned
  <2>2. loc[u] \in 1 .. Len(hm) /\ loc[u] <= Len(hm) + 1
    BY <1>2, <1>6, <2>1
  <2> QED
    BY <1>1, <2>1, <2>2
<1>7. Owned(more, loc, ofs, base, str)
  BY <1>4, <1>5, <1>6 DEF Owned
<1> QED
  BY <1>7 DEF more

\* A new upvalue for a variable in a slot no upvalue points at.
LEMMA OwnedCaptured ==
  ASSUME NEW S, NEW hm \in Seq(S), NEW T, NEW loc \in Seq(T), NEW ofs \in Seq(S),
         \A u \in 1 .. Len(loc) : loc[u] \in Nat, NEW base \in Nat, base >= 1, NEW str, Len(loc) + 1 \notin str,
         Owned(hm, loc, ofs, base, str), Len(ofs) = Len(loc),
         NEW slot \in base .. Len(hm), slot \in T,
         \A u \in 1 .. Len(loc) : loc[u] # slot
  PROVE  Owned(hm, Append(loc, slot), Append(ofs, hm[slot]), base, str)
<1> DEFINE locs == Append(loc, slot)
           all == Append(ofs, hm[slot])
<1>1. /\ Len(hm) \in Nat /\ Len(loc) \in Nat /\ slot \in 1 .. Len(hm)
      /\ \A i \in 1 .. Len(hm) : hm[i] \in S
  BY LenProperties, ElementOfSeq
<1>2. /\ Len(locs) = Len(loc) + 1
      /\ \A u \in 1 .. Len(loc) : locs[u] = loc[u]
      /\ locs[Len(loc) + 1] = slot
  BY Appended
<1>3. /\ Len(all) = Len(loc) + 1
      /\ \A u \in 1 .. Len(loc) : all[u] = ofs[u]
      /\ all[Len(loc) + 1] = hm[slot]
  BY <1>1, Appended
<1> HIDE DEF locs, all
<1>4. ASSUME NEW u \in 1 .. Len(loc)
      PROVE  ofs[u] # hm[slot]
  <2>1. CASE loc[u] = 0 \/ u \in str
    BY <2>1 DEF Owned
  <2>2. CASE loc[u] # 0 /\ u \notin str
    <3>1. loc[u] >= base /\ loc[u] <= Len(hm) /\ ofs[u] = hm[loc[u]]
      BY <2>2 DEF Owned
    <3>2. loc[u] \in 1 .. Len(hm)
      BY <1>1, <2>2, <3>1
    <3> QED
      BY <1>1, <3>1, <3>2 DEF Owned
  <2> QED
    BY <2>1, <2>2
<1>5. \A u \in 1 .. Len(locs) : u \in 1 .. Len(loc) \/ u = Len(loc) + 1
  BY <1>1, <1>2
<1>6. \A u, w \in 1 .. Len(locs) : all[u] = all[w] => u = w
  <2>1. \A u, w \in 1 .. Len(loc) : ofs[u] = ofs[w] => u = w
    BY DEF Owned
  <2> QED
    BY <1>3, <1>4, <1>5, <2>1
<1>7. ASSUME NEW u \in 1 .. Len(locs)
      PROVE  /\ locs[u] # 0 => locs[u] >= base
             /\ locs[u] = 0 \/ u \in str => \A i \in base .. Len(hm) : all[u] # hm[i]
             /\ locs[u] # 0 /\ u \notin str => locs[u] <= Len(hm) /\ all[u] = hm[locs[u]]
  <2>1. CASE u \in 1 .. Len(loc)
    BY <1>2, <1>3, <2>1 DEF Owned
  <2>2. CASE u = Len(loc) + 1
    BY <1>1, <1>2, <1>3, <2>2
  <2> QED
    BY <1>5, <2>1, <2>2
<1>8. \A i, j \in 1 .. Len(hm) : hm[i] = hm[j] => i = j
  BY DEF Owned
<1>9. Owned(hm, locs, all, base, str)
  BY <1>6, <1>7, <1>8 DEF Owned
<1> QED
  BY <1>9 DEF locs, all

\* A closure without upvalues is made.
LEMMA HeldMore ==
  ASSUME NEW S, NEW cls \in Seq(Seq(S)), NEW u, HeldIn(cls, u)
  PROVE  HeldIn(Append(cls, <<>>), u)
<1> DEFINE more == Append(cls, <<>>)
<1>1. /\ Len(more) = Len(cls) + 1
      /\ \A c \in 1 .. Len(cls) : more[c] = cls[c]
  BY EmptySeq, Appended
<1>2. Len(cls) \in Nat
  BY LenProperties
<1> HIDE DEF more
<1>3. PICK c \in 1 .. Len(cls) : \E k \in 1 .. Len(cls[c]) : cls[c][k] = u
  BY DEF HeldIn
<1>4. c \in 1 .. Len(more) /\ more[c] = cls[c]
  BY <1>1, <1>2
<1>5. HeldIn(more, u)
  BY <1>3, <1>4 DEF HeldIn
<1> QED
  BY <1>5 DEF more

\* What giving an upvalue to a closure does.
LEMMA Given ==
  ASSUME NEW S, NEW cls \in Seq(Seq(S)), NEW w \in S, NEW n \in 1 .. Len(cls), NEW now,
         now = [cls EXCEPT ![n] = Append(@, w)]
  PROVE  /\ now \in Seq(Seq(S)) /\ Len(now) = Len(cls)
         /\ \A c \in 1 .. Len(cls) : c # n => now[c] = cls[c]
         /\ now[n] = Append(cls[n], w)
         /\ Len(now[n]) = Len(cls[n]) + 1 /\ Len(cls[n]) \in Nat
         /\ \A k \in 1 .. Len(cls[n]) : now[n][k] = cls[n][k]
         /\ now[n][Len(cls[n]) + 1] = w
<1>1. cls[n] \in Seq(S) /\ Len(cls[n]) \in Nat
  BY ElementOfSeq, LenProperties
<1>2. /\ Append(cls[n], w) \in Seq(S)
      /\ Len(Append(cls[n], w)) = Len(cls[n]) + 1
      /\ \A k \in 1 .. Len(cls[n]) : Append(cls[n], w)[k] = cls[n][k]
      /\ Append(cls[n], w)[Len(cls[n]) + 1] = w
  BY <1>1, Appended
<1> DEFINE new == Append(cls[n], w)
<1>3. now = [cls EXCEPT ![n] = new]
  OBVIOUS
<1> HIDE DEF new
<1>4. new \in Seq(S)
  BY <1>2 DEF new
<1>5. now \in Seq(Seq(S)) /\ Len(now) = Len(cls) /\ now[n] = new
  BY <1>3, <1>4, ExceptSeq
<1>6. \A c \in 1 .. Len(cls) : c # n => now[c] = cls[c]
  BY <1>3, <1>4, ExceptSeq
<1> QED
  BY <1>1, <1>2, <1>5, <1>6 DEF new

\* Closure n of cls, with one more upvalue.
GivenTo(cls, n, w) == [cls EXCEPT ![n] = Append(@, w)]

LEMMA HeldGiven ==
  ASSUME NEW S, NEW cls \in Seq(Seq(S)), NEW w \in S, NEW n \in 1 .. Len(cls),
         NEW u, u # w => HeldIn(cls, u)
  PROVE  HeldIn(GivenTo(cls, n, w), u)
<1> DEFINE now == GivenTo(cls, n, w)
<1>0. now = [cls EXCEPT ![n] = Append(@, w)]
  BY DEF GivenTo
<1> HIDE DEF now
<1>1. /\ Len(now) = Len(cls)
      /\ \A c \in 1 .. Len(cls) : c # n => now[c] = cls[c]
      /\ Len(now[n]) = Len(cls[n]) + 1 /\ Len(cls[n]) \in Nat
      /\ \A k \in 1 .. Len(cls[n]) : now[n][k] = cls[n][k]
      /\ now[n][Len(cls[n]) + 1] = w
  BY <1>0, Given
<1>2. ASSUME HeldIn(cls, u)
      PROVE  HeldIn(now, u)
  <2>1. PICK c \in 1 .. Len(cls) : \E k \in 1 .. Len(cls[c]) : cls[c][k] = u
    BY <1>2 DEF HeldIn
  <2>2. CASE c = n
    <3>1. PICK k \in 1 .. Len(cls[n]) : cls[n][k] = u
      BY <2>1, <2>2
    <3>2. k \in 1 .. Len(now[n]) /\ now[n][k] = u
      BY <1>1, <3>1
    <3> QED
      BY <1>1, <3>2 DEF HeldIn
  <2>3. CASE c # n
    BY <1>1, <2>1, <2>3 DEF HeldIn
  <2> QED
    BY <2>2, <2>3
<1>3. ASSUME u = w
      PROVE  HeldIn(now, u)
  <2>1. Len(cls[n]) + 1 \in 1 .. Len(now[n])
    BY <1>1
  <2> QED
    BY <1>1, <1>3, <2>1 DEF HeldIn
<1>4. HeldIn(now, u)
  BY <1>2, <1>3
<1> QED
  BY <1>4 DEF now

-----------------------------------------------------------------------------
(* The variables that Variables keeps are those with a slot or an upvalue *)

LEMMA KnownOne ==
  ASSUME NEW hm, NEW ofs, NEW cls, Len(ofs) \in Nat,
         \A c \in 1 .. Len(cls) : \A k \in 1 .. Len(cls[c]) : cls[c][k] \in 1 .. Len(ofs),
         \A u \in 1 .. Len(ofs) : HeldIn(cls, u),
         NEW made, made = VariablesOf(cls, ofs), Len(made) = Len(cls),
         \A c \in 1 .. Len(cls) : Len(made[c]) = Len(cls[c])
  PROVE  ElementsOf(hm) \cup UNION {ElementsOf(made[c]) : c \in 1 .. Len(made)}
           = ElementsOf(hm) \cup ElementsOf(ofs)
<1>1. \A c \in 1 .. Len(cls) : \A k \in 1 .. Len(cls[c]) : made[c][k] = ofs[cls[c][k]]
  BY DEF VariablesOf
<1>2. ASSUME NEW c \in 1 .. Len(made), NEW k \in 1 .. Len(made[c])
      PROVE  made[c][k] \in ElementsOf(ofs)
  BY <1>1 DEF ElementsOf
<1>3. ASSUME NEW u \in 1 .. Len(ofs)
      PROVE  \E c \in 1 .. Len(made) : ofs[u] \in ElementsOf(made[c])
  <2>1. PICK c \in 1 .. Len(cls) : \E k \in 1 .. Len(cls[c]) : cls[c][k] = u
    BY DEF HeldIn
  <2> QED
    BY <1>1, <2>1 DEF ElementsOf
<1>4. \A c \in 1 .. Len(made) : ElementsOf(made[c]) \subseteq ElementsOf(ofs)
  <2> TAKE c \in 1 .. Len(made)
  <2>1. ElementsOf(made[c]) = {made[c][k] : k \in 1 .. Len(made[c])}
    BY DEF ElementsOf
  <2> QED
    BY <1>2, <2>1
<1>5. \A x \in ElementsOf(ofs) : \E c \in 1 .. Len(made) : x \in ElementsOf(made[c])
  <2> TAKE x \in ElementsOf(ofs)
  <2>1. PICK u \in 1 .. Len(ofs) : x = ofs[u]
    BY DEF ElementsOf
  <2> QED
    BY <1>3, <2>1
<1>6. UNION {ElementsOf(made[c]) : c \in 1 .. Len(made)} = ElementsOf(ofs)
  BY <1>4, <1>5
<1> QED
  BY <1>6

\* The variables of closures are sequences as long as their upvalues.
LEMMA VariablesOfType ==
  ASSUME NEW n \in Nat, NEW cls \in Seq(Seq(1 .. n)), NEW S, NEW ofs \in Seq(S), Len(ofs) = n,
         NEW made, made = VariablesOf(cls, ofs)
  PROVE  /\ made \in Seq(Seq(S)) /\ Len(made) = Len(cls)
         /\ \A c \in 1 .. Len(cls) :
              /\ Len(made[c]) = Len(cls[c]) /\ Len(cls[c]) \in Nat
              /\ \A k \in 1 .. Len(cls[c]) : cls[c][k] \in 1 .. n /\ made[c][k] = ofs[cls[c][k]]
<1>1. Len(cls) \in Nat /\ \A u \in 1 .. n : ofs[u] \in S
  BY LenProperties, ElementOfSeq
<1>2. ASSUME NEW c \in 1 .. Len(cls)
      PROVE  /\ Len(cls[c]) \in Nat
             /\ \A k \in 1 .. Len(cls[c]) : cls[c][k] \in 1 .. n
             /\ made[c] = [k \in 1 .. Len(cls[c]) |-> ofs[cls[c][k]]]
  <2>1. cls[c] \in Seq(1 .. n)
    BY ElementOfSeq
  <2> QED
    BY <2>1, LenProperties, ElementOfSeq DEF VariablesOf
<1>3. ASSUME NEW c \in 1 .. Len(cls)
      PROVE  made[c] \in Seq(S) /\ Len(made[c]) = Len(cls[c])
  <2>1. made[c] \in [1 .. Len(cls[c]) -> S]
    BY <1>1, <1>2
  <2> QED
    BY <1>2, <2>1, FunctionIsSeq
<1>4. made \in [1 .. Len(cls) -> Seq(S)]
  BY <1>3 DEF VariablesOf
<1>5. made \in Seq(Seq(S)) /\ Len(made) = Len(cls)
  BY <1>1, <1>4, FunctionIsSeq
<1>6. ASSUME NEW c \in 1 .. Len(cls)
      PROVE  /\ Len(made[c]) = Len(cls[c]) /\ Len(cls[c]) \in Nat
             /\ \A k \in 1 .. Len(cls[c]) : cls[c][k] \in 1 .. n /\ made[c][k] = ofs[cls[c][k]]
  <2>1. ASSUME NEW k \in 1 .. Len(cls[c])
        PROVE  made[c][k] = ofs[cls[c][k]]
    <3>1. made[c] = [j \in 1 .. Len(cls[c]) |-> ofs[cls[c][j]]]
      BY <1>2
    <3> QED
      BY <3>1
  <2> QED
    BY <1>2, <1>3, <2>1
<1> QED
  BY <1>5, <1>6

Made == VariablesOf(closures, of)

\* The closures as Variables sees them.
LEMMA MadeNow ==
  ASSUME IndInv
  PROVE  /\ Made \in Seq(Seq(Vars)) /\ Len(Made) = Len(closures)
         /\ \A c \in 1 .. Len(closures) :
              /\ Len(Made[c]) = Len(closures[c]) /\ Len(closures[c]) \in Nat
              /\ \A k \in 1 .. Len(closures[c]) :
                   closures[c][k] \in 1 .. Len(location) /\ Made[c][k] = of[closures[c][k]]
<1>1. /\ closures \in Seq(Seq(1 .. Len(location))) /\ of \in Seq(Vars)
      /\ Len(of) = Len(location) /\ Len(location) \in Nat
  BY LenProperties DEF IndInv, TypeOK
<1> QED
  BY <1>1, VariablesOfType DEF Made

LEMMA MadeNext ==
  ASSUME IndInv'
  PROVE  /\ Made' \in Seq(Seq(Vars)) /\ Len(Made') = Len(closures')
         /\ \A c \in 1 .. Len(closures') :
              /\ Len(Made'[c]) = Len(closures'[c]) /\ Len(closures'[c]) \in Nat
              /\ \A k \in 1 .. Len(closures'[c]) :
                   closures'[c][k] \in 1 .. Len(location') /\ Made'[c][k] = of'[closures'[c][k]]
<1>1. /\ closures' \in Seq(Seq(1 .. Len(location'))) /\ of' \in Seq(Vars)
      /\ Len(of') = Len(location') /\ Len(location') \in Nat
  BY LenProperties DEF IndInv, TypeOK
<1>2. Made' = VariablesOf(closures', of')
  BY DEF Made, VariablesOf
<1> QED
  BY <1>1, <1>2, VariablesOfType

LEMMA LastingNow ==
  ASSUME VarInv
  PROVE  V!Lasting = Known
<1>1. /\ Len(of) = Len(location) /\ Len(location) \in Nat
      /\ \A u \in 1 .. Len(of) : HeldIn(closures, u)
  BY LenProperties DEF VarInv, IndInv, TypeOK, AllHeld
<1>2. /\ Len(Made) = Len(closures)
      /\ \A c \in 1 .. Len(closures) : Len(Made[c]) = Len(closures[c])
      /\ \A c \in 1 .. Len(closures) : \A k \in 1 .. Len(closures[c]) :
           closures[c][k] \in 1 .. Len(of)
  BY <1>1, MadeNow DEF VarInv
<1>3. ElementsOf(home) \cup UNION {ElementsOf(Made[c]) : c \in 1 .. Len(Made)} = Known
  BY <1>1, <1>2, KnownOne DEF Made, Known
<1>4. V!Lasting = ElementsOf(home) \cup UNION {ElementsOf(Made[c]) : c \in 1 .. Len(Made)}
  BY DEF V!Lasting, V!ElementsOf, ElementsOf, Made, VariablesOf
<1> QED
  BY <1>3, <1>4

LEMMA LastingNext ==
  ASSUME VarInv'
  PROVE  V!Lasting' = Known'
<1>1. /\ Len(of') = Len(location') /\ Len(location') \in Nat
      /\ \A u \in 1 .. Len(of') : HeldIn(closures', u)
  BY LenProperties DEF VarInv, IndInv, TypeOK, AllHeld, HeldIn
<1>2. /\ Len(Made') = Len(closures')
      /\ \A c \in 1 .. Len(closures') : Len(Made'[c]) = Len(closures'[c])
      /\ \A c \in 1 .. Len(closures') : \A k \in 1 .. Len(closures'[c]) :
           closures'[c][k] \in 1 .. Len(of')
  BY <1>1, MadeNext DEF VarInv
<1>3. Made' = VariablesOf(closures', of')
  BY DEF Made, VariablesOf
<1>4. ElementsOf(home') \cup UNION {ElementsOf(Made'[c]) : c \in 1 .. Len(Made')}
        = ElementsOf(home') \cup ElementsOf(of')
  BY <1>1, <1>2, <1>3, KnownOne
<1>5. V!Lasting' = ElementsOf(home') \cup UNION {ElementsOf(Made'[c]) : c \in 1 .. Len(Made')}
  BY DEF V!Lasting, V!ElementsOf, ElementsOf, Made, VariablesOf
<1>6. Known' = ElementsOf(home') \cup ElementsOf(of')
  BY DEF Known, ElementsOf
<1> QED
  BY <1>4, <1>5, <1>6

-----------------------------------------------------------------------------
(* Pushing a value *)

\* The value V's operators name is Value.
LEMMA AsPushed ==
  ASSUME VarInv, VarInv', NEW x \in Vars \ Known, NEW v,
         Len(home) < MaxStack, home' = Append(home, x), Known' \subseteq Known \cup {x},
         Value' = [y \in Known' |-> IF y = x THEN v ELSE Value[y]]
  PROVE  V!PushNew(x, v)
<1>1. V!Lasting = Known /\ V!Lasting' = Known'
  BY LastingNow, LastingNext
<1>2. V!With(x, v) = [y \in Known \cup {x} |-> IF y = x THEN v ELSE Value[y]]
  BY <1>1 DEF V!With, Value, Known
<1>3. V!KeepLasting(V!With(x, v)) <=> Value' = [y \in Known' |-> V!With(x, v)[y]]
  BY <1>1 DEF V!KeepLasting, Value, Known
<1>4. [y \in Known' |-> V!With(x, v)[y]] = [y \in Known' |-> IF y = x THEN v ELSE Value[y]]
  <2> DEFINE W == V!With(x, v)
  <2>1. W = [y \in Known \cup {x} |-> IF y = x THEN v ELSE Value[y]]
    BY <1>2
  <2> HIDE DEF W
  <2>2. \A y \in Known' : W[y] = IF y = x THEN v ELSE Value[y]
    BY <2>1
  <2>3. [y \in Known' |-> W[y]] = [y \in Known' |-> IF y = x THEN v ELSE Value[y]]
    BY <2>2
  <2> QED
    BY <2>3 DEF W
<1>5. V!KeepLasting(V!With(x, v))
  BY <1>3, <1>4
<1> QED
  BY <1>1, <1>5 DEF V!PushNew

LEMMA FreshIsNew ==
  ASSUME Unused # {}
  PROVE  Fresh \in Vars \ Known
BY DEF Fresh, Unused, Known

\* What a push does to the invariant.
LEMMA PushVar ==
  ASSUME VarInv, IndInv', NEW v, Push(v), UNCHANGED <<location, of, stranded>>, Base' = Base,
         AllHeld'
  PROVE  VarInv'
<1>1. /\ home \in Seq(Vars) /\ Len(of) = Len(location)
      /\ home' = Append(home, Fresh)
      /\ Base \in Nat /\ Base >= 1
      /\ \A u \in 1 .. Len(location) : location[u] \in Nat
  <2>1. Base \in Nat /\ Base >= 1
    BY BaseRange DEF VarInv
  <2>2. \A u \in 1 .. Len(location) : location[u] \in Nat
    BY Ranges, UpvaluesAssumption DEF VarInv, IndInv
  <2> QED
    BY <2>1, <2>2 DEF VarInv, IndInv, TypeOK, Push
<1>2. Fresh \in Vars /\ Fresh \notin ElementsOf(home) \cup ElementsOf(of)
  BY FreshIsNew DEF Push, Known
<1>3. Owned(home, location, of, Base, stranded)
  BY DEF VarInv
<1> DEFINE x == Fresh
           base == Base
<1>4. Owned(Append(home, x), location, of, base, stranded)
  <2> HIDE DEF x, base
  <2>1. x \in Vars /\ x \notin ElementsOf(home) \cup ElementsOf(of)
    BY <1>2 DEF x
  <2>2. base \in Nat /\ base >= 1 /\ Owned(home, location, of, base, stranded)
    BY <1>1, <1>3 DEF base
  <2> QED
    BY <1>1, <2>1, <2>2, OwnedMore
<1>5. Owned(home', location', of', Base', stranded')
  BY <1>1, <1>4
<1> QED
  BY <1>5 DEF VarInv, Owned

\* A push makes a variable of Variables.
LEMMA PushStep ==
  ASSUME VarInv, VarInv', stranded = {}, NEW v, Push(v),
         UNCHANGED <<location, closed, of, stranded>>
  PROVE  V!PushNew(Fresh, v)
<1> DEFINE x == Fresh
<1>1. /\ stack \in Seq(Values) /\ home \in Seq(Vars) /\ Len(home) = Len(stack)
      /\ stack' = Append(stack, v) /\ home' = Append(home, x)
      /\ Len(home) < MaxStack /\ Len(stack) \in Nat
      /\ x \in Vars \ Known
  BY FreshIsNew, LenProperties DEF VarInv, IndInv, TypeOK, Push, Height
<1> HIDE DEF x
<1>2. /\ Len(stack') = Len(stack) + 1 /\ stack'[Len(stack) + 1] = v
      /\ \A i \in 1 .. Len(stack) : stack'[i] = stack[i]
  BY <1>1
<1>3. /\ Len(home') = Len(stack) + 1 /\ home'[Len(stack) + 1] = x
      /\ \A i \in 1 .. Len(stack) : home'[i] = home[i]
  BY <1>1, Appended
<1>4. \A i \in 1 .. Len(stack) + 1 : i \in 1 .. Len(stack) \/ i = Len(stack) + 1
  BY <1>1
<1>5. Reads /\ \A y : HasCell(y)' <=> HasCell(y)
  BY ReadsNow DEF HasCell
<1> DEFINE f == [y \in Known \cup {x} |-> IF y = x THEN v ELSE Value[y]]
<1>6. /\ f[x] = v
      /\ \A y \in Known : f[y] = Value[y]
  BY <1>1
<1> HIDE DEF f
<1>7. ASSUME NEW i \in 1 .. Len(stack')
      PROVE  HasCell(home[i])' \/ f[home'[i]] = stack'[i]
  <2>1. CASE i \in 1 .. Len(stack)
    <3>1. home[i] \in Known /\ (HasCell(home[i]) \/ Value[home[i]] = stack[i])
      BY <1>5, <2>1 DEF Reads, Height
    <3>2. HasCell(home[i])' <=> HasCell(home[i])
      BY <1>3, <2>1 DEF HasCell
    <3> QED
      BY <1>2, <1>3, <1>6, <2>1, <3>1, <3>2
  <2>2. CASE i = Len(stack) + 1
    BY <1>2, <1>3, <1>6, <2>2
  <2> QED
    BY <1>2, <1>4, <2>1, <2>2
<1>8. ASSUME NEW u \in 1 .. Len(location')
      PROVE  Deref(u)' = {f[of'[u]]}
  <2>1. of[u] \in Known /\ Deref(u) = {Value[of[u]]}
    BY <1>5 DEF Reads
  <2>2. location[u] # 0 => location[u] \in 1 .. Len(stack)
    <3>1. Owned(home, location, of, Base, stranded) /\ location[u] \in Nat
      BY Ranges, UpvaluesAssumption DEF VarInv, IndInv
    <3> QED
      BY <1>1, <3>1 DEF Owned
  <2>3. Deref(u)' = Deref(u)
    <3>1. CASE location[u] = 0
      BY <3>1 DEF Deref
    <3>2. CASE location[u] # 0
      <4>1. /\ location[u] <= Len(stack) /\ location[u] <= Len(stack')
            /\ stack'[location[u]] = stack[location[u]]
        BY <1>1, <1>2, <2>2, <3>2
      <4> QED
        BY <3>2, <4>1 DEF Deref, Height
    <3> QED
      BY <3>1, <3>2
  <2> QED
    BY <1>6, <2>1, <2>3
<1>9. Value' = [y \in Known' |-> f[y]]
  BY <1>7, <1>8, ValuesNext
<1>10. Known' \subseteq Known \cup {x}
  <2>1. ElementsOf(home)' \subseteq ElementsOf(home) \cup {x}
    <3>1. Len(home) = Len(stack)
      BY <1>1
    <3>2. \A i \in 1 .. Len(home') : home'[i] \in ElementsOf(home) \cup {x}
      BY <1>3, <1>4, <3>1 DEF ElementsOf
    <3> QED
      BY <3>2 DEF ElementsOf
  <2>2. ElementsOf(of)' = ElementsOf(of)
    BY DEF ElementsOf
  <2> QED
    BY <2>1, <2>2 DEF Known
<1>11. Value' = [y \in Known' |-> IF y = x THEN v ELSE Value[y]]
  <2>1. \A y \in Known' : f[y] = IF y = x THEN v ELSE Value[y]
    BY <1>10 DEF f
  <2> QED
    BY <1>9, <2>1
<1>12. V!PushNew(x, v)
  BY <1>1, <1>10, <1>11, AsPushed
<1> QED
  BY <1>12 DEF x

-----------------------------------------------------------------------------
(* Every action keeps the ownership and is a step of Variables *)

LEMMA InitVar ==
  ASSUME Init
  PROVE  VarInv /\ V!Init
<1>1. IndInv
  BY InitInv
<1>2. Len(<<>>) = 0 /\ DOMAIN <<>> = {} /\ 1 .. 0 = {}
  OBVIOUS
<1>3. /\ home = <<>> /\ location = <<>> /\ of = <<>> /\ closures = <<>>
      /\ frames = <<>> /\ pending = 0 /\ stranded = {}
  BY DEF Init
<1>4. ElementsOf(<<>>) = {}
  BY <1>2 DEF ElementsOf
<1>5. VarInv
  BY <1>1, <1>2, <1>3 DEF VarInv, Owned, AllHeld
<1>6. Value = [x \in {} |-> x]
  BY <1>3, <1>4 DEF Value, Known
<1>7. Made = <<>>
  <2>1. Made \in Seq(Seq(Vars)) /\ Len(Made) = 0
    BY <1>1, <1>2, <1>3, MadeNow
  <2> QED
    BY <2>1, EmptySeq
<1>8. V!Init
  BY <1>3, <1>6, <1>7 DEF V!Init, Value, Known, Made, VariablesOf
<1> QED
  BY <1>5, <1>8

\* As long as no upvalue is stranded every step is one that Variables describes;
\* after that Variables says nothing.
LEMMA AsStep ==
  ASSUME stranded = {} => stranded' = {} /\ V!Step
  PROVE  V!Next
<1>1. CASE stranded = {}
  BY <1>1 DEF V!Next
<1>2. CASE stranded # {}
  BY <1>2 DEF V!Next
<1> QED
  BY <1>1, <1>2

\* What leaves the closures and their upvalues alone leaves them to Variables too.
LEMMA MadeKept ==
  ASSUME UNCHANGED <<closures, of>>
  PROVE  Made' = Made
BY DEF Made, VariablesOf

LEMMA HeldKept ==
  ASSUME AllHeld, closures' = closures, Len(location') = Len(location)
  PROVE  AllHeld'
BY DEF AllHeld, HeldIn

\* What only pushes a value.
LEMMA OnlyPush ==
  ASSUME VarInv, IndInv', NEW v, Push(v), Base' = Base,
         UNCHANGED <<closures, location, closed, pending, of, stranded>>
  PROVE  /\ VarInv' /\ Fresh \in Vars /\ Made' = Made
         /\ stranded = {} => V!PushNew(Fresh, v)
<1>1. AllHeld'
  BY HeldKept DEF VarInv
<1>2. VarInv'
  BY <1>1, PushVar
<1>3. stranded = {} => V!PushNew(Fresh, v)
  BY <1>2, PushStep
<1>4. Fresh \in Vars
  BY FreshIsNew DEF Push
<1> QED
  BY <1>2, <1>3, <1>4, MadeKept

LEMMA EnterStep ==
  ASSUME VarInv, NEW v \in Values, Enter(v)
  PROVE  VarInv' /\ V!Next
<1>1. IndInv'
  BY EnterInv DEF VarInv
<1>2. Height = Len(home)
  BY DEF VarInv, IndInv, TypeOK
<1>3. Base' = Base
  <2>1. frames' = <<[slots |-> Height + 1, closure |-> 0]>> /\ frames = <<>>
    BY DEF Enter
  <2>2. frames'[1].slots = Height + 1 /\ frames' # <<>>
    BY <2>1
  <2> QED
    BY <2>1, <2>2 DEF Base
<1>4. VarInv' /\ Fresh \in Vars /\ Made' = Made /\ (stranded = {} => V!PushNew(Fresh, v))
  BY <1>1, <1>3, OnlyPush DEF Enter
<1>5. ASSUME stranded = {}
      PROVE  stranded' = {} /\ V!Step
  <2>1. V!Enter(Fresh, v)
    BY <1>2, <1>4, <1>5 DEF V!Enter, Enter, Made, VariablesOf
  <2> QED
    BY <1>4, <1>5, <2>1 DEF V!Step, Enter
<1> QED
  BY <1>4, <1>5, AsStep

LEMMA DeclareStep ==
  ASSUME VarInv, NEW v \in Values, Declare(v)
  PROVE  VarInv' /\ V!Next
<1>1. IndInv' /\ Base' = Base
  BY DeclareInv, BaseKept DEF VarInv, Declare, Ready
<1>2. VarInv' /\ Fresh \in Vars /\ Made' = Made /\ (stranded = {} => V!PushNew(Fresh, v))
  BY <1>1, OnlyPush DEF Declare
<1>3. ASSUME stranded = {}
      PROVE  stranded' = {} /\ V!Step
  <2>1. V!Declare(Fresh, v)
    BY <1>2, <1>3 DEF V!Declare, V!Ready, Ready, Declare, Made, VariablesOf
  <2> QED
    BY <1>2, <1>3, <2>1 DEF V!Step, Declare
<1> QED
  BY <1>2, <1>3, AsStep

\* The variables a function can name: those of its slots and of its upvalues.
LEMMA CanName ==
  ASSUME VarInv, frames # <<>>
  PROVE  /\ \A slot \in LocalSlots :
              /\ slot \in Base .. Height /\ slot \in 1 .. Height
              /\ home[slot] \in Vars /\ home[slot] \in V!Named
         /\ \A k \in UpvalueNumbers :
              Upvalue(k) \in 1 .. Len(location) /\ of[Upvalue(k)] \in Vars /\ of[Upvalue(k)] \in V!Named
<1>1. /\ Height = Len(home) /\ Height \in Nat
      /\ Frame.slots \in 1 .. MaxStack /\ Frame.closure \in 0 .. Len(closures)
      /\ Len(closures) \in Nat
      /\ \A i \in 1 .. Height : home[i] \in Vars
      /\ \A u \in 1 .. Len(location) : of[u] \in Vars
      /\ \A k \in UpvalueNumbers : Upvalue(k) \in 1 .. Len(location)
      /\ Base \in Nat /\ Base >= 1 /\ Base <= Frame.slots
  BY BaseRange, Running, Ranges, LenProperties DEF VarInv, IndInv, TypeOK
<1>2. \A slot \in LocalSlots : slot \in Base .. Height /\ slot \in 1 .. Height /\ home[slot] \in V!Named
  <2>1. \A slot \in LocalSlots : slot \in Base .. Height /\ slot \in 1 .. Height
    BY <1>1, UpvaluesAssumption DEF LocalSlots
  <2> QED
    BY <1>1, <2>1 DEF V!Named, V!Frame, Frame, LocalSlots
<1>3. ASSUME NEW k \in UpvalueNumbers
      PROVE  of[Upvalue(k)] \in V!Named
  <2>1. Frame.closure \in 1 .. Len(closures) /\ k \in 1 .. Len(closures[Frame.closure])
    BY <1>1, <1>3 DEF UpvalueNumbers
  <2>2. /\ Len(Made[Frame.closure]) = Len(closures[Frame.closure])
        /\ Made[Frame.closure][k] = of[Upvalue(k)]
    BY <2>1, MadeNow DEF VarInv, Upvalue
  <2>3. of[Upvalue(k)] \in ElementsOf(Made[Frame.closure]) /\ Frame.closure # 0
    BY <2>1, <2>2 DEF ElementsOf
  <2> QED
    BY <2>3 DEF V!Named, V!Frame, Frame, V!ElementsOf, ElementsOf, Made, VariablesOf
<1> QED
  BY <1>1, <1>2, <1>3

LEMMA GetLocalStep ==
  ASSUME VarInv, NEW slot, GetLocal(slot)
  PROVE  VarInv' /\ V!Next
<1>1. IndInv' /\ Base' = Base
  BY GetLocalInv, BaseKept DEF VarInv, GetLocal, Ready
<1>2. slot \in Base .. Height /\ home[slot] \in Vars /\ home[slot] \in V!Named
  BY CanName DEF GetLocal, Ready
<1>3. VarInv' /\ Fresh \in Vars /\ Made' = Made /\ (stranded = {} => V!PushNew(Fresh, stack[slot]))
  BY <1>1, OnlyPush DEF GetLocal
<1>4. ASSUME stranded = {}
      PROVE  stranded' = {} /\ V!Step
  <2>1. Value[home[slot]] = stack[slot]
    BY <1>2, <1>4, InUse
  <2>2. V!Read(Fresh, home[slot])
    BY <1>2, <1>3, <1>4, <2>1 DEF V!Read, V!Ready, Ready, GetLocal, Made, VariablesOf, Value, Known
  <2> QED
    BY <1>2, <1>3, <1>4, <2>2 DEF V!Step, GetLocal
<1> QED
  BY <1>3, <1>4, AsStep

LEMMA GetUpvalueStep ==
  ASSUME VarInv, NEW k, GetUpvalue(k)
  PROVE  VarInv' /\ V!Next
<1> DEFINE u == Upvalue(k)
<1>1. IndInv' /\ Base' = Base
  BY GetUpvalueInv, BaseKept DEF VarInv, GetUpvalue, Ready
<1>2. u \in 1 .. Len(location) /\ of[u] \in Vars /\ of[u] \in V!Named
  BY CanName DEF GetUpvalue, Ready
<1>3. PICK v \in Deref(u) : Push(v)
  BY DEF GetUpvalue
<1>4. VarInv' /\ Fresh \in Vars /\ Made' = Made /\ (stranded = {} => V!PushNew(Fresh, v))
  BY <1>1, <1>3, OnlyPush DEF GetUpvalue
<1>5. ASSUME stranded = {}
      PROVE  stranded' = {} /\ V!Step
  <2>1. Value[of[u]] = v
    BY <1>2, <1>3, <1>5, ReadsNow DEF Reads
  <2>2. V!Read(Fresh, of[u])
    BY <1>2, <1>4, <1>5, <2>1 DEF V!Read, V!Ready, Ready, GetUpvalue, Made, VariablesOf, Value, Known
  <2> QED
    BY <1>2, <1>4, <1>5, <2>2 DEF V!Step, GetUpvalue
<1> QED
  BY <1>4, <1>5, AsStep

\* What changes neither slots nor upvalues keeps their ownership.
LEMMA OwnedKept ==
  ASSUME VarInv, IndInv', UNCHANGED <<home, location, of, closures, stranded>>, Base' = Base
  PROVE  VarInv'
<1>1. AllHeld'
  BY HeldKept DEF VarInv
<1> QED
  BY <1>1 DEF VarInv, Owned

\* The newest value is assigned to a variable.
LEMMA AsAssigned ==
  ASSUME VarInv, VarInv', stranded = {}, stranded' = {}, Ready, NEW y \in Vars, y \in V!Named, y \in Known,
         UNCHANGED <<frames, closures, location, pending, home, of>>,
         \A i \in 1 .. Height :
           HasCell(home[i]) \/ stack'[i] = IF home[i] = y THEN stack[Height] ELSE stack[i],
         \A u \in 1 .. Len(location) :
           Deref(u)' = IF of[u] = y THEN {stack[Height]} ELSE Deref(u),
         Len(stack') = Len(stack)
  PROVE  V!Step
<1>1. Reads
  BY ReadsNow
<1>2. Height = Len(home) /\ Height \in Base .. Height /\ Height = Len(stack)
  BY BaseRange, Ranges DEF VarInv, IndInv, TypeOK, Ready, Height
<1> DEFINE f == [x \in Known |-> IF x = y THEN stack[Height] ELSE Value[x]]
<1>3. ASSUME NEW i \in 1 .. Len(stack')
      PROVE  HasCell(home[i])' \/ f[home'[i]] = stack'[i]
  <2>1. i \in 1 .. Height
    BY <1>2
  <2>2. home[i] \in Known /\ (HasCell(home[i]) \/ Value[home[i]] = stack[i])
    BY <1>1, <2>1 DEF Reads
  <2>3. HasCell(home[i])' <=> HasCell(home[i])
    BY DEF HasCell
  <2> QED
    BY <2>1, <2>2, <2>3
<1>4. ASSUME NEW u \in 1 .. Len(location')
      PROVE  Deref(u)' = {f[of'[u]]}
  <2>1. of[u] \in Known /\ Deref(u) = {Value[of[u]]}
    BY <1>1 DEF Reads
  <2>2. Deref(u)' = IF of[u] = y THEN {stack[Height]} ELSE Deref(u)
    OBVIOUS
  <2>3. f[of[u]] = IF of[u] = y THEN stack[Height] ELSE Value[of[u]]
    BY <2>1
  <2> HIDE DEF f
  <2> QED
    BY <2>1, <2>2, <2>3
<1>5. Known' = Known
  BY DEF Known, ElementsOf
<1>6. Value' = f
  <2> HIDE DEF f
  <2>1. Value' = [x \in Known' |-> f[x]]
    BY <1>3, <1>4, ValuesNext
  <2> QED
    BY <1>5, <2>1 DEF f
<1>7. Value[home[Len(home)]] = stack[Height]
  BY <1>2, InUse
<1>8. f = [Value EXCEPT ![y] = stack[Height]]
  BY DEF Value
<1>9. Value' = [Value EXCEPT ![y] = Value[home[Len(home)]]]
  BY <1>6, <1>7, <1>8
<1>10. Made' = Made
  BY MadeKept
<1>11. V!Assign(y)
  BY <1>9, <1>10 DEF V!Assign, V!Ready, Ready, Value, Known, Made, VariablesOf
<1> QED
  BY <1>11 DEF V!Step

\* Assigning to a slot assigns to its variable, for the upvalue that points at
\* the slot too.
LEMMA AssignSlot ==
  ASSUME VarInv, IndInv', Ready, NEW slot \in Base .. Height, stranded = {} => home[slot] \in V!Named,
         stack' = [stack EXCEPT ![slot] = stack[Height]],
         UNCHANGED <<frames, closures, location, closed, open, pending, home, of, stranded>>
  PROVE  VarInv' /\ V!Next
<1>1. VarInv'
  BY BaseKept, OwnedKept DEF Ready
<1>2. /\ Height = Len(home) /\ Height = Len(stack) /\ Height \in Nat
      /\ stack[Height] \in Values /\ stack \in Seq(Values)
      /\ slot \in 1 .. Height /\ home[slot] \in Vars
      /\ \A u \in 1 .. Len(location) : location[u] \in Nat
  <2>1. /\ Base \in Nat /\ Base >= 1 /\ Base <= Height
        /\ TypeOK /\ Height = Len(home) /\ Height = Len(stack) /\ stack \in Seq(Values)
    BY BaseRange DEF VarInv, IndInv, TypeOK, Ready, Height
  <2>2. /\ Height \in Nat /\ \A u \in 1 .. Len(location) : location[u] \in Nat
        /\ \A i \in 1 .. Height : stack[i] \in Values /\ home[i] \in Vars
    BY <2>1, Ranges, UpvaluesAssumption
  <2>3. slot \in 1 .. Height /\ Height \in 1 .. Height
    BY <2>1, <2>2
  <2> QED
    BY <2>1, <2>2, <2>3
<1>3. /\ Len(stack') = Len(stack) /\ stack'[slot] = stack[Height]
      /\ \A i \in 1 .. Height : i # slot => stack'[i] = stack[i]
  BY <1>2, ExceptSeq
<1>4. ASSUME stranded = {}
      PROVE  stranded' = {} /\ V!Step
  <2>1. /\ \A i, j \in 1 .. Height : home[i] = home[j] => i = j
        /\ \A u \in 1 .. Len(location) : location[u] # 0 =>
             location[u] \in 1 .. Height /\ location[u] <= Height /\ of[u] = home[location[u]]
        /\ \A u \in 1 .. Len(location) : location[u] = 0 => of[u] # home[slot]
    BY <1>2, <1>4 DEF VarInv, Owned
  <2>2. home[slot] \in Known
    BY <1>2 DEF ElementsOf, Known
  <2>3. \A i \in 1 .. Height : stack'[i] = IF home[i] = home[slot] THEN stack[Height] ELSE stack[i]
    BY <1>2, <1>3, <2>1
  <2>4. ASSUME NEW u \in 1 .. Len(location)
        PROVE  Deref(u)' = IF of[u] = home[slot] THEN {stack[Height]} ELSE Deref(u)
    <3>1. CASE location[u] = 0
      BY <2>1, <3>1 DEF Deref
    <3>2. CASE location[u] # 0
      <4>1. /\ location[u] \in 1 .. Height /\ location[u] <= Height /\ Height' = Height
            /\ of[u] = home[location[u]]
        BY <1>2, <1>3, <2>1, <3>2 DEF Height
      <4>2. Deref(u)' = {stack'[location[u]]} /\ Deref(u) = {stack[location[u]]}
        BY <3>2, <4>1 DEF Deref
      <4> QED
        BY <2>3, <4>1, <4>2
    <3> QED
      BY <3>1, <3>2
  <2>5. V!Step
    BY <1>1, <1>2, <1>3, <1>4, <2>2, <2>3, <2>4, AsAssigned
  <2> QED
    BY <1>4, <2>5
<1> QED
  BY <1>1, <1>4, AsStep

LEMMA SetLocalStep ==
  ASSUME VarInv, NEW slot, SetLocal(slot)
  PROVE  VarInv' /\ V!Next
<1>1. IndInv'
  BY SetLocalInv DEF VarInv
<1>2. slot \in Base .. Height /\ home[slot] \in V!Named
  BY CanName DEF SetLocal, Ready
<1> QED
  BY <1>1, <1>2, AssignSlot DEF SetLocal

LEMMA SetUpvalueStep ==
  ASSUME VarInv, NEW k, SetUpvalue(k)
  PROVE  VarInv' /\ V!Next
<1> DEFINE u == Upvalue(k)
<1>1. IndInv' /\ Ready
  BY SetUpvalueInv DEF VarInv, SetUpvalue
<1>2. u \in 1 .. Len(location) /\ of[u] \in Vars /\ of[u] \in V!Named
  BY CanName DEF SetUpvalue, Ready
<1>3. /\ location[u] = 0 => closed' = [closed EXCEPT ![u] = stack[Height]] /\ stack' = stack
      /\ location[u] # 0 /\ location[u] \in 1 .. Height =>
           stack' = [stack EXCEPT ![location[u]] = stack[Height]] /\ closed' = closed
      /\ location[u] # 0 /\ location[u] \notin 1 .. Height => stack' = stack /\ closed' = closed
  BY DEF SetUpvalue
<1>4. UNCHANGED <<frames, closures, location, open, pending, home, of, stranded>> /\ Base' = Base
  BY BaseKept DEF SetUpvalue, Ready
<1> HIDE DEF u
<1>5. /\ Height = Len(home) /\ \A w, x \in 1 .. Len(location) : of[w] = of[x] => w = x
      /\ \A w \in 1 .. Len(location) : location[w] # 0 => location[w] >= Base
      /\ \A w \in 1 .. Len(location) : location[w] # 0 /\ w \notin stranded =>
           location[w] <= Height /\ of[w] = home[location[w]]
      /\ \A w \in 1 .. Len(location) : location[w] \in Nat
      /\ Height \in Nat /\ Base \in Nat /\ Base >= 1
  <2>1. TypeOK /\ Height = Len(home) /\ Base \in Nat /\ Base >= 1
    BY BaseRange DEF VarInv, IndInv, TypeOK
  <2>2. Height \in Nat /\ \A w \in 1 .. Len(location) : location[w] \in Nat
    BY <2>1, Ranges, UpvaluesAssumption
  <2> QED
    BY <2>1, <2>2 DEF VarInv, Owned
<1>6. CASE location[u] # 0 /\ location[u] \in 1 .. Height
  <2>1. location[u] \in Base .. Height
    BY <1>2, <1>5, <1>6
  <2>2. stranded = {} => home[location[u]] \in V!Named
    BY <1>2, <1>5, <1>6
  <2> QED
    BY <1>1, <1>3, <1>4, <1>6, <2>1, <2>2, AssignSlot
<1>7. CASE location[u] # 0 /\ location[u] \notin 1 .. Height
  <2>1. VarInv'
    BY <1>1, <1>4, OwnedKept
  <2>2. stranded # {}
    BY <1>2, <1>5, <1>7
  <2> QED
    BY <2>1, <2>2, AsStep
<1>8. CASE location[u] = 0
  <2>1. VarInv'
    BY <1>1, <1>4, OwnedKept
  <2>2. closed \in Seq(Values) /\ Len(closed) = Len(location) /\ Len(closed) \in Nat
    BY LenProperties DEF VarInv, IndInv, TypeOK
  <2>3. /\ closed'[u] = stack[Height]
        /\ \A w \in 1 .. Len(location) : w # u => closed'[w] = closed[w]
    <3>1. DOMAIN closed = 1 .. Len(location)
      BY <2>2, LenProperties
    <3> QED
      BY <1>2, <1>3, <1>8, <3>1
  <2>4. of[u] \in Known /\ HasCell(of[u])
    <3>1. Len(of) = Len(location) /\ DOMAIN of = 1 .. Len(location)
      BY LenProperties DEF VarInv, IndInv, TypeOK
    <3> QED
      BY <1>2, <1>8, <3>1 DEF Known, ElementsOf, HasCell
  <2>5. \A i \in 1 .. Height :
          HasCell(home[i]) \/ stack'[i] = IF home[i] = of[u] THEN stack[Height] ELSE stack[i]
    BY <1>3, <1>8, <2>4
  <2>6. ASSUME stranded = {}, NEW w \in 1 .. Len(location)
        PROVE  Deref(w)' = IF of[w] = of[u] THEN {stack[Height]} ELSE Deref(w)
    <3>1. CASE w = u
      BY <1>4, <1>8, <2>3, <3>1 DEF Deref
    <3>2. CASE w # u
      <4>1. of[w] # of[u]
        BY <1>2, <1>5, <3>2
      <4>2. closed'[w] = closed[w] /\ stack' = stack /\ location' = location /\ Height' = Height
        BY <1>3, <1>4, <1>8, <2>3, <3>2 DEF Height
      <4>3. Deref(w)' = Deref(w)
        <5>1. location[w] # 0 => location[w] <= Height
          BY <1>5, <2>6
        <5> QED
          BY <4>2, <5>1 DEF Deref
      <4> QED
        BY <4>1, <4>3
    <3> QED
      BY <3>1, <3>2
  <2>7. ASSUME stranded = {}
        PROVE  stranded' = {} /\ V!Step
    <3>1. stranded' = {} /\ Len(stack') = Len(stack)
      BY <1>3, <1>4, <1>8, <2>7
    <3> QED
      BY <1>1, <1>2, <1>4, <2>1, <2>4, <2>5, <2>6, <2>7, <3>1, AsAssigned
  <2> QED
    BY <2>1, <2>7, AsStep
<1> QED
  BY <1>6, <1>7, <1>8

-----------------------------------------------------------------------------
(* The stack shrinks *)

\* The upvalues of the slots above n are closed, each with its slot's value.
ClosedAbove(n) ==
  /\ Len(location') = Len(location)
  /\ stranded' = {u \in stranded : location'[u] # 0}
  /\ \A u \in 1 .. Len(location) :
       IF location[u] > n THEN location'[u] = 0 /\ closed'[u] \in Deref(u)
                          ELSE location'[u] = location[u] /\ closed'[u] = closed[u]

\* close_upvalues leaves no upvalue of those slots open: the list is sorted.
LEMMA CloseAbove ==
  ASSUME IndInv, NEW n \in Nat, CloseUpvalues(n + 1)
  PROVE  ClosedAbove(n)
<1> DEFINE last == n + 1
           gone == {open[i] : i \in 1 .. Closing(last)}
<1>1. last \in Int /\ last > 0 /\ CloseUpvalues(last) /\ TypeOK /\ OpenSorted
  BY DEF IndInv
<1>2. /\ Len(location') = Len(location)
      /\ \A u \in 1 .. Len(location) :
           location'[u] # 0 => location'[u] = location[u] /\ location[u] < last
      /\ stranded' = {u \in stranded : location'[u] # 0}
  <2> HIDE DEF last, gone
  <2> QED
    BY <1>1, Closes
<1>3. /\ DOMAIN closed = 1 .. Len(location) /\ DOMAIN location = 1 .. Len(location)
      /\ \A u \in 1 .. Len(location) : location[u] \in Nat
      /\ Len(open) \in Nat
      /\ \A i \in 1 .. Len(open) : open[i] \in 1 .. Len(location)
  BY <1>1, Ranges, UpvaluesAssumption
<1>4. PICK copy \in [gone -> Values] :
        /\ \A u \in gone : copy[u] \in Deref(u)
        /\ closed' = [u \in DOMAIN closed |-> IF u \in gone THEN copy[u] ELSE closed[u]]
  BY DEF CloseUpvalues
<1>5. location' = [u \in DOMAIN location |-> IF u \in gone THEN 0 ELSE location[u]]
  BY DEF CloseUpvalues
<1>6. /\ Closing(last) \in 0 .. Len(open)
      /\ \A i \in 1 .. Closing(last) : location[open[i]] >= last
  <2> HIDE DEF last, gone
  <2> QED
    BY <1>1, ClosingProperty
<1>7. \A u \in gone : u \in 1 .. Len(location) /\ location[u] > n
  BY <1>3, <1>6
<1> HIDE DEF gone
<1>8. ASSUME NEW u \in 1 .. Len(location), location[u] > n
      PROVE  location'[u] = 0 /\ closed'[u] \in Deref(u)
  <2>1. location'[u] = 0
    BY <1>2, <1>3, <1>8
  <2>2. u \in gone
    BY <1>3, <1>5, <1>8, <2>1
  <2> QED
    BY <1>3, <1>4, <2>1, <2>2
<1>9. ASSUME NEW u \in 1 .. Len(location), ~ (location[u] > n)
      PROVE  location'[u] = location[u] /\ closed'[u] = closed[u]
  BY <1>3, <1>4, <1>5, <1>7, <1>9
<1> QED
  BY <1>2, <1>8, <1>9 DEF ClosedAbove

\* An upvalue reads the same before and after it is closed.
LEMMA DerefKept ==
  ASSUME VarInv, stranded = {}, NEW n \in Nat, ClosedAbove(n), NEW u \in 1 .. Len(location),
         n <= Height', Height' \in Nat, \A i \in 1 .. n : stack'[i] = stack[i]
  PROVE  Deref(u)' = Deref(u)
<1>1. location[u] \in Nat /\ (location[u] # 0 => location[u] <= Height)
  <2>1. Height = Len(home) /\ Owned(home, location, of, Base, stranded)
    BY DEF VarInv, IndInv, TypeOK
  <2> QED
    BY <2>1, Ranges, UpvaluesAssumption DEF VarInv, IndInv, Owned
<1>2. CASE location[u] > n
  <2>1. location'[u] = 0 /\ closed'[u] \in Deref(u) /\ location[u] # 0
    BY <1>1, <1>2 DEF ClosedAbove
  <2>2. Deref(u) = {stack[location[u]]} /\ Deref(u)' = {closed'[u]}
    BY <1>1, <2>1 DEF Deref
  <2> QED
    BY <2>1, <2>2
<1>3. CASE ~ (location[u] > n)
  <2>1. location'[u] = location[u] /\ closed'[u] = closed[u]
    BY <1>3 DEF ClosedAbove
  <2>2. location[u] = 0 \/ (location[u] \in 1 .. n /\ location[u] <= Height /\ location[u] <= Height')
    BY <1>1, <1>3
  <2> QED
    BY <2>1, <2>2 DEF Deref
<1> QED
  BY <1>2, <1>3

\* The ownership after the top of the stack is gone.
LEMMA OwnedDrop ==
  ASSUME VarInv, NEW n \in 0 .. Height, ClosedAbove(n)
  PROVE  Owned(SubSeq(home, 1, n), location', of, Base, stranded')
<1>1. /\ home \in Seq(Vars) /\ n \in 0 .. Len(home) /\ Len(location) \in Nat
      /\ Owned(home, location, of, Base, stranded)
      /\ Base \in Nat /\ Base >= 1
      /\ \A u \in 1 .. Len(location) : location[u] \in Nat
      /\ \A u \in stranded : location[u] # 0
  BY BaseRange, Ranges, LenProperties, UpvaluesAssumption DEF VarInv, IndInv, TypeOK
<1>2. /\ Len(location') = Len(location)
      /\ \A u \in 1 .. Len(location) :
           IF location[u] > n THEN location'[u] = 0 \/ (location'[u] = location[u] /\ u \in stranded')
                              ELSE location'[u] = location[u] /\ (u \in stranded <=> u \in stranded')
  BY <1>1 DEF ClosedAbove
<1> DEFINE base == Base
<1>3. base \in Nat /\ base >= 1 /\ Owned(home, location, of, base, stranded)
  BY <1>1
<1> HIDE DEF base
<1>4. Owned(SubSeq(home, 1, n), location', of, base, stranded')
  BY <1>1, <1>2, <1>3, OwnedBelow
<1> QED
  BY <1>4 DEF base

\* The stack loses its top: the variables without a closure are forgotten.
LEMMA DropStep ==
  ASSUME VarInv, VarInv', stranded = {}, stranded' = {},
         NEW n \in 0 .. Height, NEW m \in 0 .. n, ClosedAbove(m),
         stack' = SubSeq(stack, 1, n), home' = SubSeq(home, 1, n),
         UNCHANGED <<closures, of>>
  PROVE  V!KeepLasting(Value)
<1>1. Reads
  BY ReadsNow
<1>2. /\ Len(stack') = n /\ \A i \in 1 .. n : stack'[i] = stack[i]
      /\ \A i \in 1 .. n : home'[i] = home[i]
      /\ Height \in Nat /\ n \in Nat /\ Height' = n
  BY Cut, LenProperties DEF VarInv, IndInv, TypeOK, Height
<1>3. ASSUME NEW i \in 1 .. Len(stack')
      PROVE  HasCell(home[i])' \/ Value[home'[i]] = stack'[i]
  <2>1. i \in 1 .. n /\ i \in 1 .. Height
    BY <1>2
  <2>2. HasCell(home[i]) => HasCell(home[i])'
    <3> SUFFICES ASSUME HasCell(home[i])
                 PROVE  HasCell(home[i])'
      OBVIOUS
    <3>1. DOMAIN of = 1 .. Len(location)
      BY LenProperties DEF VarInv, IndInv, TypeOK
    <3>2. PICK u \in 1 .. Len(location) : of[u] = home[i] /\ location[u] = 0
      BY <3>1 DEF HasCell
    <3>3. location'[u] = 0
      BY <3>2 DEF ClosedAbove
    <3> QED
      BY <1>2, <2>1, <3>1, <3>2, <3>3 DEF HasCell
  <2> QED
    BY <1>1, <1>2, <2>1, <2>2 DEF Reads
<1>4. ASSUME NEW u \in 1 .. Len(location')
      PROVE  Deref(u)' = {Value[of'[u]]}
  <2>1. u \in 1 .. Len(location)
    BY DEF ClosedAbove
  <2>2. m \in Nat /\ m <= Height' /\ Height' \in Nat /\ \A i \in 1 .. m : stack'[i] = stack[i]
    BY <1>2
  <2>3. Deref(u)' = Deref(u)
    BY <2>1, <2>2, DerefKept
  <2> QED
    BY <1>1, <2>1, <2>3 DEF Reads
<1>5. Value' = [x \in Known' |-> Value[x]]
  <2> DEFINE f == Value
  <2> HIDE DEF f
  <2>1. /\ \A i \in 1 .. Len(stack') : HasCell(home[i])' \/ f[home'[i]] = stack'[i]
        /\ \A u \in 1 .. Len(location') : Deref(u)' = {f[of'[u]]}
    BY <1>3, <1>4 DEF f
  <2>2. Value' = [x \in Known' |-> f[x]]
    BY <2>1, ValuesNext
  <2> QED
    BY <2>2 DEF f
<1>6. V!Lasting' = Known'
  BY LastingNext
<1> QED
  BY <1>5, <1>6 DEF V!KeepLasting, Value, Known

LEMMA PopStep ==
  ASSUME VarInv, Pop
  PROVE  VarInv' /\ V!Next
<1>1. IndInv'
  BY PopInv DEF VarInv
<1> DEFINE n == Height - 1
<1>2. /\ n \in 0 .. Height /\ n \in Nat /\ Height \in Nat /\ Height = Len(home) /\ Height \in Base .. Height
      /\ Base \in Nat /\ Base >= 1
      /\ \A u \in 1 .. Len(location) : location[u] \in Nat
      /\ DOMAIN location = 1 .. Len(location) /\ Len(location) \in Nat
      /\ \A u \in stranded : location[u] # 0
  <2>1. /\ Height \in Nat /\ Height = Len(home) /\ Base \in Nat /\ Base >= 1
        /\ Base <= Frame.slots /\ Frame.slots \in Nat /\ Frame.slots < Height
    BY BaseRange, Ranges DEF VarInv, IndInv, TypeOK, Pop, Ready
  <2>2. /\ \A u \in 1 .. Len(location) : location[u] \in Nat
        /\ DOMAIN location = 1 .. Len(location) /\ Len(location) \in Nat
        /\ \A u \in stranded : location[u] # 0
    BY Ranges, UpvaluesAssumption DEF VarInv, IndInv
  <2> QED
    BY <2>1, <2>2
<1>3. /\ stack' = SubSeq(stack, 1, n) /\ home' = SubSeq(home, 1, n)
      /\ stranded' = stranded \cup {u \in DOMAIN location : location[u] = Height}
      /\ UNCHANGED <<frames, closures, location, closed, open, pending, of>>
      /\ Base' = Base
  BY BaseKept DEF Pop, Ready
<1>4. Owned(home, location, of, Base, stranded)
  BY DEF VarInv
<1>5. Owned(home', location', of', Base', stranded')
  <2> DEFINE base == Base
  <2>1. \A u \in 1 .. Len(location) :
          IF location[u] > n THEN location'[u] = 0 \/ (location'[u] = location[u] /\ u \in stranded')
                             ELSE location'[u] = location[u] /\ (u \in stranded <=> u \in stranded')
    <3> TAKE u \in 1 .. Len(location)
    <3>1. CASE location[u] > n
      <4>1. location[u] = Height \/ location[u] > Height
        BY <1>2, <3>1
      <4>2. u \in stranded'
        BY <1>2, <1>3, <1>4, <4>1 DEF Owned
      <4> QED
        BY <1>3, <3>1, <4>2
    <3>2. CASE ~ (location[u] > n)
      <4>1. location[u] # Height
        BY <1>2, <3>2
      <4> QED
        BY <1>3, <3>2, <4>1
    <3> QED
      BY <3>1, <3>2
  <2>2. home \in Seq(Vars) /\ n \in 0 .. Len(home)
    BY <1>2 DEF VarInv, IndInv, TypeOK
  <2>3. base \in Nat /\ base >= 1 /\ Owned(home, location, of, base, stranded)
    BY <1>2, <1>4
  <2> HIDE DEF n, base
  <2>4. Owned(SubSeq(home, 1, n), location', of, base, stranded')
    BY <1>2, <1>3, <2>1, <2>2, <2>3, OwnedBelow
  <2> QED
    BY <1>3, <2>4 DEF base
<1> HIDE DEF n
<1>6. VarInv'
  <2>1. AllHeld'
    BY <1>3, HeldKept DEF VarInv
  <2> QED
    BY <1>1, <1>5, <2>1 DEF VarInv, Owned
<1>7. Made' = Made
  BY <1>3, MadeKept
<1>8. ASSUME stranded = {}, stranded' = {}
      PROVE  V!Step
  <2>1. ClosedAbove(n)
    <3>1. \A u \in 1 .. Len(location) : location[u] # 0 => location[u] <= Height /\ location[u] # Height
      BY <1>2, <1>3, <1>4, <1>8 DEF Owned
    <3>2. \A u \in 1 .. Len(location) : ~ (location[u] > n)
      BY <1>2, <3>1 DEF n
    <3> QED
      BY <1>3, <1>8, <3>2 DEF ClosedAbove
  <2>2. n \in 0 .. n
    BY <1>2
  <2>3. V!KeepLasting(Value)
    BY <1>2, <1>3, <1>6, <1>8, <2>1, <2>2, DropStep
  <2>4. V!Leave
    BY <1>2, <1>3, <1>7, <2>3
    DEF V!Leave, V!Ready, Ready, V!Frame, Frame, Pop, n, Made, VariablesOf, Value, Known
  <2> QED
    BY <2>4 DEF V!Step
<1>9. ASSUME stranded = {}, stranded' # {}
      PROVE  V!Lose
  <2>1. PICK u \in 1 .. Len(location) : location[u] = Height
    BY <1>2, <1>3, <1>9
  <2>2. of[u] = home[Height]
    BY <1>2, <1>4, <1>9, <2>1 DEF Owned
  <2>3. PICK c \in 1 .. Len(closures) : \E k \in 1 .. Len(closures[c]) : closures[c][k] = u
    BY DEF VarInv, AllHeld, HeldIn
  <2>4. home[Height] \in ElementsOf(Made[c]) /\ c \in 1 .. Len(Made)
    BY <2>2, <2>3, MadeNow DEF VarInv, ElementsOf
  <2>5. \E d \in 1 .. Len(Made) : home[Len(home)] \in V!ElementsOf(Made[d])
    BY <1>2, <2>4 DEF V!ElementsOf, ElementsOf
  <2> QED
    BY <1>2, <1>3, <1>7, <2>5
    DEF V!Lose, V!Ready, Ready, V!Frame, Frame, Pop, n, Made, VariablesOf, Value, Known
<1>10. CASE stranded = {} /\ stranded' = {}
  BY <1>6, <1>8, <1>10, AsStep
<1>11. CASE stranded = {} /\ stranded' # {}
  BY <1>6, <1>9, <1>11 DEF V!Next
<1>12. CASE stranded # {}
  BY <1>6, <1>12, AsStep
<1> QED
  BY <1>10, <1>11, <1>12

LEMMA CloseUpvalueStep ==
  ASSUME VarInv, CloseUpvalue
  PROVE  VarInv' /\ V!Next
<1>1. IndInv'
  BY CloseUpvalueInv DEF VarInv
<1> DEFINE n == Height - 1
<1>2. n \in Nat /\ n \in 0 .. Height /\ Height = Len(home) /\ n + 1 = Height
  <2>1. /\ Height \in Nat /\ Height = Len(home)
        /\ Base \in Nat /\ Base >= 1 /\ Base <= Frame.slots
        /\ Frame.slots \in Nat /\ Frame.slots < Height
    BY BaseRange, Ranges DEF VarInv, IndInv, TypeOK, CloseUpvalue, Ready
  <2> QED
    BY <2>1
<1>3. /\ stack' = SubSeq(stack, 1, n) /\ home' = SubSeq(home, 1, n)
      /\ UNCHANGED <<frames, closures, pending, of>> /\ Base' = Base
  BY BaseKept DEF CloseUpvalue, Ready
<1> HIDE DEF n
<1>4. ClosedAbove(n)
  BY <1>2, CloseAbove DEF CloseUpvalue, VarInv
<1>5. VarInv'
  <2>1. Owned(home', location', of', Base', stranded')
    BY <1>2, <1>3, <1>4, OwnedDrop
  <2>2. AllHeld'
    BY <1>3, <1>4, HeldKept DEF VarInv, ClosedAbove
  <2> QED
    BY <1>1, <2>1, <2>2 DEF VarInv, Owned
<1>6. Made' = Made
  BY <1>3, MadeKept
<1>7. ASSUME stranded = {}
      PROVE  stranded' = {} /\ V!Step
  <2>1. stranded' = {}
    BY <1>4, <1>7 DEF ClosedAbove
  <2>2. n \in 0 .. n
    BY <1>2
  <2>3. V!KeepLasting(Value)
    BY <1>2, <1>3, <1>4, <1>5, <1>7, <2>1, <2>2, DropStep
  <2>4. V!Leave
    BY <1>2, <1>3, <1>6, <2>3
    DEF V!Leave, V!Ready, Ready, V!Frame, Frame, CloseUpvalue, n, Made, VariablesOf, Value, Known
  <2> QED
    BY <2>1, <2>4 DEF V!Step
<1> QED
  BY <1>5, <1>7, AsStep

-----------------------------------------------------------------------------
(* Closures are made *)

\* A closure without upvalues is one without variables.
LEMMA MadeMore ==
  ASSUME IndInv, IndInv', closures' = Append(closures, <<>>), UNCHANGED <<of, location>>
  PROVE  Made' = Append(Made, <<>>)
<1>1. /\ Made \in Seq(Seq(Vars)) /\ Len(Made) = Len(closures)
      /\ Made' \in Seq(Seq(Vars)) /\ Len(Made') = Len(closures')
      /\ \A c \in 1 .. Len(closures') : Len(Made'[c]) = Len(closures'[c])
      /\ closures \in Seq(Seq(DOMAIN location))
  BY MadeNow, MadeNext DEF IndInv, TypeOK
<1> DEFINE none == <<>>
<1>2. none \in Seq(DOMAIN location) /\ none \in Seq(Vars) /\ Len(none) = 0
  BY EmptySeq
<1>3. closures' = Append(closures, none)
  OBVIOUS
<1> HIDE DEF none
<1>4. /\ Len(closures') = Len(closures) + 1 /\ Len(closures) \in Nat
      /\ \A c \in 1 .. Len(closures) : closures'[c] = closures[c]
      /\ closures'[Len(closures) + 1] = none
  BY <1>1, <1>2, <1>3, Appended, LenProperties
<1> DEFINE more == Append(Made, none)
<1>5. /\ more \in Seq(Seq(Vars)) /\ Len(more) = Len(closures) + 1
      /\ \A c \in 1 .. Len(closures) : more[c] = Made[c]
      /\ more[Len(closures) + 1] = none
  BY <1>1, <1>2, Appended
<1> HIDE DEF more
<1>6. ASSUME NEW c \in 1 .. Len(closures)
      PROVE  Made'[c] = Made[c]
  <2>1. /\ Made'[c] = [k \in 1 .. Len(closures'[c]) |-> of'[closures'[c][k]]]
        /\ Made[c] = [k \in 1 .. Len(closures[c]) |-> of[closures[c][k]]]
    BY <1>4 DEF Made, VariablesOf
  <2> QED
    BY <1>4, <2>1
<1>7. Made'[Len(closures) + 1] = none
  <2>1. Len(closures) + 1 \in 1 .. Len(closures')
    BY <1>4
  <2>2. Made'[Len(closures) + 1] \in Seq(Vars) /\ Len(Made'[Len(closures) + 1]) = 0
    BY <1>1, <1>2, <1>4, <2>1, ElementOfSeq
  <2> QED
    BY <2>2, EmptySeq DEF none
<1>8. \A c \in 1 .. Len(Made') : Made'[c] = more[c]
  <2> TAKE c \in 1 .. Len(Made')
  <2>1. c \in 1 .. Len(closures) \/ c = Len(closures) + 1
    BY <1>1, <1>4
  <2> QED
    BY <1>5, <1>6, <1>7, <2>1
<1>9. Len(Made') = Len(more)
  BY <1>1, <1>4, <1>5
<1>10. Made' = more
  BY <1>1, <1>5, <1>8, <1>9, SeqEqual
<1> QED
  BY <1>10 DEF more, none

LEMMA ClosureStep ==
  ASSUME VarInv, NEW v \in Values, NEW n \in 0 .. MaxUpvalues, Closure(v, n)
  PROVE  VarInv' /\ V!Next
<1>1. IndInv' /\ IndInv
  BY ClosureInv DEF VarInv
<1>2. /\ Ready /\ Push(v) /\ Len(closures) < MaxClosures
      /\ closures' = Append(closures, <<>>) /\ pending' = n
      /\ UNCHANGED <<frames, location, closed, open, of, stranded>>
      /\ Base' = Base
  BY BaseKept DEF Closure, Ready
<1>3. AllHeld'
  <2>1. closures \in Seq(Seq(DOMAIN location))
    BY <1>1 DEF IndInv, TypeOK
  <2>2. \A u \in 1 .. Len(location) : HeldIn(closures, u)
    BY DEF VarInv, AllHeld
  <2>3. \A u \in 1 .. Len(location) : HeldIn(Append(closures, <<>>), u)
    BY <2>1, <2>2, HeldMore
  <2>4. \A u \in 1 .. Len(location') : HeldIn(closures', u)
    BY <1>2, <2>3
  <2> QED
    BY <2>4 DEF AllHeld, HeldIn
<1>4. VarInv'
  BY <1>1, <1>2, <1>3, PushVar
<1>5. Made' = Append(Made, <<>>) /\ Len(Made) = Len(closures)
  BY <1>1, <1>2, MadeMore, MadeNow
<1>6. ASSUME stranded = {}
      PROVE  stranded' = {} /\ V!Step
  <2>1. V!PushNew(Fresh, v) /\ Fresh \in Vars
    BY <1>2, <1>4, <1>6, PushStep, FreshIsNew DEF Push
  <2>2. V!MakeClosure(Fresh, v, n)
    BY <1>2, <1>5, <2>1 DEF V!MakeClosure, V!Ready, Ready, Made, VariablesOf
  <2> QED
    BY <1>2, <1>6, <2>1, <2>2 DEF V!Step
<1> QED
  BY <1>4, <1>6, AsStep

\* Giving an upvalue to the newest closure gives it the upvalue's variable.
LEMMA MadeGiven ==
  ASSUME IndInv, IndInv', pending > 0, NEW u \in 1 .. Len(location'), Give(u), NEW y, of'[u] = y,
         DOMAIN location' = 1 .. Len(location'), closures \in Seq(Seq(1 .. Len(location'))),
         \A w \in 1 .. Len(location) : of'[w] = of[w]
  PROVE  Made' = [Made EXCEPT ![Len(Made)] = Append(@, y)]
<1> DEFINE n == Len(closures)
<1>1. /\ Made \in Seq(Seq(Vars)) /\ Len(Made) = n
      /\ \A c \in 1 .. n :
           /\ Len(Made[c]) = Len(closures[c]) /\ Len(closures[c]) \in Nat
           /\ \A k \in 1 .. Len(closures[c]) :
                closures[c][k] \in 1 .. Len(location) /\ Made[c][k] = of[closures[c][k]]
  BY MadeNow
<1>2. /\ Made' \in Seq(Seq(Vars)) /\ Len(Made') = Len(closures')
      /\ \A c \in 1 .. Len(closures') :
           /\ Len(Made'[c]) = Len(closures'[c]) /\ Len(closures'[c]) \in Nat
           /\ \A k \in 1 .. Len(closures'[c]) : Made'[c][k] = of'[closures'[c][k]]
  BY MadeNext
<1>3. n \in 1 .. n /\ closures' = [closures EXCEPT ![n] = Append(@, u)]
  <2>1. closures # <<>> /\ closures \in Seq(Seq(DOMAIN location))
    BY UpvaluesAssumption DEF IndInv, TypeOK
  <2>2. n \in Nat /\ n # 0
    BY <2>1, EmptySeq, LenProperties
  <2> QED
    BY <2>2 DEF Give
<1> HIDE DEF n
<1>4. /\ Len(closures') = n
      /\ \A c \in 1 .. n : c # n => closures'[c] = closures[c]
      /\ Len(closures'[n]) = Len(closures[n]) + 1
      /\ \A k \in 1 .. Len(closures[n]) : closures'[n][k] = closures[n][k]
      /\ closures'[n][Len(closures[n]) + 1] = u
  BY <1>3, Given DEF n
<1>5. \A c \in 1 .. n : Made[c] \in Seq(Vars) /\ Made'[c] \in Seq(Vars)
  BY <1>1, <1>2, <1>4, ElementOfSeq
<1>6. ASSUME NEW c \in 1 .. n, c # n
      PROVE  Made'[c] = Made[c]
  <2>1. Len(Made'[c]) = Len(Made[c])
    <3>1. closures'[c] = closures[c] /\ c \in 1 .. Len(closures')
      BY <1>4, <1>6
    <3>2. Len(Made'[c]) = Len(closures'[c])
      BY <1>2, <3>1
    <3> QED
      BY <1>1, <3>1, <3>2
  <2>2. ASSUME NEW k \in 1 .. Len(Made'[c])
        PROVE  Made'[c][k] = Made[c][k]
    <3>1. closures'[c] = closures[c] /\ c \in 1 .. Len(closures') /\ k \in 1 .. Len(closures[c])
      BY <1>1, <1>4, <1>6, <2>1
    <3>2. Made'[c][k] = of'[closures[c][k]]
      BY SMTT(40), <1>2, <3>1
    <3>3. closures[c][k] \in 1 .. Len(location) /\ Made[c][k] = of[closures[c][k]]
      BY <1>1, <3>1
    <3> QED
      BY <3>2, <3>3
  <2> QED
    BY <1>5, <2>1, <2>2, SeqEqual
<1>7. y \in Vars
  <2>1. of' \in Seq(Vars) /\ Len(of') = Len(location')
    BY DEF IndInv, TypeOK
  <2> QED
    BY <2>1, ElementOfSeq
<1> DEFINE more == Append(Made[n], y)
<1>8. /\ more \in Seq(Vars) /\ Len(more) = Len(closures[n]) + 1
      /\ \A k \in 1 .. Len(closures[n]) : more[k] = Made[n][k]
      /\ more[Len(closures[n]) + 1] = y
  BY <1>1, <1>3, <1>5, <1>7, Appended
<1> HIDE DEF more
<1>9. Made'[n] = more
  <2>1. Len(Made'[n]) = Len(closures[n]) + 1 /\ Len(closures[n]) \in Nat
    BY <1>1, <1>2, <1>3, <1>4
  <2>2. ASSUME NEW k \in 1 .. Len(Made'[n])
        PROVE  Made'[n][k] = more[k]
    <3>1. Made'[n][k] = of'[closures'[n][k]]
      BY <1>2, <1>3, <1>4
    <3>2. CASE k \in 1 .. Len(closures[n])
      <4>1. closures'[n][k] = closures[n][k]
        BY <1>4, <3>2
      <4>2. closures[n][k] \in 1 .. Len(location) /\ Made[n][k] = of[closures[n][k]]
        BY <1>1, <1>3, <3>2
      <4>3. more[k] = Made[n][k]
        BY <1>8, <3>2
      <4> QED
        BY <3>1, <4>1, <4>2, <4>3
    <3>3. CASE k = Len(closures[n]) + 1
      BY <1>4, <1>8, <3>1, <3>3
    <3> QED
      BY <2>1, <3>2, <3>3
  <2> QED
    BY <1>3, <1>5, <1>8, <2>1, <2>2, SeqEqual
<1> DEFINE given == [Made EXCEPT ![n] = more]
<1>10. /\ given \in Seq(Seq(Vars)) /\ Len(given) = n /\ given[n] = more
       /\ \A c \in 1 .. n : c # n => given[c] = Made[c]
  BY <1>1, <1>3, <1>8, ExceptSeq
<1> HIDE DEF given
<1>11. \A c \in 1 .. Len(Made') : Made'[c] = given[c]
  BY <1>2, <1>4, <1>6, <1>9, <1>10
<1>12. Made' = given
  BY <1>2, <1>4, <1>10, <1>11, SeqEqual
<1> QED
  BY <1>1, <1>12 DEF given, more

\* The closure being made has more upvalues, or the new one, to choose from.
LEMMA ClosuresAmong ==
  ASSUME IndInv, IndInv', Len(location) <= Len(location')
  PROVE  /\ Len(location) \in Nat /\ Len(location') \in Nat
         /\ DOMAIN location' = 1 .. Len(location')
         /\ closures \in Seq(Seq(1 .. Len(location')))
<1>1. /\ Len(location) \in Nat /\ Len(location') \in Nat
      /\ DOMAIN location' = 1 .. Len(location') /\ DOMAIN location = 1 .. Len(location)
  BY LenProperties DEF IndInv, TypeOK
<1>2. closures \in Seq(Seq(1 .. Len(location)))
  BY <1>1 DEF IndInv, TypeOK
<1> DEFINE S == 1 .. Len(location)
           T == 1 .. Len(location')
<1>3. S \subseteq T
  BY <1>1
<1> HIDE DEF S, T
<1>4. Seq(S) \subseteq Seq(T)
  BY <1>3, SeqMonotonic
<1>5. closures \in Seq(Seq(T))
  BY <1>2, <1>4, SeqMonotonic DEF S
<1> QED
  BY <1>1, <1>5 DEF T

LEMMA GiveHeld ==
  ASSUME VarInv, IndInv', pending > 0, NEW u \in 1 .. Len(location'), Give(u),
         Len(location) <= Len(location'),
         \A w \in 1 .. Len(location') : w \in 1 .. Len(location) \/ w = u
  PROVE  AllHeld'
<1>1. closures \in Seq(Seq(1 .. Len(location')))
  BY ClosuresAmong DEF VarInv
<1> DEFINE n == Len(closures)
<1>2. n \in 1 .. n /\ closures' = [closures EXCEPT ![n] = Append(@, u)]
  <2>1. closures # <<>>
    BY UpvaluesAssumption DEF VarInv, IndInv, TypeOK
  <2>2. n \in Nat /\ n # 0
    BY <1>1, <2>1, EmptySeq, LenProperties
  <2> QED
    BY <2>2 DEF Give
<1> HIDE DEF n
<1>3. \A w \in 1 .. Len(location') : w # u => HeldIn(closures, w)
  BY DEF VarInv, AllHeld
<1>4. ASSUME NEW w \in 1 .. Len(location')
      PROVE  HeldIn(closures', w)
  <2> DEFINE S == 1 .. Len(location')
  <2>1. closures \in Seq(Seq(S)) /\ u \in S
    BY <1>1
  <2> HIDE DEF S
  <2>2. n \in 1 .. Len(closures)
    BY <1>2 DEF n
  <2>3. w # u => HeldIn(closures, w)
    BY <1>3
  <2>4. HeldIn(GivenTo(closures, n, u), w)
    BY <2>1, <2>2, <2>3, HeldGiven
  <2> QED
    BY <1>2, <2>4 DEF GivenTo
<1> QED
  BY <1>4 DEF AllHeld, HeldIn

\* The newest closure refers to one more of the variables the running function
\* can name.
LEMMA ReferStep ==
  ASSUME VarInv, VarInv', stranded = {}, stranded' = {}, pending > 0,
         NEW y \in Vars, y \in V!Named,
         NEW u \in 1 .. Len(location'), Give(u), of'[u] = y,
         Len(location) <= Len(location'),
         \A w \in 1 .. Len(location) : of'[w] = of[w] /\ location'[w] = location[w],
         UNCHANGED <<stack, frames, home>>,
         \A w \in 1 .. Len(location') : Deref(w)' = {Value[of'[w]]}
  PROVE  V!Step
<1>1. IndInv /\ IndInv'
  BY DEF VarInv
<1>2. Made' = [Made EXCEPT ![Len(Made)] = Append(@, y)]
  BY <1>1, ClosuresAmong, MadeGiven
<1>3. Value' = [x \in Known' |-> Value[x]]
  <2> DEFINE f == Value
  <2>1. ASSUME NEW i \in 1 .. Len(stack')
        PROVE  HasCell(home[i])' \/ f[home'[i]] = stack'[i]
    <3>1. HasCell(home[i]) \/ Value[home[i]] = stack[i]
      BY ReadsNow DEF Reads, Height
    <3>2. HasCell(home[i]) => HasCell(home[i])'
      <4>1. /\ DOMAIN of = 1 .. Len(location) /\ DOMAIN of' = 1 .. Len(location')
            /\ Len(location) \in Nat /\ Len(location') \in Nat
        BY <1>1, LenProperties DEF IndInv, TypeOK
      <4> QED
        BY <4>1 DEF HasCell
    <3> QED
      BY <3>1, <3>2
  <2>2. \A w \in 1 .. Len(location') : Deref(w)' = {f[of'[w]]}
    OBVIOUS
  <2> HIDE DEF f
  <2>3. Value' = [x \in Known' |-> f[x]]
    BY <2>1, <2>2, ValuesNext
  <2> QED
    BY <2>3 DEF f
<1>4. V!KeepLasting(Value)
  BY <1>3, LastingNext DEF V!KeepLasting, Value, Known
<1>5. pending' = pending - 1
  BY DEF Give
<1>6. V!Refer(y)
  BY <1>2, <1>4, <1>5 DEF V!Refer, Made, VariablesOf, Value, Known
<1> QED
  BY <1>6 DEF V!Step

\* OP_CLOSURE hands an upvalue that there is to the new closure.
LEMMA GiveOldStep ==
  ASSUME VarInv, IndInv', pending > 0, NEW u \in 1 .. Len(location), Give(u),
         of[u] \in Vars, stranded = {} => of[u] \in V!Named,
         UNCHANGED <<stack, frames, location, closed, open, home, of, stranded>>
  PROVE  VarInv' /\ V!Next
<1>1. Len(location) \in Nat /\ Len(location') = Len(location) /\ frames # <<>>
  BY LenProperties, UpvaluesAssumption DEF VarInv, IndInv, TypeOK
<1>2. AllHeld'
  BY <1>1, GiveHeld
<1>3. VarInv'
  BY <1>1, <1>2, BaseKept DEF VarInv, Owned
<1>4. ASSUME stranded = {}
      PROVE  stranded' = {} /\ V!Step
  <2>1. \A w \in 1 .. Len(location') : Deref(w)' = {Value[of'[w]]}
    BY <1>1, <1>4, ReadsNow DEF Reads, Deref, Height
  <2> QED
    BY <1>1, <1>3, <1>4, <2>1, ReferStep
<1> QED
  BY <1>3, <1>4, AsStep

LEMMA PassOnStep ==
  ASSUME VarInv, NEW k, PassOn(k)
  PROVE  VarInv' /\ V!Next
<1> DEFINE u == Upvalue(k)
<1>1. IndInv' /\ pending > 0 /\ frames # <<>>
  BY PassOnInv DEF VarInv, IndInv, TypeOK, PassOn
<1>2. u \in 1 .. Len(location) /\ of[u] \in Vars /\ of[u] \in V!Named
  BY <1>1, CanName DEF PassOn
<1>3. Give(u) /\ UNCHANGED <<stack, frames, location, closed, open, home, of, stranded>>
  BY DEF PassOn
<1> HIDE DEF u
<1> QED
  BY <1>1, <1>2, <1>3, GiveOldStep

\* Capturing a variable makes no copy: the upvalue there is or the new one reads
\* the variable's slot.
LEMMA CaptureLocalStep ==
  ASSUME VarInv, NEW slot, CaptureLocal(slot)
  PROVE  VarInv' /\ V!Next
<1>1. /\ IndInv' /\ pending > 0 /\ frames # <<>> /\ UNCHANGED <<stack, frames, home, stranded>>
      /\ Base' = Base
  BY CaptureLocalInv, BaseKept DEF VarInv, IndInv, TypeOK, CaptureLocal
<1>2. /\ slot \in Base .. Height /\ slot \in 1 .. Height
      /\ home[slot] \in Vars /\ home[slot] \in V!Named
  BY <1>1, CanName DEF CaptureLocal
<1>3. CASE Captured(slot)
  <2> DEFINE u == open[Passed(slot) + 1]
  <2>1. Give(u) /\ UNCHANGED <<location, closed, open, of>>
    BY <1>3 DEF CaptureLocal
  <2>2. u \in 1 .. Len(location) /\ location[u] = slot
    <3>1. Passed(slot) \in 0 .. Len(open) /\ Height \in Nat
      BY <1>2, Ranges, PassedProperty DEF VarInv, IndInv
    <3>2. Passed(slot) + 1 \in 1 .. Len(open)
      BY <1>3, <3>1, Ranges DEF Captured, VarInv, IndInv
    <3> QED
      BY <1>3, <3>2, Ranges DEF VarInv, IndInv, Captured
  <2> HIDE DEF u
  <2>3. stranded = {} => of[u] = home[slot]
    BY <1>2, <2>2 DEF VarInv, Owned
  <2>4. of[u] \in Vars
    BY <2>2, Ranges DEF VarInv, IndInv
  <2> QED
    BY <1>1, <1>2, <2>1, <2>2, <2>3, <2>4, GiveOldStep
<1>4. CASE ~ Captured(slot)
  <2> DEFINE n == Len(location)
             u == n + 1
  <2>1. /\ location' = Append(location, slot)
        /\ closed' = Append(closed, Nil)
        /\ of' = Append(of, home[slot])
        /\ Give(u)
    BY <1>4 DEF CaptureLocal
  <2>2. /\ location \in Seq(0 .. MaxStack) /\ closed \in Seq(Values) /\ of \in Seq(Vars)
        /\ Len(closed) = n /\ Len(of) = n /\ n \in Nat
        /\ slot \in 0 .. MaxStack /\ Nil \in Values
        /\ home \in Seq(Vars) /\ slot \in Base .. Len(home) /\ Height = Len(home)
        /\ Base \in Nat /\ Base >= 1
        /\ \A w \in 1 .. n : location[w] \in Nat
        /\ n + 1 \notin stranded
    <3>1. /\ Height \in Nat /\ Height <= MaxStack /\ Len(location) \in Nat
          /\ \A w \in 1 .. n : location[w] \in Nat
          /\ \A w \in stranded : w \in 1 .. n
      BY Ranges, UpvaluesAssumption DEF VarInv, IndInv
    <3> QED
      BY <1>2, <3>1, BaseRange, UpvaluesAssumption DEF VarInv, IndInv, TypeOK
  <2>3. /\ Len(location') = n + 1 /\ location'[u] = slot
        /\ \A w \in 1 .. n : location'[w] = location[w]
    BY <2>1, <2>2, Appended
  <2>4. /\ Len(of') = n + 1 /\ of'[u] = home[slot]
        /\ \A w \in 1 .. n : of'[w] = of[w]
    <3> DEFINE x == home[slot]
    <3>1. x \in Vars /\ of' = Append(of, x) /\ of \in Seq(Vars) /\ Len(of) = n
      BY <1>2, <2>1, <2>2
    <3> HIDE DEF x, n
    <3>2. Len(of') = n + 1 /\ of'[n + 1] = x /\ \A w \in 1 .. n : of'[w] = of[w]
      BY <3>1, Appended
    <3> QED
      BY <3>2 DEF x
  <2>5. \A w \in 1 .. n : closed'[w] = closed[w]
    BY <2>1, <2>2, Appended
  <2>6. \A w \in 1 .. n : location[w] # slot
    <3>1. slot \in Int /\ slot > 0 /\ DOMAIN location = 1 .. n
      BY <1>2, <2>2, LenProperties
    <3> HIDE DEF n
    <3>2. \A w \in DOMAIN location : location[w] # slot
      BY <1>4, <3>1, SearchComplete DEF VarInv, IndInv
    <3> QED
      BY <3>1, <3>2
  <2>7. Owned(home', location', of', Base', stranded')
    <3> DEFINE base == Base
    <3>1. /\ base \in Nat /\ base >= 1 /\ slot \in base .. Len(home)
          /\ Owned(home, location, of, base, stranded)
      BY <2>2 DEF VarInv
    <3> HIDE DEF base
    <3>2. Owned(home, Append(location, slot), Append(of, home[slot]), base, stranded)
      BY <2>2, <2>6, <3>1, OwnedCaptured
    <3> QED
      BY <1>1, <2>1, <3>2 DEF base
  <2> HIDE DEF n, u
  <2>8. /\ u = n + 1 /\ n = Len(location) /\ u \in 1 .. Len(location')
        /\ \A w \in 1 .. Len(location') : w \in 1 .. n \/ w = u
        /\ n <= Len(location')
    BY <2>2, <2>3 DEF u, n
  <2>9. AllHeld'
    BY <1>1, <2>1, <2>8, GiveHeld
  <2>10. VarInv'
    BY <1>1, <2>7, <2>9 DEF VarInv, Owned
  <2>11. ASSUME stranded = {}, NEW w \in 1 .. Len(location')
         PROVE  Deref(w)' = {Value[of'[w]]}
    <3>1. CASE w \in 1 .. n
      <4>1. Deref(w) = {Value[of[w]]}
        BY <2>8, <2>11, <3>1, ReadsNow DEF Reads
      <4>2. Deref(w)' = Deref(w)
        BY <1>1, <2>3, <2>5, <3>1 DEF Deref, Height
      <4> QED
        BY <2>4, <3>1, <4>1, <4>2
    <3>2. CASE w = u
      <4>1. Value[home[slot]] = stack[slot]
        BY <1>2, <2>11, InUse
      <4>2. Deref(w)' = {stack[slot]}
        <5>1. slot # 0 /\ slot <= Height /\ Height' = Height
          BY <1>1, <1>2 DEF Height
        <5> QED
          BY <1>1, <2>3, <3>2, <5>1 DEF Deref
      <4> QED
        BY <2>4, <3>2, <4>1, <4>2
    <3> QED
      BY <2>8, <3>1, <3>2
  <2>12. ASSUME stranded = {}
         PROVE  stranded' = {} /\ V!Step
    BY <1>1, <1>2, <2>1, <2>3, <2>4, <2>8, <2>10, <2>11, <2>12, ReferStep
  <2> QED
    BY <2>10, <2>12, AsStep
<1> QED
  BY <1>3, <1>4

-----------------------------------------------------------------------------
(* Calls and returns *)

LEMMA CallStep ==
  ASSUME VarInv, NEW c \in 1 .. MaxClosures, NEW n \in 0 .. MaxStack, c <= Len(closures), Call(c, n)
  PROVE  VarInv' /\ V!Next
<1>1. Len(closures) \in Nat /\ Height = Len(home) /\ Height = Len(stack) /\ Len(Made) = Len(closures)
  BY LenProperties, MadeNow DEF VarInv, IndInv, TypeOK, Height
<1>2. c \in 1 .. Len(closures) /\ n \in Nat
  BY <1>1, UpvaluesAssumption
<1>3. IndInv'
  BY <1>2, CallInv DEF VarInv
<1>4. UNCHANGED <<stack, closures, location, closed, open, pending, home, of, stranded>>
  BY DEF Call
<1>5. VarInv'
  <2> DEFINE new == [slots |-> Height - n, closure |-> c]
  <2>1. /\ frames # <<>> /\ frames' = Append(frames, new)
        /\ frames \in Seq([slots : 1 .. MaxStack, closure : 0 .. Len(closures)])
    BY DEF Call, Ready, VarInv, IndInv, TypeOK
  <2>2. Len(frames) \in Nat /\ Len(frames) # 0
    BY <2>1, EmptySeq, LenProperties
  <2> HIDE DEF new
  <2>3. Len(frames') = Len(frames) + 1 /\ \A i \in 1 .. Len(frames) : frames'[i] = frames[i]
    BY <2>1, Appended
  <2>4. frames'[1] = frames[1] /\ frames' # <<>>
    BY <2>2, <2>3
  <2>5. Base' = Base
    BY <2>1, <2>4 DEF Base
  <2> QED
    BY <1>3, <1>4, <2>5, OwnedKept
<1>6. Made' = Made /\ Value' = Value
  <2>1. Known' = Known
    BY <1>4 DEF Known, ElementsOf
  <2>2. \A x : ValueOf(x)' = ValueOf(x)
    BY <1>4 DEF ValueOf, HasCell, ElementsOf, Height
  <2> QED
    BY <1>4, <2>1, <2>2, MadeKept DEF Value
<1>7. V!Call(c, n)
  BY <1>1, <1>4, <1>6
  DEF V!Call, V!Ready, Ready, V!Frame, Frame, Call, Made, VariablesOf, Value, Known
<1>8. c <= Len(Made)
  BY <1>1
<1>9. V!Step
  BY <1>7, <1>8 DEF V!Step, Made, VariablesOf
<1> QED
  BY <1>4, <1>5, <1>9, AsStep

\* A function returns: its variables end, and the result is a new one.
LEMMA ReturnStep ==
  ASSUME VarInv, Return
  PROVE  VarInv' /\ V!Next
<1> DEFINE m == Frame.slots - 1
<1>1. IndInv' /\ IndInv
  BY ReturnInv DEF VarInv
<1>2. /\ Height \in Nat /\ Height = Len(home) /\ Height = Len(stack)
      /\ stack \in Seq(Values) /\ home \in Seq(Vars)
      /\ Len(of) = Len(location) /\ Len(location) \in Nat
      /\ \A u \in 1 .. Len(location) : location[u] \in Nat
  BY Ranges, UpvaluesAssumption DEF VarInv, IndInv, TypeOK, Height
<1>3. /\ m \in Nat /\ m + 1 = Frame.slots /\ m \in 0 .. Height
      /\ Height > Frame.slots /\ Base \in Nat /\ Base >= 1
  <2>1. Frame.slots \in 1 .. MaxStack /\ Frame.slots < Height
    BY <1>1, Running DEF Return, Ready
  <2> QED
    BY <1>1, <1>2, <2>1, BaseRange, UpvaluesAssumption
<1>4. /\ UNCHANGED <<closures, pending, of>> /\ frames # <<>> /\ pending = 0
      /\ Len(frames) \in Nat \ {0}
      /\ frames' = SubSeq(frames, 1, Len(frames) - 1)
      /\ frames \in Seq([slots : 1 .. MaxStack, closure : 0 .. Len(closures)])
  BY <1>1, Running DEF Return, Ready, IndInv, TypeOK
<1>5. ClosedAbove(m)
  <2> HIDE DEF m
  <2>1. CloseUpvalues(m + 1)
    BY <1>3 DEF Return
  <2> QED
    BY <1>1, <1>3, <2>1, CloseAbove
<1>6. Made' = Made
  BY <1>4, MadeKept
<1>7. AllHeld'
  BY <1>4, <1>5, HeldKept DEF VarInv, ClosedAbove
<1>8. stranded = {} => stranded' = {}
  BY <1>5 DEF ClosedAbove
<1>9. CASE Len(frames) = 1
  <2> DEFINE n == Height - 2
  <2>1. /\ stack' = SubSeq(stack, 1, n) /\ home' = SubSeq(home, 1, n)
        /\ n \in 0 .. Height /\ m \in 0 .. n
    BY <1>2, <1>3, <1>9 DEF Return
  <2>2. \A u \in 1 .. Len(location') : location'[u] = 0
    <3>1. Base = m + 1
      BY <1>3, <1>4, <1>9 DEF Base, Frame
    <3>2. \A u \in 1 .. Len(location) : location[u] # 0 => location[u] >= Base
      BY DEF VarInv, Owned
    <3>3. \A u \in 1 .. Len(location) : location[u] = 0 \/ location[u] > m
      BY <1>2, <1>3, <3>1, <3>2
    <3> QED
      BY <1>5, <3>3 DEF ClosedAbove
  <2> HIDE DEF m, n
  <2>3. /\ Len(home') = n /\ \A i \in 1 .. n : home'[i] = home[i]
        /\ Height' = n /\ n \in Nat
    BY <1>2, <2>1, Cut DEF Height
  <2>4. Base' = n + 1
    <3>1. frames' = <<>>
      <4>1. Len(frames) - 1 \in 0 .. Len(frames)
        BY <1>4
      <4>2. /\ frames' \in Seq([slots : 1 .. MaxStack, closure : 0 .. Len(closures)])
            /\ Len(frames') = Len(frames) - 1
        BY ZenonT(60), <1>4, <4>1, Cut
      <4>3. Len(frames') = 0
        BY <1>9, <4>2
      <4> QED
        BY <4>2, <4>3, EmptySeq
    <3> QED
      BY <2>3, <3>1 DEF Base
  <2>5. Owned(home', location', of', Base', stranded')
    <3>1. \A i, j \in 1 .. Len(home') : home'[i] = home'[j] => i = j
      <4>1. \A i \in 1 .. n : i \in 1 .. Len(home)
        BY <1>2, <2>1
      <4> QED
        BY <2>3, <4>1 DEF VarInv, Owned
    <3>2. \A u, w \in 1 .. Len(location') : of'[u] = of'[w] => u = w
      BY <1>4, <1>5 DEF VarInv, Owned, ClosedAbove
    <3>3. \A i \in Base' .. Len(home') : FALSE
      BY <2>3, <2>4
    <3> QED
      BY <2>2, <3>1, <3>2, <3>3 DEF Owned
  <2>6. VarInv'
    BY <1>1, <1>7, <2>5 DEF VarInv, Owned
  <2>7. ASSUME stranded = {}
        PROVE  stranded' = {} /\ V!Step
    <3>1. V!KeepLasting(Value)
      BY <1>4, <1>5, <1>8, <2>1, <2>6, <2>7, DropStep
    <3>2. home' = SubSeq(home, 1, Len(home) - 2)
      BY <1>2, <2>1 DEF n
    <3>3. \A x : V!Return(x)
      BY <1>2, <1>3, <1>4, <1>6, <1>9, <3>1, <3>2
      DEF V!Return, V!Ready, V!Frame, Frame, Made, VariablesOf, Value, Known
    <3>4. \E x \in Vars : V!Return(x)
      BY <3>3, UpvaluesAssumption
    <3> QED
      BY <1>8, <2>7, <3>4 DEF V!Step
  <2> QED
    BY <2>6, <2>7, AsStep
<1>10. CASE Len(frames) # 1
  <2> DEFINE x == Fresh
             v == stack[Height]
             low == SubSeq(home, 1, m)
             few == SubSeq(stack, 1, m)
  <2>1. /\ stack' = Append(few, v) /\ home' = Append(low, x)
        /\ x \in Vars \ Known /\ v \in Values
    <3>1. x \in Vars \ Known
      BY <1>10, FreshIsNew DEF Return
    <3>2. v \in Values
      BY <1>2, <1>3, ElementOfSeq
    <3> QED
      BY <1>10, <3>1, <3>2 DEF Return
  <2>2. /\ low \in Seq(Vars) /\ Len(low) = m
        /\ few \in Seq(Values) /\ Len(few) = m
        /\ \A i \in 1 .. m : low[i] = home[i] /\ few[i] = stack[i]
    <3> HIDE DEF m
    <3>1. m \in 0 .. Len(home) /\ m \in 0 .. Len(stack)
      BY <1>2, <1>3
    <3>2. low \in Seq(Vars) /\ Len(low) = m /\ \A i \in 1 .. m : low[i] = home[i]
      BY <1>2, <3>1, Cut
    <3>3. few \in Seq(Values) /\ Len(few) = m /\ \A i \in 1 .. m : few[i] = stack[i]
      BY <1>2, <3>1, Cut
    <3> QED
      BY <3>2, <3>3
  <2>3. Owned(low, location', of, Base, stranded')
    <3> HIDE DEF m
    <3> QED
      BY <1>3, <1>5, OwnedDrop
  <2> HIDE DEF m, x, v, low, few
  <2>4. /\ Len(stack') = m + 1 /\ stack'[m + 1] = v
        /\ Len(home') = m + 1 /\ home'[m + 1] = x
        /\ \A i \in 1 .. m : stack'[i] = stack[i] /\ home'[i] = home[i]
    BY <2>1, <2>2, Appended
  <2>5. ElementsOf(low) \subseteq ElementsOf(home)
    <3>1. \A i \in 1 .. m : i \in 1 .. Len(home) /\ low[i] = home[i]
      BY <1>2, <1>3, <2>2
    <3> QED
      BY <2>2, <3>1 DEF ElementsOf
  <2>6. Base' = Base
    <3> DEFINE k == Len(frames)
    <3>0. k \in Nat \ {0} /\ k # 1
      BY <1>4, <1>10
    <3> HIDE DEF k
    <3>1. /\ k - 1 \in 1 .. k /\ k - 1 \in 0 .. k
          /\ 1 \in 1 .. k - 1 /\ k - 1 # 0
      BY <3>0
    <3>2. Len(frames') = k - 1 /\ \A i \in 1 .. k - 1 : frames'[i] = frames[i]
      <4> DEFINE T == [slots : 1 .. MaxStack, closure : 0 .. Len(closures)]
                 j == k - 1
      <4>1. frames \in Seq(T) /\ frames' = SubSeq(frames, 1, j) /\ j \in 0 .. Len(frames)
        BY <1>4, <3>1 DEF k
      <4> HIDE DEF T, j
      <4>2. Len(frames') = j /\ \A i \in 1 .. j : frames'[i] = frames[i]
        BY <4>1, Cut
      <4> QED
        BY <4>2 DEF j
    <3>3. frames'[1] = frames[1] /\ Len(frames') # 0
      BY <3>1, <3>2
    <3>4. frames' # <<>>
      BY <3>3
    <3> QED
      BY <1>4, <3>3, <3>4 DEF Base
  <2>7. Owned(home', location', of', Base', stranded')
    <3> DEFINE base == Base
    <3>1. /\ Len(of) = Len(location')
          /\ \A u \in 1 .. Len(location') : location'[u] \in Nat
      BY <1>2, <1>5 DEF ClosedAbove
    <3>2. x \in Vars /\ x \notin ElementsOf(low) \cup ElementsOf(of)
      BY <2>1, <2>5 DEF Known
    <3>3. base \in Nat /\ base >= 1 /\ Owned(low, location', of, base, stranded')
      BY <1>3, <2>3
    <3> HIDE DEF base
    <3>4. Owned(Append(low, x), location', of, base, stranded')
      BY <2>2, <3>1, <3>2, <3>3, OwnedMore
    <3> QED
      BY <1>4, <2>1, <2>6, <3>4 DEF base
  <2>8. VarInv'
    BY <1>1, <1>7, <2>7 DEF VarInv, Owned
  <2>9. ASSUME stranded = {}
        PROVE  stranded' = {} /\ V!Step
    <3> DEFINE f == [y \in Known \cup {x} |-> IF y = x THEN v ELSE Value[y]]
    <3>1. f[x] = v /\ \A y \in Known : f[y] = Value[y]
      BY <2>1
    <3> HIDE DEF f
    <3>2. Reads /\ stranded' = {}
      BY <1>8, <2>9, ReadsNow
    <3>3. ASSUME NEW i \in 1 .. Len(stack')
          PROVE  HasCell(home[i])' \/ f[home'[i]] = stack'[i]
      <4>1. CASE i \in 1 .. m
        <5>1. home[i] \in Known /\ (HasCell(home[i]) \/ Value[home[i]] = stack[i])
          BY <1>2, <1>3, <3>2, <4>1 DEF Reads
        <5>2. HasCell(home[i]) => HasCell(home[i])'
          <6> SUFFICES ASSUME HasCell(home[i])
                       PROVE  HasCell(home[i])'
            OBVIOUS
          <6>1. DOMAIN of = 1 .. Len(location)
            BY LenProperties DEF VarInv, IndInv, TypeOK
          <6>2. PICK u \in 1 .. Len(location) : of[u] = home[i] /\ location[u] = 0
            BY <6>1 DEF HasCell
          <6>3. location'[u] = 0
            BY <1>3, <1>5, <6>2 DEF ClosedAbove
          <6> QED
            BY <1>4, <2>4, <4>1, <6>1, <6>2, <6>3 DEF HasCell
        <5> QED
          BY <2>4, <3>1, <4>1, <5>1, <5>2
      <4>2. CASE i = m + 1
        BY <2>4, <3>1, <4>2
      <4> QED
        BY <1>3, <2>4, <4>1, <4>2
    <3>4. ASSUME NEW u \in 1 .. Len(location')
          PROVE  Deref(u)' = {f[of'[u]]}
      <4>1. u \in 1 .. Len(location)
        BY <1>5 DEF ClosedAbove
      <4>2. of[u] \in Known /\ Deref(u) = {Value[of[u]]}
        BY <3>2, <4>1 DEF Reads
      <4>3. m \in Nat /\ m <= Height' /\ Height' \in Nat
        BY <1>3, <2>4 DEF Height
      <4>4. Deref(u)' = Deref(u)
        BY <1>5, <2>4, <2>9, <4>1, <4>3, DerefKept
      <4> QED
        BY <1>4, <3>1, <4>2, <4>4
    <3>5. Value' = [y \in Known' |-> f[y]]
      BY <2>8, <3>2, <3>3, <3>4, ValuesNext
    <3>6. V!Lasting = Known /\ V!Lasting' = Known'
      BY <2>8, LastingNow, LastingNext
    <3>7. V!KeepLasting(V!With(x, v))
      <4> DEFINE W == V!With(x, v)
      <4>1. W = f
        BY <3>6 DEF V!With, Value, Known, f
      <4>2. Value' = [y \in Known' |-> W[y]]
        BY <3>5, <4>1
      <4> HIDE DEF W
      <4>3. V!KeepLasting(W)
        BY <3>6, <4>2 DEF V!KeepLasting, Value, Known
      <4> QED
        BY <4>3 DEF W
    <3>8. Value[home[Len(home)]] = v
      <4>1. Height \in Base .. Height
        BY <1>1, <1>2, <1>4, BaseRange
      <4>2. Value[home[Height]] = stack[Height]
        BY <2>9, <4>1, InUse
      <4> QED
        BY <1>2, <4>2 DEF v
    <3>9. home' = Append(SubSeq(home, 1, Frame.slots - 1), x)
      BY <2>1 DEF low, m
    <3>10. V!Return(x)
      BY <1>2, <1>3, <1>4, <1>6, <1>10, <2>1, <3>6, <3>7, <3>8, <3>9
      DEF V!Return, V!Ready, V!Frame, Frame, Made, VariablesOf, Value, Known
    <3> QED
      BY <2>1, <3>2, <3>10 DEF V!Step
  <2> QED
    BY <2>8, <2>9, AsStep
<1> QED
  BY <1>9, <1>10

-----------------------------------------------------------------------------
(* The theorem *)

LEMMA NextStep ==
  ASSUME VarInv, [Next]_vars
  PROVE  VarInv' /\ [V!Next]_(V!absVars)
<1>1. ASSUME NEW v \in Values, Enter(v) \/ Declare(v)
      PROVE  VarInv' /\ V!Next
  BY <1>1, EnterStep, DeclareStep
<1>2. ASSUME NEW slot \in 1 .. MaxStack, GetLocal(slot) \/ SetLocal(slot) \/ CaptureLocal(slot)
      PROVE  VarInv' /\ V!Next
  BY <1>2, GetLocalStep, SetLocalStep, CaptureLocalStep
<1>3. ASSUME NEW k \in 1 .. MaxUpvalues, GetUpvalue(k) \/ SetUpvalue(k) \/ PassOn(k)
      PROVE  VarInv' /\ V!Next
  BY <1>3, GetUpvalueStep, SetUpvalueStep, PassOnStep
<1>4. ASSUME Pop \/ CloseUpvalue \/ Return
      PROVE  VarInv' /\ V!Next
  BY <1>4, PopStep, CloseUpvalueStep, ReturnStep
<1>5. ASSUME NEW v \in Values, NEW n \in 0 .. MaxUpvalues, Closure(v, n)
      PROVE  VarInv' /\ V!Next
  BY <1>5, ClosureStep
<1>6. ASSUME NEW c \in 1 .. MaxClosures, NEW n \in 0 .. MaxStack, c <= Len(closures), Call(c, n)
      PROVE  VarInv' /\ V!Next
  BY <1>6, CallStep
<1>7. ASSUME UNCHANGED vars
      PROVE  VarInv' /\ UNCHANGED V!absVars
  <2>1. IndInv'
    BY <1>7, StepInv DEF VarInv
  <2>2. /\ UNCHANGED <<stack, frames, closures, location, closed, pending, home, of, stranded>>
        /\ Base' = Base
    BY <1>7 DEF vars, Base, Height
  <2>3. VarInv'
    BY <2>1, <2>2, OwnedKept
  <2>4. Made' = Made /\ Value' = Value
    <3>1. Known' = Known
      BY <2>2 DEF Known, ElementsOf
    <3>2. \A x : ValueOf(x)' = ValueOf(x)
      BY <2>2 DEF ValueOf, HasCell, ElementsOf, Height
    <3> QED
      BY <2>2, <3>1, <3>2, MadeKept DEF Value
  <2> QED
    BY <2>2, <2>3, <2>4 DEF V!absVars, Made, VariablesOf, Value, Known
<1>8. CASE Next
  BY <1>1, <1>2, <1>3, <1>4, <1>5, <1>6, <1>8 DEF Next
<1> QED
  BY <1>7, <1>8

\* Upvalues of src/src/vm.c implement shared variables: every read through a slot or
\* through any closure yields the last value assigned through any of them, also
\* after the function that declared the variable has returned, until an
\* OP_POP gives away the slot of a variable that some closure refers to; and again
\* once the upvalues that this strands are closed.
THEOREM UpvaluesRefineVariables == Spec => RefinesVariables
<1>1. Init => VarInv /\ V!Init
  BY InitVar
<1>2. VarInv /\ [Next]_vars => VarInv' /\ [V!Next]_(V!absVars)
  BY NextStep
<1> QED
  BY <1>1, <1>2, PTL DEF Spec, RefinesVariables, V!Spec
=============================================================================
