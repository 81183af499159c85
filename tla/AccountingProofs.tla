--------------------------- MODULE AccountingProofs ---------------------------
(***************************************************************************)
(* The counters of Accounting, for every set of objects: the byte counter  *)
(* is off by exactly what drift says, a limit holds up to that error, and  *)
(* the counter passes next_gc between collections only once it underflows. *)
(***************************************************************************)
EXTENDS Accounting, FiniteSetTheorems, TLAPS

-----------------------------------------------------------------------------
(* Counting modulo Modulus *)

\* A multiple of a positive number is 0 or at least that number away from 0.
LEMMA MultiplesApart ==
  ASSUME NEW m \in Nat \ {0}, NEW d \in Int, d # 0
  PROVE  m * d >= m \/ m * d <= -m
<1>1. CASE d >= 1
  <2>1. m * d = m + m * (d - 1)  BY <1>1
  <2>2. m * (d - 1) >= 0  BY <1>1
  <2> QED  BY <2>1, <2>2
<1>2. CASE d <= -1
  <2>1. m * d = -m + m * (d + 1)  BY <1>2
  <2>2. m * (d + 1) <= 0  BY <1>2
  <2> QED  BY <2>1, <2>2
<1> QED  BY <1>1, <1>2

\* A number has one remainder.
LEMMA OneRemainder ==
  ASSUME NEW m \in Nat \ {0}, NEW p \in Int, NEW q \in Int,
         NEW r \in 0 .. m - 1, NEW s \in 0 .. m - 1, m * p + r = m * q + s
  PROVE  r = s
<1>1. m * (p - q) = s - r  OBVIOUS
<1>2. p - q \in Int  OBVIOUS
<1>3. CASE p - q = 0  BY <1>1, <1>3
<1>4. CASE p - q # 0  BY <1>1, <1>2, <1>4, MultiplesApart
<1> QED  BY <1>3, <1>4

\* What the counter shows is the number, less a multiple of Modulus.
LEMMA WrapRemainder ==
  ASSUME NEW x \in Int
  PROVE  /\ Wrap(x) \in 0 .. Modulus - 1
         /\ \E q \in Int : x = Modulus * q + Wrap(x)
<1>1. Wrap(x) \in 0 .. Modulus - 1  BY AccountingAssumption DEF Wrap
<1>2. x \div Modulus \in Int /\ x = Modulus * (x \div Modulus) + Wrap(x)
  BY AccountingAssumption DEF Wrap
<1> QED  BY <1>1, <1>2

\* Below Modulus the counter shows the number itself.
LEMMA WrapSmall ==
  ASSUME NEW x \in 0 .. Modulus - 1
  PROVE  Wrap(x) = x
<1> DEFINE w == Wrap(x)
<1>1. x \in Int  BY AccountingAssumption
<1>2. w \in 0 .. Modulus - 1 /\ \E q \in Int : x = Modulus * q + w  BY <1>1, WrapRemainder
<1> HIDE DEF w
<1>3. PICK q \in Int : x = Modulus * q + w  BY <1>2
<1>4. Modulus * 0 + x = Modulus * q + w  BY <1>1, <1>3, AccountingAssumption
<1>5. 0 \in Int  OBVIOUS
<1>6. x = w  BY <1>2, <1>4, <1>5, OneRemainder, AccountingAssumption
<1> QED  BY <1>6 DEF w

\* Wrapping the counter around at every step is as good as wrapping it once.
LEMMA WrapOnce ==
  ASSUME NEW x \in Int, NEW k \in Int
  PROVE  Wrap(Wrap(x) + k) = Wrap(x + k)
<1>1. Wrap(x) \in Int /\ Wrap(x) + k \in Int /\ x + k \in Int
  BY WrapRemainder, AccountingAssumption
<1>2. PICK q \in Int : x = Modulus * q + Wrap(x)  BY WrapRemainder
<1>3. PICK p \in Int : Wrap(x) + k = Modulus * p + Wrap(Wrap(x) + k)  BY <1>1, WrapRemainder
<1>4. PICK s \in Int : x + k = Modulus * s + Wrap(x + k)  BY <1>1, WrapRemainder
<1> DEFINE v == Wrap(x)
           w == Wrap(v + k)
           u == Wrap(x + k)
<1>5. w \in 0 .. Modulus - 1 /\ u \in 0 .. Modulus - 1  BY <1>1, WrapRemainder
<1>6. Modulus * (q + p) = Modulus * q + Modulus * p  BY AccountingAssumption
<1>7. Modulus * (q + p) + w = Modulus * s + u
  <2>1. x = Modulus * q + v /\ v + k = Modulus * p + w /\ x + k = Modulus * s + u
    BY <1>2, <1>3, <1>4
  <2>2. v \in Int /\ w \in Int /\ u \in Int /\ Modulus * q \in Int /\ Modulus * p \in Int
    BY <1>1, <1>5, AccountingAssumption
  <2> HIDE DEF v, w, u
  <2> QED  BY <2>1, <2>2, <1>6, AccountingAssumption
<1>8. q + p \in Int  OBVIOUS
<1> HIDE DEF w, u
<1>9. w = u  BY <1>5, <1>7, <1>8, OneRemainder, AccountingAssumption
<1> QED  BY <1>9 DEF v, w, u

-----------------------------------------------------------------------------
(* Counting bytes *)

\* The bytes of finitely many blocks are finitely many.
LEMMA CellsFinite ==
  ASSUME NEW S, IsFiniteSet(S), NEW n, \A o \in S : n[o] \in Nat
  PROVE  IsFiniteSet(Cells(n, S)) /\ Total(n, S) \in Nat
<1> DEFINE R == UNION {1 .. n[o] : o \in S}
<1>1. IsFiniteSet({1 .. n[o] : o \in S})
  <2> DEFINE f == [o \in S |-> 1 .. n[o]]
             T == {1 .. n[o] : o \in S}
  <2>1. f \in Surjection(S, T)  BY DEF Surjection
  <2> QED  BY <2>1, FS_Surjection
<1>2. \A T \in {1 .. n[o] : o \in S} : IsFiniteSet(T)  BY FS_Interval
<1>3. IsFiniteSet(R)  BY <1>1, <1>2, FS_UNION
<1>4. IsFiniteSet(S \X R)  BY <1>3, FS_Product
<1>5. Cells(n, S) \in SUBSET (S \X R)
  <2> SUFFICES ASSUME NEW c \in Cells(n, S) PROVE c \in S \X R  OBVIOUS
  <2>1. PICK o \in S : c \in {o} \X (1 .. n[o])  BY DEF Cells
  <2>2. 1 .. n[o] \in {1 .. n[p] : p \in S}  OBVIOUS
  <2>3. (1 .. n[o]) \subseteq R  BY <2>2
  <2> QED  BY <2>1, <2>3
<1>6. IsFiniteSet(Cells(n, S))  BY <1>4, <1>5, FS_Subset
<1> QED  BY <1>6, FS_CardinalityType DEF Total

\* The bytes of some of the blocks and of the others make up all of them.
LEMMA TotalSplit ==
  ASSUME NEW S, IsFiniteSet(S), NEW n, \A o \in S : n[o] \in Nat, NEW F \in SUBSET S
  PROVE  Total(n, S) = Total(n, F) + Total(n, S \ F)
<1> DEFINE A == Cells(n, F)
           B == Cells(n, S \ F)
<1>1. IsFiniteSet(F) /\ IsFiniteSet(S \ F)  BY FS_Subset
<1>2. IsFiniteSet(A) /\ IsFiniteSet(B)  BY <1>1, CellsFinite
<1>3. Cells(n, S) = A \cup B  BY DEF Cells
<1>4. A \cap B = {}  BY DEF Cells
<1>5. Cardinality(A \cap B) = 0  BY <1>4, FS_EmptySet
<1>6. Cardinality(A) \in Nat /\ Cardinality(B) \in Nat  BY <1>2, FS_CardinalityType
<1>7. Cardinality(A \cup B) = Cardinality(A) + Cardinality(B) - Cardinality(A \cap B)
  BY <1>2, FS_Union
<1>8. Cardinality(A \cup B) = Cardinality(A) + Cardinality(B)
  <2> HIDE DEF A, B
  <2> QED  BY <1>5, <1>6, <1>7
<1> QED  BY <1>3, <1>8 DEF Total

\* One block has as many bytes as it is long.
LEMMA TotalOne ==
  ASSUME NEW o, NEW n, n[o] \in Nat
  PROVE  Total(n, {o}) = n[o]
<1>1. Cells(n, {o}) = {o} \X (1 .. n[o])  BY DEF Cells
<1>2. IsFiniteSet({o}) /\ Cardinality({o}) = 1  BY FS_Singleton
<1>3. IsFiniteSet(1 .. n[o]) /\ Cardinality(1 .. n[o]) = n[o]  BY FS_Interval
<1>4. Cardinality({o} \X (1 .. n[o])) = Cardinality({o}) * Cardinality(1 .. n[o])
  BY <1>2, <1>3, FS_Product
<1> DEFINE k == Cardinality(1 .. n[o])
<1> HIDE DEF k
<1>5. k = n[o]  BY <1>3 DEF k
<1>6. Cardinality({o} \X (1 .. n[o])) = 1 * k  BY <1>2, <1>4 DEF k
<1> QED  BY <1>1, <1>5, <1>6 DEF Total

\* Only the lengths of the blocks counted matter.
LEMMA TotalAgree ==
  ASSUME NEW S, NEW n, NEW m, \A o \in S : n[o] = m[o]
  PROVE  Total(n, S) = Total(m, S)
<1>1. {{o} \X (1 .. n[o]) : o \in S} = {{o} \X (1 .. m[o]) : o \in S}  OBVIOUS
<1> QED  BY <1>1 DEF Total, Cells

\* No blocks have no bytes.
LEMMA TotalNone ==
  ASSUME NEW n
  PROVE  Total(n, {}) = 0
<1>1. Cells(n, {}) = {}  BY DEF Cells
<1> QED  BY <1>1, FS_EmptySet DEF Total

\* Fewer blocks have at most as many bytes.
LEMMA TotalMonotone ==
  ASSUME NEW S, IsFiniteSet(S), NEW n, \A o \in S : n[o] \in Nat, NEW F \in SUBSET S
  PROVE  Total(n, F) <= Total(n, S)
<1>1. IsFiniteSet(F) /\ IsFiniteSet(S \ F)  BY FS_Subset
<1>2. Total(n, F) \in Nat /\ Total(n, S \ F) \in Nat  BY <1>1, CellsFinite
<1> QED  BY <1>2, TotalSplit

\* Shorter blocks have at most as many bytes.
LEMMA TotalShorter ==
  ASSUME NEW S, IsFiniteSet(S), NEW n, NEW m, \A o \in S : m[o] \in Nat /\ n[o] \in 0 .. m[o]
  PROVE  Total(n, S) <= Total(m, S)
<1>1. IsFiniteSet(Cells(m, S))  BY CellsFinite
<1>2. Cells(n, S) \in SUBSET Cells(m, S)
  <2> SUFFICES ASSUME NEW c \in Cells(n, S) PROVE c \in Cells(m, S)  OBVIOUS
  <2>1. PICK o \in S : c \in {o} \X (1 .. n[o])  BY DEF Cells
  <2>2. (1 .. n[o]) \subseteq 1 .. m[o]  OBVIOUS
  <2>3. c \in {o} \X (1 .. m[o])  BY <2>1, <2>2
  <2> QED  BY <2>3 DEF Cells
<1> QED  BY <1>1, <1>2, FS_Subset DEF Total

\* Blocks of at most k bytes have at most k bytes for each of them.
LEMMA TotalBound ==
  ASSUME NEW S, IsFiniteSet(S), NEW k \in Nat, NEW n, \A o \in S : n[o] \in 0 .. k
  PROVE  Total(n, S) <= k * Cardinality(S)
<1>1. IsFiniteSet(1 .. k) /\ Cardinality(1 .. k) = k  BY FS_Interval
<1>2. IsFiniteSet(S \X (1 .. k)) /\ Cardinality(S \X (1 .. k)) = Cardinality(S) * Cardinality(1 .. k)
  BY <1>1, FS_Product
<1>3. Cells(n, S) \in SUBSET (S \X (1 .. k))
  <2> SUFFICES ASSUME NEW c \in Cells(n, S) PROVE c \in S \X (1 .. k)  OBVIOUS
  <2>1. PICK o \in S : c \in {o} \X (1 .. n[o])  BY DEF Cells
  <2>2. (1 .. n[o]) \subseteq 1 .. k  OBVIOUS
  <2> QED  BY <2>1, <2>2
<1>4. Cardinality(Cells(n, S)) <= Cardinality(S \X (1 .. k))  BY <1>2, <1>3, FS_Subset
<1>5. Cardinality(S) \in Nat  BY FS_CardinalityType
<1> DEFINE j == Cardinality(1 .. k)
           c == Cardinality(S)
<1>6. Cardinality(S \X (1 .. k)) = c * j  BY <1>2
<1>7. j = k  BY <1>1
<1> HIDE DEF j, c
<1>8. Cardinality(S \X (1 .. k)) = k * c  BY <1>5, <1>6, <1>7 DEF c
<1> QED  BY <1>4, <1>8 DEF Total, c

-----------------------------------------------------------------------------
(* What is allocated *)

\* A heap: the bytes of arrays of each allocated object.
IsHeap(b) ==
  /\ DOMAIN b \subseteq Objects
  /\ \A o \in DOMAIN b : b[o] \in 0 .. MaxBuffer

\* The bytes of the structs and the arrays of a heap.
Occupied(b) == Total(Size, DOMAIN b) + Total(b, DOMAIN b)

\* The parts of a heap's bytes are numbers, for any of its objects.
LEMMA HeapTotals ==
  ASSUME NEW b, IsHeap(b), NEW S \in SUBSET (DOMAIN b)
  PROVE  /\ IsFiniteSet(DOMAIN b) /\ IsFiniteSet(S)
         /\ \A o \in S : b[o] \in Nat /\ Size[o] \in Nat
         /\ Total(Size, S) \in Nat /\ Total(b, S) \in Nat
<1>1. IsFiniteSet(DOMAIN b)  BY FS_Subset, AccountingAssumption DEF IsHeap
<1>2. IsFiniteSet(S)  BY <1>1, FS_Subset
<1>3. \A o \in S : b[o] \in Nat /\ Size[o] \in Nat  BY AccountingAssumption DEF IsHeap
<1>4. Total(Size, S) \in Nat  BY <1>2, <1>3, CellsFinite
<1>5. Total(b, S) \in Nat  BY <1>2, <1>3, CellsFinite
<1> QED  BY <1>1, <1>2, <1>3, <1>4, <1>5

\* A heap never holds more than all the objects with full arrays.
LEMMA OccupiedBound ==
  ASSUME NEW b, IsHeap(b)
  PROVE  /\ Occupied(b) \in Nat
         /\ Total(Size, Objects) \in Nat /\ MaxBuffer * Cardinality(Objects) \in Nat
         /\ Occupied(b) <= Total(Size, Objects) + MaxBuffer * Cardinality(Objects)
<1> DEFINE D == DOMAIN b
           s == Total(Size, D)
           a == Total(b, D)
           t == Total(Size, Objects)
           d == Cardinality(D)
           c == Cardinality(Objects)
<1>1. D \in SUBSET Objects /\ IsFiniteSet(Objects) /\ MaxBuffer \in Nat
  BY AccountingAssumption DEF IsHeap
<1>2. IsFiniteSet(D) /\ s \in Nat /\ a \in Nat  BY HeapTotals
<1>3. \A o \in Objects : Size[o] \in Nat  BY AccountingAssumption
<1>4. t \in Nat  BY <1>1, <1>3, CellsFinite
<1>5. s <= t  BY <1>1, <1>3, TotalMonotone
<1>6. a <= MaxBuffer * d  BY <1>1, <1>2, TotalBound DEF IsHeap
<1>7. c \in Nat /\ d \in Nat /\ d <= c  BY <1>1, <1>2, FS_Subset, FS_CardinalityType
<1> HIDE DEF D, s, a, t, d, c
<1>8. MaxBuffer * (c - d) \in Nat /\ MaxBuffer * c = MaxBuffer * d + MaxBuffer * (c - d)
  BY <1>1, <1>7
<1>9. MaxBuffer * d \in Nat /\ MaxBuffer * c \in Nat  BY <1>1, <1>7
<1> QED  BY <1>2, <1>4, <1>5, <1>6, <1>8, <1>9 DEF Occupied, D, s, a, t, c

\* A new object occupies its struct and the array allocated ahead of it.
LEMMA OccupiedNew ==
  ASSUME NEW b, IsHeap(b), NEW o \in Objects \ DOMAIN b, NEW v \in 0 .. MaxBuffer,
         NEW c, c = With(b, o, v)
  PROVE  IsHeap(c) /\ DOMAIN c = DOMAIN b \cup {o} /\ Occupied(c) = Occupied(b) + Size[o] + v
<1> USE DEF With
<1>1. IsHeap(c)  BY AccountingAssumption DEF IsHeap
<1>2. DOMAIN c = DOMAIN b \cup {o} /\ {o} \in SUBSET (DOMAIN c) /\ DOMAIN c \in SUBSET (DOMAIN c)
  OBVIOUS
<1>3. (DOMAIN c) \ {o} = DOMAIN b  BY <1>2
<1>4. /\ IsFiniteSet(DOMAIN c)
      /\ \A p \in DOMAIN c : c[p] \in Nat /\ Size[p] \in Nat
  BY <1>1, <1>2, HeapTotals
<1>5. /\ Total(Size, DOMAIN c) = Total(Size, {o}) + Total(Size, (DOMAIN c) \ {o})
      /\ Total(c, DOMAIN c) = Total(c, {o}) + Total(c, (DOMAIN c) \ {o})
  <2> DEFINE E == DOMAIN c
  <2>1. {o} \in SUBSET E /\ IsFiniteSet(E) /\ \A p \in E : c[p] \in Nat /\ Size[p] \in Nat
    BY <1>2, <1>4
  <2> HIDE DEF E
  <2>2. Total(Size, E) = Total(Size, {o}) + Total(Size, E \ {o})  BY <2>1, TotalSplit
  <2>3. Total(c, E) = Total(c, {o}) + Total(c, E \ {o})  BY <2>1, TotalSplit
  <2> QED  BY <2>2, <2>3 DEF E
<1>6. /\ Total(Size, DOMAIN c) = Total(Size, {o}) + Total(Size, DOMAIN b)
      /\ Total(c, DOMAIN c) = Total(c, {o}) + Total(c, DOMAIN b)
  BY <1>3, <1>5, Zenon
<1>7. Total(Size, {o}) = Size[o]  BY <1>2, <1>4, TotalOne
<1>8. Total(c, {o}) = v /\ v \in Nat
  <2>1. c[o] = v /\ v \in Nat  BY <1>2, AccountingAssumption
  <2> QED  BY <2>1, TotalOne
<1>9. Total(c, DOMAIN b) = Total(b, DOMAIN b)
  <2>1. \A p \in DOMAIN b : c[p] = b[p]  OBVIOUS
  <2> QED  BY <2>1, TotalAgree
<1>10. Total(Size, DOMAIN b) \in Nat /\ Total(b, DOMAIN b) \in Nat  BY HeapTotals
<1>11. Size[o] \in Nat  BY <1>2, <1>4
<1> QED  BY <1>1, <1>6, <1>7, <1>8, <1>9, <1>10, <1>11 DEF Occupied

\* An array that grows or shrinks changes what is occupied by as much.
LEMMA OccupiedPut ==
  ASSUME NEW b, IsHeap(b), NEW o \in DOMAIN b, NEW v \in 0 .. MaxBuffer,
         NEW c, c = [b EXCEPT ![o] = v]
  PROVE  IsHeap(c) /\ Occupied(c) = Occupied(b) + (v - b[o])
<1> DEFINE D == DOMAIN b
<1>1. DOMAIN c = D /\ c[o] = v /\ \A p \in D \ {o} : c[p] = b[p]  OBVIOUS
<1>2. IsHeap(c)  BY <1>1 DEF IsHeap
<1>3. {o} \in SUBSET D /\ D \in SUBSET D /\ D \ {o} \in SUBSET D  OBVIOUS
<1>4. IsFiniteSet(D) /\ \A p \in D : b[p] \in Nat /\ Size[p] \in Nat  BY <1>3, HeapTotals
<1>5. \A p \in D : c[p] \in Nat  BY <1>1, <1>2, <1>4, AccountingAssumption DEF IsHeap
<1>6. Total(b, D) = Total(b, {o}) + Total(b, D \ {o})  BY <1>3, <1>4, TotalSplit
<1>7. Total(c, D) = Total(c, {o}) + Total(c, D \ {o})  BY <1>3, <1>4, <1>5, TotalSplit
<1>8. Total(c, D \ {o}) = Total(b, D \ {o})  BY <1>1, TotalAgree
<1>9. Total(b, {o}) = b[o]  BY <1>4, TotalOne
<1>10. Total(c, {o}) = v  BY <1>1, <1>5, TotalOne
<1>11. Total(b, D \ {o}) \in Nat /\ Total(Size, D) \in Nat  BY <1>3, HeapTotals
<1>12. b[o] \in Nat /\ v \in Nat  BY <1>4, AccountingAssumption
<1> QED  BY <1>1, <1>2, <1>6, <1>7, <1>8, <1>9, <1>10, <1>11, <1>12 DEF Occupied

\* The objects swept take their structs and their arrays with them.
LEMMA OccupiedSwept ==
  ASSUME NEW b, IsHeap(b), NEW F \in SUBSET (DOMAIN b),
         NEW c, c = [o \in DOMAIN b \ F |-> b[o]]
  PROVE  IsHeap(c) /\ Occupied(c) = Occupied(b) - Total(Size, F) - Total(b, F)
<1> DEFINE D == DOMAIN b
           E == D \ F
<1>1. DOMAIN c = E /\ \A p \in E : c[p] = b[p]  OBVIOUS
<1>2. IsHeap(c)  BY <1>1 DEF IsHeap
<1>3. E \in SUBSET D /\ D \in SUBSET D  OBVIOUS
<1>4. IsFiniteSet(D) /\ \A p \in D : b[p] \in Nat /\ Size[p] \in Nat  BY <1>3, HeapTotals
<1>5. Total(b, D) = Total(b, F) + Total(b, E)  BY <1>4, TotalSplit
<1>6. Total(Size, D) = Total(Size, F) + Total(Size, E)  BY <1>4, TotalSplit
<1>7. Total(c, E) = Total(b, E)  BY <1>1, TotalAgree
<1>8. /\ Total(Size, F) \in Nat /\ Total(b, F) \in Nat
      /\ Total(Size, E) \in Nat /\ Total(b, E) \in Nat
  BY <1>3, HeapTotals
<1> QED  BY <1>1, <1>2, <1>5, <1>6, <1>7, <1>8 DEF Occupied

-----------------------------------------------------------------------------
(* The inductive invariant *)

\* What bytes_allocated stands for: what is there and what is counted besides.
Counted == Real + drift

\* The error message is none or one the program asked for.
MessageAsked == message \in Amounts \cup {0}

\* Only between its allocation and that of its object is there an array ahead.
NothingAhead ==
  ahead = 0 \/ pc \in {"ahead", "exit"} \/ (pc = "collect" /\ back = "ahead")

\* The type invariant and the three properties hold together: each is inductive
\* given the others, as bytes speaks for Counted only through CounterDrift.
IndInv ==
  /\ TypeOK
  /\ MessageAsked
  /\ NothingAhead
  /\ CounterDrift
  /\ LimitUpToDrift
  /\ OverdueOnlyAfterUnderflow

\* What a heap, a message and a drift count for is a number that a size_t holds
\* twice.
LEMMA CountedSmall ==
  ASSUME NEW b, IsHeap(b), NEW a \in 0 .. MaxBuffer, NEW m \in Amounts \cup {0},
         NEW d \in -MaxSwept .. MaxLost
  PROVE  Occupied(b) + a + m + d \in Int /\ 2 * (Occupied(b) + a + m + d) < Modulus
<1> DEFINE w == Occupied(b)
           t == Total(Size, Objects)
           h == MaxBuffer * Cardinality(Objects)
<1>1. w \in Nat /\ t \in Nat /\ h \in Nat /\ w <= t + h  BY OccupiedBound
<1>2. m \in Nat /\ a \in Nat /\ a <= MaxBuffer /\ 2 * (t + h + MaxBuffer + m + MaxLost) < Modulus
  BY CounterAssumption, AccountingAssumption
<1>3. d \in Int /\ d <= MaxLost /\ MaxLost \in Nat /\ MaxBuffer \in Nat /\ Modulus \in Nat
  BY AccountingAssumption
<1> HIDE DEF w, t, h
<1>4. w + a + m + d \in Int /\ 2 * (w + a + m + d) < Modulus  BY <1>1, <1>2, <1>3
<1> QED  BY <1>4 DEF w

\* TypeOK and MessageAsked bound Counted, before and after a step.
LEMMA CountedBound ==
  TypeOK /\ MessageAsked => Counted \in Int /\ 2 * Counted < Modulus
<1>1. Counted = Occupied(buffer) + ahead + message + drift  BY DEF Counted, Real, Occupied
<1> QED  BY <1>1, CountedSmall DEF TypeOK, MessageAsked, IsHeap

\* The same after a step.
LEMMA CountedBoundNext ==
  TypeOK' /\ MessageAsked' => Counted' \in Int /\ 2 * Counted' < Modulus
<1>1. Counted' = Occupied(buffer') + ahead' + message' + drift'  BY DEF Counted, Real, Occupied
<1> QED  BY <1>1, CountedSmall DEF TypeOK, MessageAsked, IsHeap

\* The invariant holds initially: nothing is allocated and nothing counted.
LEMMA InitInv == Init => IndInv
<1> SUFFICES ASSUME Init PROVE IndInv  OBVIOUS
<1> USE AccountingAssumption DEF Init
<1>1. DOMAIN buffer = {}  OBVIOUS
<1>2. TypeOK  BY <1>1 DEF TypeOK
<1>3. MessageAsked  BY DEF MessageAsked
<1>4. Real = 0  BY <1>1, TotalNone DEF Real
<1>5. CounterDrift
  <2>1. Wrap(0) = 0  BY WrapSmall
  <2> QED  BY <1>4, <2>1 DEF CounterDrift
<1>6. LimitUpToDrift  BY <1>4 DEF LimitUpToDrift
<1>7. OverdueOnlyAfterUnderflow  BY DEF OverdueOnlyAfterUnderflow
<1>8. NothingAhead  BY DEF NothingAhead
<1> QED  BY <1>2, <1>3, <1>5, <1>6, <1>7, <1>8 DEF IndInv

-----------------------------------------------------------------------------
(* Every step keeps the types *)

\* What Charge leaves behind.
LEMMA ChargeType ==
  ASSUME TypeOK, NEW n \in Nat, NEW next \in {"idle", "ahead", "recheck"}, Charge(n, next)
  PROVE  /\ bytes' \in 0 .. Modulus - 1
         /\ max_memory' \in Limits
         /\ next_gc' \in Threshold .. Modulus - 1
         /\ pc' \in {"idle", "ahead", "collect", "recheck", "exit"}
         /\ back' \in {"idle", "ahead", "recheck"}
<1>1. bytes + n \in Int  BY AccountingAssumption DEF TypeOK
<1>2. bytes' = Wrap(bytes + n)  BY DEF Charge
<1>3. bytes' \in 0 .. Modulus - 1  BY <1>1, <1>2, WrapRemainder
<1>4. max_memory' \in Limits /\ next_gc' \in Threshold .. Modulus - 1  BY DEF Charge, TypeOK
<1>5. pc' \in {"idle", "ahead", "collect", "recheck", "exit"}  BY DEF Charge
<1>6. back' \in {"idle", "ahead", "recheck"}  BY DEF Charge, TypeOK
<1> QED  BY <1>3, <1>4, <1>5, <1>6

\* What a sweep gives back is a number of bytes: no string states a length
\* beyond its characters.
LEMMA SweptType ==
  ASSUME TypeOK, NEW F \in SUBSET (DOMAIN buffer)
  PROVE  /\ Total(Size, F) \in Nat /\ Total(buffer, F) \in Nat /\ Total(escapes, F) \in Nat
         /\ Header * Cardinality(F) \in Nat
         /\ Swept(F) \in Nat
<1> DEFINE s == Total(Size, F)
           a == Total(buffer, F)
           e == Total(escapes, F)
           h == Header * Cardinality(F)
<1>1. IsHeap(buffer)  BY DEF TypeOK, IsHeap
<1>2. s \in Nat /\ a \in Nat /\ IsFiniteSet(F)  BY <1>1, HeapTotals
<1>3. h \in Nat
  <2>1. Cardinality(F) \in Nat  BY <1>2, FS_CardinalityType
  <2> QED  BY <2>1, AccountingAssumption
<1>4. \A o \in F : buffer[o] \in Nat /\ escapes[o] \in 0 .. buffer[o] /\ escapes[o] \in Nat
  BY AccountingAssumption DEF TypeOK
<1>5. e \in Nat  BY <1>2, <1>4, CellsFinite
<1>6. e <= a  BY <1>2, <1>4, TotalShorter
<1>7. Swept(F) = (a - e) + h + s  BY DEF Swept
<1> HIDE DEF s, a, e, h
<1>8. s \in Nat /\ a \in Nat /\ e \in Nat /\ h \in Nat /\ Swept(F) \in Nat
  BY <1>2, <1>3, <1>5, <1>6, <1>7
<1> QED  BY <1>8 DEF s, a, e, h

\* TypeOK and MessageAsked are inductive.
LEMMA TypeStep ==
  ASSUME TypeOK, MessageAsked, [Next]_vars
  PROVE  TypeOK' /\ MessageAsked'
<1> USE AccountingAssumption
<1>1. ASSUME NEW n, Exit(n) PROVE TypeOK' /\ MessageAsked'
  BY <1>1 DEF Exit, TypeOK, MessageAsked, heapVars
<1>2. ASSUME NEW n \in Amounts, NEW k \in 0 .. MaxBuffer, AllocateAhead(n, k)
      PROVE  TypeOK' /\ MessageAsked'
  <2>1. CASE Exit(n)  BY <1>1, <2>1
  <2>2. CASE ~Exit(n)
    <3>1. /\ Charge(n, "ahead") /\ n <= MaxBuffer /\ 2 * k <= n - 1
          /\ ahead' = n /\ escaped' = k /\ UNCHANGED <<buffer, escapes, message, busy, drift>>
      BY <1>2, <2>2 DEF AllocateAhead
    <3>2. n \in Nat /\ k \in Nat /\ k <= n  BY <3>1
    <3>3. ahead' \in 0 .. MaxBuffer /\ escaped' \in 0 .. ahead'  BY <3>1, <3>2
    <3> QED  BY <3>1, <3>2, <3>3, ChargeType DEF TypeOK, MessageAsked
  <2> QED  BY <2>1, <2>2
<1>3. ASSUME FreeAhead PROVE TypeOK' /\ MessageAsked'
  <2>1. /\ drift + escaped <= MaxLost /\ bytes' = Wrap(bytes - (ahead - escaped))
        /\ ahead' = 0 /\ escaped' = 0 /\ drift' = drift + escaped /\ pc' = "idle"
        /\ UNCHANGED <<max_memory, next_gc, buffer, escapes, message, back, busy>>
    BY <1>3 DEF FreeAhead
  <2>2. bytes - (ahead - escaped) \in Int  BY DEF TypeOK
  <2>3. bytes' \in 0 .. Modulus - 1  BY <2>1, <2>2, WrapRemainder
  <2>4. drift' \in -MaxSwept .. MaxLost /\ ahead' \in 0 .. MaxBuffer /\ escaped' \in 0 .. ahead'
    BY <2>1 DEF TypeOK
  <2> QED  BY <2>1, <2>3, <2>4 DEF TypeOK, MessageAsked
<1>4. ASSUME NEW o \in Objects, AllocateObject(o) PROVE TypeOK' /\ MessageAsked'
  <2>1. CASE Exit(Size[o])  BY <1>1, <2>1
  <2>2. CASE ~Exit(Size[o])
    <3>1. /\ Charge(Size[o], "recheck") /\ o \notin DOMAIN buffer
          /\ buffer' = With(buffer, o, ahead) /\ escapes' = With(escapes, o, escaped)
          /\ ahead' = 0 /\ escaped' = 0 /\ busy' = o /\ UNCHANGED <<message, drift>>
      BY <1>4, <2>2 DEF AllocateObject
    <3>2. ahead \in 0 .. MaxBuffer /\ escaped \in 0 .. ahead  BY DEF TypeOK
    <3>3. IsHeap(buffer') /\ DOMAIN buffer' = DOMAIN buffer \cup {o}
      <4>1. IsHeap(buffer)  BY DEF TypeOK, IsHeap
      <4> QED  BY <3>1, <3>2, <4>1, OccupiedNew
    <3>4. DOMAIN escapes' = DOMAIN buffer'  BY <3>1, <3>3 DEF TypeOK, With
    <3>5. \A p \in DOMAIN buffer' : escapes'[p] \in 0 .. buffer'[p]
      BY <3>1, <3>2, <3>3 DEF TypeOK, With
    <3>6. busy' \in DOMAIN buffer'  BY <3>1, <3>3
    <3>7. Size[o] \in Nat  OBVIOUS
    <3>8. /\ drift' \in -MaxSwept .. MaxLost /\ message' \in Nat /\ MessageAsked'
          /\ ahead' \in 0 .. MaxBuffer /\ escaped' \in 0 .. ahead'
      BY <3>1 DEF TypeOK, MessageAsked
    <3> QED  BY <3>1, <3>3, <3>4, <3>5, <3>6, <3>7, <3>8, ChargeType DEF TypeOK, IsHeap
  <2> QED  BY <2>1, <2>2
<1>5. ASSUME NEW o \in Objects, NEW n \in Amounts, GrowArray(o, n)
      PROVE  TypeOK' /\ MessageAsked'
  <2>1. CASE Exit(n)  BY <1>1, <2>1
  <2>2. CASE ~Exit(n)
    <3>1. /\ Charge(n, "idle") /\ o \in DOMAIN buffer /\ buffer[o] + n <= MaxBuffer
          /\ escapes[o] = 0
          /\ buffer' = [buffer EXCEPT ![o] = buffer[o] + n]
          /\ busy' \in {Nobody, o} /\ UNCHANGED <<escapes, ahead, escaped, message, drift>>
      BY <1>5, <2>2 DEF GrowArray
    <3>2. IsHeap(buffer) /\ n \in Nat  BY DEF TypeOK, IsHeap
    <3>3. buffer[o] + n \in 0 .. MaxBuffer  BY <3>1, <3>2 DEF IsHeap
    <3>4. IsHeap(buffer')  BY <3>1, <3>2, <3>3, OccupiedPut
    <3>5. busy' \in DOMAIN buffer' \cup {Nobody}  BY <3>1
    <3>6. \A p \in DOMAIN buffer' : escapes'[p] \in 0 .. buffer'[p]
      BY <3>1, <3>2, <3>3 DEF TypeOK
    <3>7. /\ drift' \in -MaxSwept .. MaxLost /\ message' \in Nat /\ MessageAsked'
          /\ DOMAIN escapes' = DOMAIN buffer'
          /\ ahead' \in 0 .. MaxBuffer /\ escaped' \in 0 .. ahead'
      BY <3>1 DEF TypeOK, MessageAsked
    <3> QED  BY <3>1, <3>2, <3>4, <3>5, <3>6, <3>7, ChargeType DEF TypeOK, IsHeap
  <2> QED  BY <2>1, <2>2
<1>6. ASSUME NEW o \in Objects, NEW n \in Amounts, FreeArray(o, n)
      PROVE  TypeOK' /\ MessageAsked'
  <2>1. /\ o \in DOMAIN buffer /\ n <= buffer[o] /\ bytes' = Wrap(bytes - n)
        /\ escapes[o] = 0
        /\ buffer' = [buffer EXCEPT ![o] = buffer[o] - n]
        /\ UNCHANGED <<max_memory, next_gc, escapes, ahead, escaped, message, pc, back, busy, drift>>
    BY <1>6 DEF FreeArray
  <2>2. IsHeap(buffer) /\ n \in Nat  BY DEF TypeOK, IsHeap
  <2>3. buffer[o] - n \in 0 .. MaxBuffer  BY <2>1, <2>2 DEF IsHeap
  <2>4. IsHeap(buffer')  BY <2>1, <2>2, <2>3, OccupiedPut
  <2>5. DOMAIN buffer' = DOMAIN buffer  BY <2>1
  <2>6. bytes - n \in Int  BY <2>2 DEF TypeOK
  <2>7. bytes' \in 0 .. Modulus - 1  BY <2>1, <2>6, WrapRemainder
  <2>8. \A p \in DOMAIN buffer' : escapes'[p] \in 0 .. buffer'[p]
    BY <2>1, <2>2, <2>3 DEF TypeOK
  <2> QED  BY <2>1, <2>4, <2>5, <2>7, <2>8 DEF TypeOK, IsHeap, MessageAsked
<1>7. ASSUME NEW n \in Amounts, RuntimeError(n) PROVE TypeOK' /\ MessageAsked'
  <2>1. CASE Exit(n)  BY <1>1, <2>1
  <2>2. CASE ~Exit(n)
    <3>1. /\ Charge(n, "idle") /\ drift + message <= MaxLost
          /\ message' = n /\ drift' = drift + message /\ UNCHANGED <<heapVars, busy>>
      BY <1>7, <2>2 DEF RuntimeError
    <3>2. drift' \in -MaxSwept .. MaxLost  BY <3>1 DEF TypeOK
    <3>3. message' \in Nat /\ MessageAsked'  BY <3>1 DEF MessageAsked
    <3> QED  BY <3>1, <3>2, <3>3, ChargeType DEF TypeOK, heapVars
  <2> QED  BY <2>1, <2>2
<1>8. ASSUME Recheck PROVE TypeOK' /\ MessageAsked'
  BY <1>8 DEF Recheck, TypeOK, MessageAsked, heapVars
<1>9. ASSUME NEW F \in SUBSET Objects, Collect(F) PROVE TypeOK' /\ MessageAsked'
  <2>1. /\ F \subseteq DOMAIN buffer \ {busy} /\ bytes' = Wrap(bytes - Swept(F))
        /\ buffer' = [o \in DOMAIN buffer \ F |-> buffer[o]]
        /\ escapes' = [o \in DOMAIN buffer \ F |-> escapes[o]]
        /\ next_gc' = Larger(Wrap(2 * bytes'), Threshold)
        /\ drift' \in -MaxSwept .. MaxLost
        /\ pc' = back /\ busy' \in {Nobody, busy}
        /\ UNCHANGED <<max_memory, ahead, escaped, message, back>>
    BY <1>9 DEF Collect
  <2>2. IsHeap(buffer)  BY DEF TypeOK, IsHeap
  <2>3. F \in SUBSET (DOMAIN buffer)  BY <2>1
  <2>4. Swept(F) \in Nat  BY <2>3, SweptType
  <2>5. bytes - Swept(F) \in Int  BY <2>4 DEF TypeOK
  <2>6. bytes' \in 0 .. Modulus - 1  BY <2>1, <2>5, WrapRemainder
  <2>7. Wrap(2 * bytes') \in 0 .. Modulus - 1
    <3>1. 2 * bytes' \in Int  BY <2>6
    <3> QED  BY <3>1, WrapRemainder
  <2>8. next_gc' \in Threshold .. Modulus - 1  BY <2>1, <2>7 DEF Larger
  <2>9. IsHeap(buffer')  BY <2>1, <2>2, <2>3, OccupiedSwept
  <2>10. /\ DOMAIN escapes' = DOMAIN buffer'
         /\ \A o \in DOMAIN buffer' : escapes'[o] \in 0 .. buffer'[o]
    BY <2>1 DEF TypeOK
  <2>11. busy' \in DOMAIN buffer' \cup {Nobody}  BY <2>1 DEF TypeOK
  <2> QED  BY <2>1, <2>6, <2>8, <2>9, <2>10, <2>11 DEF TypeOK, IsHeap, MessageAsked
<1>10. CASE UNCHANGED vars  BY <1>10 DEF vars, heapVars, TypeOK, MessageAsked
<1>11. CASE Next
  BY <1>2, <1>3, <1>4, <1>5, <1>6, <1>7, <1>8, <1>9, <1>11 DEF Next
<1> QED  BY <1>10, <1>11

\* NothingAhead is inductive: the array is freed or handed to its object.
LEMMA AheadStep ==
  ASSUME NothingAhead, [Next]_vars
  PROVE  NothingAhead'
<1> USE DEF NothingAhead
<1>1. ASSUME NEW n, Exit(n) PROVE NothingAhead'  BY <1>1 DEF Exit, heapVars
<1>2. ASSUME NEW n \in Amounts, NEW k \in 0 .. MaxBuffer, AllocateAhead(n, k)
      PROVE  NothingAhead'
  BY <1>1, <1>2 DEF AllocateAhead, Charge
<1>3. ASSUME FreeAhead PROVE NothingAhead'  BY <1>3 DEF FreeAhead
<1>4. ASSUME NEW o \in Objects, AllocateObject(o) PROVE NothingAhead'
  BY <1>1, <1>4 DEF AllocateObject
<1>5. ASSUME NEW o \in Objects, NEW n \in Amounts, GrowArray(o, n) PROVE NothingAhead'
  BY <1>1, <1>5 DEF GrowArray
<1>6. ASSUME NEW o \in Objects, NEW n \in Amounts, FreeArray(o, n) PROVE NothingAhead'
  BY <1>6 DEF FreeArray
<1>7. ASSUME NEW n \in Amounts, RuntimeError(n) PROVE NothingAhead'
  BY <1>1, <1>7 DEF RuntimeError, heapVars
<1>8. ASSUME Recheck PROVE NothingAhead'  BY <1>8 DEF Recheck, heapVars
<1>9. ASSUME NEW F \in SUBSET Objects, Collect(F) PROVE NothingAhead'
  BY <1>9 DEF Collect
<1>10. CASE UNCHANGED vars  BY <1>10 DEF vars, heapVars
<1>11. CASE Next
  BY <1>2, <1>3, <1>4, <1>5, <1>6, <1>7, <1>8, <1>9, <1>11 DEF Next
<1> QED  BY <1>10, <1>11

-----------------------------------------------------------------------------
(* Every step counts what it does *)

\* The counters stand still, and nothing starts to run.
Still ==
  /\ Counted' = Counted
  /\ UNCHANGED <<bytes, max_memory, next_gc>>
  /\ pc' \in {"idle", "ahead", "recheck"} => pc \in {"idle", "ahead", "recheck"}

\* gc_reallocate charges n bytes for n bytes.
Charged(n) ==
  /\ \E next \in {"idle", "ahead", "recheck"} : Charge(n, next)
  /\ Counted' = Counted + n

\* gc_reallocate refunds n bytes, and drift accounts for those it should have.
Refunded(n) ==
  /\ bytes' = Wrap(bytes - n)
  /\ Counted' = Counted - n
  /\ UNCHANGED <<max_memory, next_gc>>
  /\ pc \in {"idle", "ahead", "recheck"}

\* A collection refunds n bytes, and drift accounts for those never charged.
Reclaimed(n) ==
  /\ bytes' = Wrap(bytes - n)
  /\ Counted' = Counted - n
  /\ next_gc' = Larger(Wrap(2 * bytes'), Threshold)
  /\ UNCHANGED max_memory

\* Every step is one of these.
LEMMA StepCounts ==
  ASSUME TypeOK, NothingAhead, [Next]_vars
  PROVE  Still \/ \E n \in Nat : Charged(n) \/ Refunded(n) \/ Reclaimed(n)
<1> USE AccountingAssumption
<1> DEFINE Known == Still \/ \E n \in Nat : Charged(n) \/ Refunded(n) \/ Reclaimed(n)
           w == Occupied(buffer)
<1>1. IsHeap(buffer)  BY DEF TypeOK, IsHeap
<1>2. w \in Nat /\ ahead \in Nat /\ message \in Nat /\ drift \in Int
  BY <1>1, OccupiedBound DEF TypeOK
<1>3. /\ Counted = w + ahead + message + drift
      /\ Counted' = Occupied(buffer') + ahead' + message' + drift'
  BY DEF Counted, Real, Occupied
<1> HIDE DEF w
<1>4. ASSUME NEW n, Exit(n) PROVE Known
  BY <1>4 DEF Exit, Still, Counted, Real, heapVars
<1>5. ASSUME NEW n \in Amounts, NEW k \in 0 .. MaxBuffer, AllocateAhead(n, k) PROVE Known
  <2>1. CASE Exit(n)  BY <1>4, <2>1
  <2>2. CASE ~Exit(n)
    <3>1. /\ Charge(n, "ahead") /\ ahead' = n
          /\ buffer' = buffer /\ message' = message /\ drift' = drift
      BY <1>5, <2>2 DEF AllocateAhead
    <3>2. ahead = 0  BY <1>5 DEF AllocateAhead, NothingAhead
    <3>3. Counted' = Counted + n  BY <1>2, <1>3, <3>1, <3>2 DEF w
    <3>4. Charged(n)  BY <3>1, <3>3 DEF Charged
    <3> QED  BY <3>4
  <2> QED  BY <2>1, <2>2
<1>6. ASSUME FreeAhead PROVE Known
  <2>1. /\ bytes' = Wrap(bytes - (ahead - escaped)) /\ ahead' = 0 /\ drift' = drift + escaped
        /\ buffer' = buffer /\ message' = message /\ pc = "ahead"
        /\ UNCHANGED <<max_memory, next_gc>>
    BY <1>6 DEF FreeAhead
  <2>2. escaped \in 0 .. ahead /\ ahead - escaped \in Nat  BY <1>2 DEF TypeOK
  <2>3. Counted' = Counted - (ahead - escaped)  BY <1>2, <1>3, <2>1, <2>2 DEF w
  <2>4. Refunded(ahead - escaped)  BY <2>1, <2>3 DEF Refunded
  <2> QED  BY <2>2, <2>4
<1>7. ASSUME NEW o \in Objects, AllocateObject(o) PROVE Known
  <2>1. CASE Exit(Size[o])  BY <1>4, <2>1
  <2>2. CASE ~Exit(Size[o])
    <3>1. /\ Charge(Size[o], "recheck") /\ o \notin DOMAIN buffer
          /\ buffer' = With(buffer, o, ahead) /\ ahead' = 0
          /\ message' = message /\ drift' = drift
      BY <1>7, <2>2 DEF AllocateObject
    <3>2. ahead \in 0 .. MaxBuffer  BY DEF TypeOK
    <3>3. Occupied(buffer') = w + Size[o] + ahead
      <4>1. o \in Objects \ DOMAIN buffer  BY <3>1
      <4>2. Occupied(buffer') = Occupied(buffer) + Size[o] + ahead
        <5>1. /\ IsHeap(buffer') /\ DOMAIN buffer' = DOMAIN buffer \cup {o}
              /\ Occupied(buffer') = Occupied(buffer) + Size[o] + ahead
          BY <1>1, <3>1, <3>2, <4>1, OccupiedNew
        <5> QED  BY <5>1
      <4> QED  BY <4>2 DEF w
    <3>4. Size[o] \in Nat  OBVIOUS
    <3>5. Counted' = Counted + Size[o]  BY <1>2, <1>3, <3>1, <3>3, <3>4
    <3>6. Charged(Size[o])  BY <3>1, <3>5 DEF Charged
    <3> QED  BY <3>4, <3>6
  <2> QED  BY <2>1, <2>2
<1>8. ASSUME NEW o \in Objects, NEW n \in Amounts, GrowArray(o, n) PROVE Known
  <2>1. CASE Exit(n)  BY <1>4, <2>1
  <2>2. CASE ~Exit(n)
    <3>1. /\ Charge(n, "idle") /\ o \in DOMAIN buffer /\ buffer[o] + n <= MaxBuffer
          /\ buffer' = [buffer EXCEPT ![o] = buffer[o] + n]
          /\ ahead' = ahead /\ message' = message /\ drift' = drift
      BY <1>8, <2>2 DEF GrowArray
    <3>2. n \in Nat /\ buffer[o] \in Nat /\ buffer[o] + n \in 0 .. MaxBuffer
      BY <1>1, <3>1 DEF IsHeap
    <3>3. Occupied(buffer') = w + ((buffer[o] + n) - buffer[o])
      BY <1>1, <3>1, <3>2, OccupiedPut DEF w
    <3>4. Counted' = Counted + n  BY <1>2, <1>3, <3>1, <3>2, <3>3
    <3>5. Charged(n)  BY <3>1, <3>4 DEF Charged
    <3> QED  BY <3>2, <3>5
  <2> QED  BY <2>1, <2>2
<1>9. ASSUME NEW o \in Objects, NEW n \in Amounts, FreeArray(o, n) PROVE Known
  <2>1. /\ o \in DOMAIN buffer /\ n <= buffer[o] /\ bytes' = Wrap(bytes - n) /\ pc = "idle"
        /\ buffer' = [buffer EXCEPT ![o] = buffer[o] - n]
        /\ ahead' = ahead /\ message' = message /\ drift' = drift
        /\ UNCHANGED <<max_memory, next_gc>>
    BY <1>9 DEF FreeArray
  <2>2. n \in Nat /\ buffer[o] \in Nat /\ buffer[o] - n \in 0 .. MaxBuffer
    BY <1>1, <2>1 DEF IsHeap
  <2>3. Occupied(buffer') = w + ((buffer[o] - n) - buffer[o])
    BY <1>1, <2>1, <2>2, OccupiedPut DEF w
  <2>4. Counted' = Counted - n  BY <1>2, <1>3, <2>1, <2>2, <2>3
  <2>5. Refunded(n)  BY <2>1, <2>4 DEF Refunded
  <2> QED  BY <2>2, <2>5
<1>10. ASSUME NEW n \in Amounts, RuntimeError(n) PROVE Known
  <2>1. CASE Exit(n)  BY <1>4, <2>1
  <2>2. CASE ~Exit(n)
    <3>1. /\ Charge(n, "idle") /\ message' = n /\ drift' = drift + message
          /\ buffer' = buffer /\ ahead' = ahead
      BY <1>10, <2>2 DEF RuntimeError, heapVars
    <3>2. Counted' = Counted + n  BY <1>2, <1>3, <3>1 DEF w
    <3>3. Charged(n)  BY <3>1, <3>2 DEF Charged
    <3> QED  BY <3>3
  <2> QED  BY <2>1, <2>2
<1>11. ASSUME Recheck PROVE Known
  BY <1>11 DEF Recheck, Still, Counted, Real, heapVars
<1>12. ASSUME NEW F \in SUBSET Objects, Collect(F) PROVE Known
  <2>1. /\ F \subseteq DOMAIN buffer \ {busy} /\ bytes' = Wrap(bytes - Swept(F))
        /\ buffer' = [o \in DOMAIN buffer \ F |-> buffer[o]]
        /\ next_gc' = Larger(Wrap(2 * bytes'), Threshold)
        /\ drift' = DriftSwept(F)
        /\ ahead' = ahead /\ message' = message /\ max_memory' = max_memory
    BY <1>12 DEF Collect
  <2>2. F \in SUBSET (DOMAIN buffer)  BY <2>1
  <2> DEFINE s == Total(Size, F)
             a == Total(buffer, F)
             e == Total(escapes, F)
             h == Header * Cardinality(F)
  <2>3. s \in Nat /\ a \in Nat /\ e \in Nat /\ h \in Nat /\ Swept(F) \in Nat
    BY <2>2, SweptType
  <2>4. Occupied(buffer') = w - s - a  BY <1>1, <2>1, <2>2, OccupiedSwept DEF w
  <2>5. Swept(F) = (a - e) + h + s  BY DEF Swept
  <2>6. drift' = drift + e - h /\ ahead' = ahead /\ message' = message
    BY <2>1 DEF DriftSwept
  <2> HIDE DEF s, a, e, h
  <2>7. Counted' = Counted - Swept(F)  BY <1>2, <1>3, <2>3, <2>4, <2>5, <2>6
  <2>8. Reclaimed(Swept(F))  BY <2>1, <2>7 DEF Reclaimed
  <2> QED  BY <2>3, <2>8
<1>13. CASE UNCHANGED vars  BY <1>13 DEF vars, heapVars, Still, Counted, Real
<1>14. CASE Next
  BY <1>5, <1>6, <1>7, <1>8, <1>9, <1>10, <1>11, <1>12, <1>14 DEF Next
<1> QED  BY <1>13, <1>14

-----------------------------------------------------------------------------
(* The invariant *)

\* A counter that has not underflowed shows what it stands for.
LEMMA CounterShows ==
  ASSUME NEW x \in Int, x >= 0, 2 * x < Modulus
  PROVE  Wrap(x) = x
<1>1. x \in 0 .. Modulus - 1  BY AccountingAssumption
<1> QED  BY <1>1, WrapSmall

\* CounterDrift is inductive: a step charges what it adds, modulo Modulus.
LEMMA DriftStep ==
  ASSUME IndInv, [Next]_vars
  PROVE  CounterDrift'
<1>1. Counted \in Int /\ bytes = Wrap(Counted)
  BY CountedBound DEF IndInv, CounterDrift, Counted
<1>2. SUFFICES bytes' = Wrap(Counted')
  <2>1. CounterDrift' <=> bytes' = Wrap(Counted')  BY DEF CounterDrift, Counted, Wrap
  <2> QED  BY <2>1
<1>3. ASSUME NEW k \in Int, Counted' = Counted + k, bytes' = Wrap(bytes + k)
      PROVE  bytes' = Wrap(Counted')
  BY <1>1, <1>3, WrapOnce
<1>4. CASE Still  BY <1>1, <1>4 DEF Still
<1>5. ASSUME NEW n \in Nat, Charged(n) PROVE bytes' = Wrap(Counted')
  <2>1. Counted' = Counted + n /\ bytes' = Wrap(bytes + n)  BY <1>5 DEF Charged, Charge
  <2> QED  BY <1>3, <2>1
<1>6. ASSUME NEW n \in Nat, Refunded(n) \/ Reclaimed(n) PROVE bytes' = Wrap(Counted')
  <2>1. Counted' = Counted - n /\ bytes' = Wrap(bytes - n)  BY <1>6 DEF Refunded, Reclaimed
  <2>2. -n \in Int /\ Counted - n = Counted + (-n) /\ bytes - n = bytes + (-n)
    BY <1>1 DEF IndInv, TypeOK
  <2> QED  BY <1>3, <2>1, <2>2
<1>7. TypeOK /\ NothingAhead  BY DEF IndInv
<1> QED  BY <1>4, <1>5, <1>6, <1>7, StepCounts

\* The facts about both ends of a step that the last two properties rest on.
LEMMA StepBounds ==
  ASSUME IndInv, [Next]_vars
  PROVE  /\ Counted \in Int /\ 2 * Counted < Modulus
         /\ Counted' \in Int /\ 2 * Counted' < Modulus
         /\ bytes = Wrap(Counted) /\ bytes' = Wrap(Counted')
         /\ bytes \in Nat /\ bytes' \in Nat
<1>1. TypeOK /\ MessageAsked /\ TypeOK' /\ MessageAsked'  BY TypeStep DEF IndInv
<1>2. Counted \in Int /\ 2 * Counted < Modulus  BY <1>1, CountedBound
<1>3. Counted' \in Int /\ 2 * Counted' < Modulus  BY <1>1, CountedBoundNext
<1>4. bytes = Wrap(Counted)  BY DEF IndInv, CounterDrift, Counted
<1>5. bytes' = Wrap(Counted')
  <2>1. CounterDrift'  BY DriftStep
  <2> QED  BY <2>1 DEF CounterDrift, Counted, Wrap
<1>6. bytes \in Nat /\ bytes' \in Nat  BY <1>1, AccountingAssumption DEF TypeOK
<1> QED  BY <1>2, <1>3, <1>4, <1>5, <1>6

\* LimitUpToDrift is inductive: what is charged passed the test of the limit.
LEMMA LimitStep ==
  ASSUME IndInv, [Next]_vars
  PROVE  LimitUpToDrift'
<1>1. TypeOK /\ NothingAhead /\ LimitUpToDrift  BY DEF IndInv
<1>2. SUFFICES ASSUME max_memory' > 0 PROVE Counted' <= max_memory'
  <2>1. LimitUpToDrift' <=> (max_memory' > 0 => Counted' <= max_memory')
    BY DEF LimitUpToDrift, Counted
  <2> QED  BY <2>1
<1>3. max_memory \in Nat  BY <1>1, AccountingAssumption DEF TypeOK
<1>4. max_memory > 0 => Counted <= max_memory  BY <1>1 DEF LimitUpToDrift, Counted
<1>5. CASE Still  BY <1>2, <1>4, <1>5 DEF Still
<1>6. ASSUME NEW n \in Nat, Charged(n) PROVE Counted' <= max_memory'
  <2>1. /\ max_memory' = max_memory /\ bytes' = Wrap(bytes + n)
        /\ ~(max_memory > 0 /\ Wrap(bytes + n) > max_memory)
    BY <1>6 DEF Charged, Charge, OverLimit
  <2>2. bytes' <= max_memory'  BY <1>2, <1>3, <2>1, StepBounds
  <2>3. CASE Counted' >= 0
    <3>1. bytes' = Counted'  BY <2>3, StepBounds, CounterShows
    <3> QED  BY <2>2, <3>1
  <2>4. CASE Counted' < 0  BY <1>3, <2>1, <2>4, StepBounds
  <2> QED  BY <2>3, <2>4, StepBounds
<1>7. ASSUME NEW n \in Nat, Refunded(n) \/ Reclaimed(n) PROVE Counted' <= max_memory'
  <2>1. max_memory' = max_memory /\ Counted' = Counted - n
    BY <1>7 DEF Refunded, Reclaimed
  <2> QED  BY <1>2, <1>3, <1>4, <2>1, StepBounds
<1> QED  BY <1>1, <1>5, <1>6, <1>7, StepCounts

\* OverdueOnlyAfterUnderflow is inductive: a charge above next_gc starts a
\* collection, and a collection leaves at most half of next_gc.
LEMMA OverdueStep ==
  ASSUME IndInv, [Next]_vars
  PROVE  OverdueOnlyAfterUnderflow'
<1>1. TypeOK /\ NothingAhead /\ OverdueOnlyAfterUnderflow  BY DEF IndInv
<1>2. SUFFICES ASSUME pc' \in {"idle", "ahead", "recheck"}, GcEnabled, bytes' > next_gc', Counted' >= 0
               PROVE  FALSE
  <2>1. OverdueOnlyAfterUnderflow' <=>
          (pc' \in {"idle", "ahead", "recheck"} /\ GcEnabled /\ bytes' > next_gc' => Counted' < 0)
    BY DEF OverdueOnlyAfterUnderflow, Counted
  <2>2. Counted' < 0 \/ Counted' >= 0  BY StepBounds
  <2> QED  BY <2>1, <2>2
<1>3. pc \in {"idle", "ahead", "recheck"} /\ Counted >= 0 => bytes <= next_gc
  <2>1. next_gc \in Nat  BY <1>1, AccountingAssumption DEF TypeOK
  <2>2. pc \in {"idle", "ahead", "recheck"} /\ bytes > next_gc => Counted < 0
    BY <1>1, <1>2 DEF OverdueOnlyAfterUnderflow, Counted
  <2> QED  BY <2>1, <2>2, StepBounds
<1>4. bytes' = Counted'  BY <1>2, StepBounds, CounterShows
<1>5. next_gc \in Nat /\ Threshold \in Nat  BY <1>1, AccountingAssumption DEF TypeOK
<1>6. CASE Still
  <2>1. /\ Counted' = Counted /\ bytes' = bytes /\ next_gc' = next_gc
        /\ pc \in {"idle", "ahead", "recheck"}
    BY <1>2, <1>6 DEF Still
  <2> QED  BY <1>2, <1>3, <1>5, <2>1, StepBounds
<1>7. ASSUME NEW n \in Nat, Charged(n) PROVE FALSE
  <2>1. /\ IF GcEnabled /\ bytes' > next_gc THEN pc' = "collect" ELSE TRUE
        /\ next_gc' = next_gc
    BY <1>7 DEF Charged, Charge
  <2> QED  BY <1>2, <2>1
<1>8. ASSUME NEW n \in Nat, Refunded(n) PROVE FALSE
  <2>1. Counted' = Counted - n /\ next_gc' = next_gc /\ pc \in {"idle", "ahead", "recheck"}  BY <1>8 DEF Refunded
  <2>2. Counted >= 0  BY <1>2, <2>1, StepBounds
  <2>3. bytes = Counted  BY <2>2, StepBounds, CounterShows
  <2> QED  BY <1>2, <1>3, <1>4, <1>5, <2>1, <2>2, <2>3, StepBounds
<1>9. ASSUME NEW n \in Nat, Reclaimed(n) PROVE FALSE
  <2>1. next_gc' = Larger(Wrap(2 * bytes'), Threshold)  BY <1>9 DEF Reclaimed
  <2>2. Wrap(2 * bytes') = 2 * bytes'
    <3>1. 2 * bytes' \in 0 .. Modulus - 1
      BY <1>2, <1>4, StepBounds, AccountingAssumption
    <3> QED  BY <3>1, WrapSmall
  <2>3. next_gc' >= 2 * bytes'  BY <1>5, <2>1, <2>2, StepBounds DEF Larger
  <2>4. next_gc' \in Int  BY <1>5, <2>1, <2>2, StepBounds DEF Larger
  <2> QED  BY <1>2, <2>3, <2>4, StepBounds
<1> QED  BY <1>1, <1>6, <1>7, <1>8, <1>9, StepCounts

\* The parts of the invariant hold in every state of Accounting: src/src/gc.c
\* charges, tests, refunds and doubles so that each rests on the others.
THEOREM AccountingInv == Spec => []IndInv
<1>1. IndInv /\ [Next]_vars => IndInv'
  <2> SUFFICES ASSUME IndInv, [Next]_vars PROVE IndInv'  OBVIOUS
  <2>1. TypeOK' /\ MessageAsked'  BY TypeStep DEF IndInv
  <2>2. NothingAhead'  BY AheadStep DEF IndInv
  <2> QED  BY <2>1, <2>2, DriftStep, LimitStep, OverdueStep DEF IndInv
<1> QED  BY <1>1, InitInv, PTL DEF Spec

\* bytes_allocated, next_gc and the objects' arrays keep their ranges, and
\* next_gc never falls below MJ_GC_INITIAL_THRESHOLD.
THEOREM AccountingTypeOK == Spec => []TypeOK
<1>1. IndInv => TypeOK  BY DEF IndInv
<1> QED  BY <1>1, AccountingInv, PTL

\* bytes_allocated is off by exactly one header for every object swept, every
\* error message replaced and every escape of a literal whose characters were
\* freed: every other charge of gc_reallocate is refunded.
THEOREM AccountingCounterDrift == Spec => []CounterDrift
<1>1. IndInv => CounterDrift  BY DEF IndInv
<1> QED  BY <1>1, AccountingInv, PTL

\* max_memory bounds what is allocated, up to the error of the counter.
THEOREM AccountingLimit == Spec => []LimitUpToDrift
<1>1. IndInv => LimitUpToDrift  BY DEF IndInv
<1> QED  BY <1>1, AccountingInv, PTL

\* Outside a collection bytes_allocated passes next_gc only once the counter has
\* underflowed, so the second test of allocate_object fires only then.
THEOREM AccountingOverdue == Spec => []OverdueOnlyAfterUnderflow
<1>1. IndInv => OverdueOnlyAfterUnderflow  BY DEF IndInv
<1> QED  BY <1>1, AccountingInv, PTL
=============================================================================
