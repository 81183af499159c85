---------------------------- MODULE TableProofs ----------------------------
(***************************************************************************)
(* Proofs about Table for every set of keys, every hash function and every *)
(* smallest capacity of at least two.                                      *)
(***************************************************************************)
EXTENDS Table, FiniteSetTheorems, WellFoundedInduction, TLAPS

-----------------------------------------------------------------------------
(* Lemmas about searching one array *)

\* A nonempty set of naturals has a least element, and Least is it.
LEMMA LeastProperty ==
  ASSUME NEW S \in SUBSET Nat, S # {}
  PROVE  Least(S) \in S /\ \A m \in S : Least(S) <= m
<1> DEFINE T == {0 .. n : n \in S}
<1>1. T \subseteq FiniteSubsetsOf(Nat) /\ T # {}
  <2>1. \A n \in S : IsFiniteSet(0 .. n) /\ 0 .. n \subseteq Nat
    BY FS_Interval
  <2> QED
    BY <2>1 DEF FiniteSubsetsOf
<1>2. PICK t \in T : \A u \in T : ~ (<<u, t>> \in StrictSubsetOrdering(Nat))
  <2> HIDE DEF T
  <2>1. IsWellFoundedOn(StrictSubsetOrdering(Nat), FiniteSubsetsOf(Nat))
    BY FS_StrictSubsetOrderingWellFounded
  <2> QED
    BY <1>1, <2>1, WFMin, Zenon
<1>3. PICK n \in S : t = 0 .. n
  OBVIOUS
<1>4. ASSUME NEW m \in S, m < n
      PROVE  FALSE
  <2>1. 0 .. m \subseteq Nat /\ 0 .. n \subseteq Nat /\ 0 .. m \subseteq 0 .. n
    BY <1>4
  <2>2. n \in 0 .. n /\ n \notin 0 .. m
    BY <1>4
  <2>3. <<0 .. m, t>> \in StrictSubsetOrdering(Nat)
    BY <1>3, <2>1, <2>2 DEF StrictSubsetOrdering
  <2> QED
    BY <1>2, <2>3
<1>5. \A m \in S : n <= m
  BY <1>4
<1> QED
  BY <1>5 DEF Least

\* Whatever is least is Least.
LEMMA LeastUnique ==
  ASSUME NEW S \in SUBSET Nat, NEW n \in S, \A m \in S : n <= m
  PROVE  Least(S) = n
<1>1. Least(S) \in S /\ Least(S) <= n
  BY LeastProperty
<1>2. n <= Least(S)
  BY <1>1
<1>3. n \in Nat /\ Least(S) \in Nat
  BY <1>1
<1> QED
  BY <1>1, <1>2, <1>3

\* The index arithmetic of find_entry stays inside the array.
LEMMA ProbeInSlots ==
  ASSUME NEW cap \in Nat \ {0}, NEW k \in Keys, NEW n \in Nat
  PROVE  Probe(k, cap, n) \in Slots(cap)
<1>1. Hash[k] \in Nat
  BY TableAssumption
<1>2. Hash[k] % cap \in 0 .. cap - 1
  BY <1>1
<1> QED
  BY <1>2 DEF Probe, Slots

\* Within capacity steps, linear probing visits every slot.
LEMMA ProbeReaches ==
  ASSUME NEW cap \in Nat \ {0}, NEW k \in Keys, NEW i \in Slots(cap)
  PROVE  \E n \in Slots(cap) : Probe(k, cap, n) = i
<1> DEFINE h == Hash[k] % cap
<1>1. h \in 0 .. cap - 1
  <2>1. Hash[k] \in Nat
    BY TableAssumption
  <2> QED
    BY <2>1
<1>2. i \in 0 .. cap - 1
  BY DEF Slots
<1>3. i % cap = i /\ (i + cap) % cap = i
  BY <1>2
<1> HIDE DEF h
<1>4. CASE h <= i
  <2>1. i - h \in Slots(cap) /\ h + (i - h) = i
    BY <1>1, <1>2, <1>4 DEF Slots
  <2>2. (h + (i - h)) % cap = i
    BY <1>3, <2>1
  <2> QED
    BY <2>1, <2>2 DEF Probe, h
<1>5. CASE i < h
  <2>1. i - h + cap \in Slots(cap) /\ h + (i - h + cap) = i + cap
    BY <1>1, <1>2, <1>5 DEF Slots
  <2>2. (h + (i - h + cap)) % cap = i
    BY <1>3, <2>1
  <2> QED
    BY <2>1, <2>2 DEF Probe, h
<1> QED
  BY <1>1, <1>2, <1>4, <1>5

\* An array with a slot that was never used stops every search.
LEMMA SearchStops ==
  ASSUME NEW cap \in Nat \ {0}, NEW es \in [Slots(cap) -> Entry], NEW k \in Keys,
         NEW i \in Slots(cap), es[i] = Empty \/ es[i].key = k
  PROVE  Stops(es, cap, k) # {}
<1>1. PICK n \in Slots(cap) : Probe(k, cap, n) = i
  BY ProbeReaches
<1> QED
  BY <1>1 DEF Stops

\* A load of at most three quarters leaves such a slot.
LEMMA EmptySlotRemains ==
  ASSUME NEW cap \in Nat \ {0}, NEW es \in [Slots(cap) -> Entry],
         Cardinality(Used(es)) < cap
  PROVE  \E i \in Slots(cap) : es[i] = Empty
<1>1. IsFiniteSet(Slots(cap)) /\ Cardinality(Slots(cap)) = cap
  BY FS_Interval DEF Slots
<1>2. Used(es) # Slots(cap)
  BY <1>1
<1>3. Used(es) \subseteq Slots(cap)
  BY DEF Used
<1> QED
  BY <1>2, <1>3 DEF Used

\* Where a terminating search may end: on the key, or on a free slot.
LEMMA FindEntryEnds ==
  ASSUME NEW cap \in Nat \ {0}, NEW es \in [Slots(cap) -> Entry], NEW k \in Keys,
         Stops(es, cap, k) # {}
  PROVE  /\ FindEntry(es, cap, k) \in Slots(cap)
         /\ es[FindEntry(es, cap, k)].key \in {k, NoKey}
<1> DEFINE n == Least(Stops(es, cap, k))
           g == Least(Graves(es, cap, k))
<1>1. Stops(es, cap, k) \subseteq Nat /\ Graves(es, cap, k) \subseteq Nat
  BY DEF Stops, Graves, Slots
<1>2. n \in Stops(es, cap, k)
  BY <1>1, LeastProperty
<1>3. Graves(es, cap, k) # {} => g \in Graves(es, cap, k)
  BY <1>1, LeastProperty
<1> HIDE DEF n, g
<1>4. Probe(k, cap, n) \in Slots(cap) /\ es[Probe(k, cap, n)].key \in {k, NoKey}
  BY <1>1, <1>2, ProbeInSlots DEF Stops, Empty
<1>5. Graves(es, cap, k) # {} =>
        Probe(k, cap, g) \in Slots(cap) /\ es[Probe(k, cap, g)].key = NoKey
  BY <1>1, <1>3, ProbeInSlots DEF Graves
<1> QED
  BY <1>4, <1>5 DEF FindEntry, n, g

\* Filling another slot, with a tombstone or with another key, leaves the
\* search for a key where it was: the argument both table_set and
\* table_delete rest on.
LEMMA SearchUndisturbed ==
  ASSUME NEW cap \in Nat \ {0}, NEW es \in [Slots(cap) -> Entry],
         NEW f \in Slots(cap), NEW e \in Entry, e # Empty
  PROVE  \A j \in Live(es) :
           j # f /\ es[j].key # e.key /\ FindEntry(es, cap, es[j].key) = j
             => FindEntry([es EXCEPT ![f] = e], cap, es[j].key) = j
<1> SUFFICES ASSUME NEW j \in Live(es), j # f, es[j].key # e.key,
                    FindEntry(es, cap, es[j].key) = j
             PROVE  FindEntry([es EXCEPT ![f] = e], cap, es[j].key) = j
  OBVIOUS
<1> DEFINE k == es[j].key
           new == [es EXCEPT ![f] = e]
           n == Least(Stops(es, cap, k))
<1>1. j \in Slots(cap) /\ k \in Keys
  BY DEF Live, Entry
<1>2. Stops(es, cap, k) \subseteq Nat /\ Stops(new, cap, k) \subseteq Nat
  BY DEF Stops, Slots
<1>3. Stops(es, cap, k) # {}
  BY <1>1, SearchStops
<1>4. n \in Stops(es, cap, k) /\ \A m \in Stops(es, cap, k) : n <= m
  BY <1>2, <1>3, LeastProperty
<1>5. Probe(k, cap, n) = j
  <2>1. Graves(es, cap, k) \subseteq Nat
    BY DEF Graves, Slots
  <2>2. Graves(es, cap, k) # {} => es[Probe(k, cap, Least(Graves(es, cap, k)))].key = NoKey
    BY <2>1, LeastProperty DEF Graves
  <2>3. k # NoKey
    BY <1>1, TableAssumption
  <2> QED
    BY <2>2, <2>3 DEF FindEntry
<1> HIDE DEF n
<1>6. new[j] = es[j] /\ new \in [Slots(cap) -> Entry]
  BY <1>1
<1>7. n \in Stops(new, cap, k)
  BY <1>4, <1>5, <1>6 DEF Stops
<1>8. \A m \in Stops(new, cap, k) : m \in Stops(es, cap, k)
  <2> TAKE m \in Stops(new, cap, k)
  <2>1. m \in Slots(cap) /\ Probe(k, cap, m) \in Slots(cap)
    BY <1>1, <1>2, ProbeInSlots DEF Stops
  <2>2. new[Probe(k, cap, m)] = Empty \/ new[Probe(k, cap, m)].key = k
    BY DEF Stops
  <2>3. Probe(k, cap, m) # f
    BY <2>1, <2>2
  <2> QED
    BY <2>1, <2>2, <2>3 DEF Stops
<1>9. Least(Stops(new, cap, k)) = n
  BY <1>2, <1>4, <1>7, <1>8, LeastUnique
<1> QED
  BY <1>5, <1>6, <1>9 DEF FindEntry

\* An entry stored where the search for its key ended is found there.
LEMMA StoredIsFound ==
  ASSUME NEW cap \in Nat \ {0}, NEW es \in [Slots(cap) -> Entry],
         NEW k \in Keys, NEW v \in Values, Stops(es, cap, k) # {}
  PROVE  LET f == FindEntry(es, cap, k)
         IN  FindEntry([es EXCEPT ![f] = [key |-> k, value |-> v]], cap, k) = f
<1> DEFINE f == FindEntry(es, cap, k)
           new == [es EXCEPT ![f] = [key |-> k, value |-> v]]
           old == Stops(es, cap, k)
           n == Least(Stops(new, cap, k))
<1>1. f \in Slots(cap)
  BY FindEntryEnds
<1>2. PICK p \in Slots(cap) : /\ Probe(k, cap, p) = f
                              /\ \A m \in old : p <= m
  <2>1. old \subseteq Nat /\ Graves(es, cap, k) \subseteq Nat
    BY DEF Stops, Graves, Slots
  <2>2. Least(old) \in old /\ \A m \in old : Least(old) <= m
    BY <2>1, LeastProperty
  <2>3. Graves(es, cap, k) # {} => Least(Graves(es, cap, k)) \in Graves(es, cap, k)
    BY <2>1, LeastProperty
  <2>4. CASE es[Probe(k, cap, Least(old))].key = k \/ Graves(es, cap, k) = {}
    BY <2>2, <2>4 DEF FindEntry, Stops
  <2>5. CASE ~(es[Probe(k, cap, Least(old))].key = k \/ Graves(es, cap, k) = {})
    <3>1. Least(Graves(es, cap, k)) \in Graves(es, cap, k)
      BY <2>3, <2>5
    <3>2. f = Probe(k, cap, Least(Graves(es, cap, k)))
      BY <2>5 DEF FindEntry
    <3>3. \A m \in old : Least(Graves(es, cap, k)) <= m
      BY <3>1, <2>1 DEF Graves
    <3> QED
      BY <3>1, <3>2, <3>3 DEF Graves
  <2> QED
    BY <2>4, <2>5
<1> HIDE DEF f
<1>3. new[f] = [key |-> k, value |-> v] /\ new \in [Slots(cap) -> Entry]
  BY <1>1 DEF Entry
<1>4. p \in Stops(new, cap, k) /\ Stops(new, cap, k) \subseteq Nat
  BY <1>2, <1>3 DEF Stops, Slots
<1>5. n \in Stops(new, cap, k) /\ n <= p
  BY <1>4, LeastProperty
<1> HIDE DEF n
<1>6. Probe(k, cap, n) \in Slots(cap)
  BY <1>4, <1>5, ProbeInSlots
<1>7. Probe(k, cap, n) = f
  <2> SUFFICES ASSUME Probe(k, cap, n) # f
               PROVE  FALSE
    OBVIOUS
  <2>1. new[Probe(k, cap, n)] = es[Probe(k, cap, n)]
    BY <1>6
  <2>2. n \in old
    BY <1>5, <2>1 DEF Stops
  <2>3. n \in Nat /\ p \in Nat /\ p <= n
    BY <1>2, <1>4, <1>5, <2>2
  <2>4. n = p
    BY <1>5, <2>3
  <2> QED
    BY <1>2, <2>4
<1>8. FindEntry(new, cap, k) = f
  BY <1>3, <1>7 DEF FindEntry, n
<1> QED
  BY <1>8 DEF f

\* table_set's store keeps every key findable.
LEMMA StoreKeepsFindable ==
  ASSUME NEW cap \in Nat \ {0}, NEW es \in [Slots(cap) -> Entry], Findable(es, cap),
         NEW k \in Keys, NEW v \in Values, Stops(es, cap, k) # {}
  PROVE  Findable([es EXCEPT ![FindEntry(es, cap, k)] = [key |-> k, value |-> v]], cap)
<1> DEFINE f == FindEntry(es, cap, k)
           e == [key |-> k, value |-> v]
           new == [es EXCEPT ![f] = e]
<1>1. f \in Slots(cap) /\ FindEntry(new, cap, k) = f
  BY FindEntryEnds, StoredIsFound
<1>2. \A j \in Live(es) : j # f => es[j].key # k
  BY DEF Findable
<1> HIDE DEF f
<1>3. e \in Entry /\ e # Empty /\ new[f] = e
  BY <1>1, TableAssumption DEF Entry, Empty
<1>4. \A j \in Live(new) : j # f => j \in Live(es) /\ new[j] = es[j]
  BY <1>1 DEF Live
<1>5. \A j \in Live(es) :
        j # f /\ es[j].key # e.key /\ FindEntry(es, cap, es[j].key) = j
          => FindEntry(new, cap, es[j].key) = j
  <2>1. \A f0 \in Slots(cap), e0 \in Entry : e0 # Empty =>
          \A j \in Live(es) :
            j # f0 /\ es[j].key # e0.key /\ FindEntry(es, cap, es[j].key) = j
              => FindEntry([es EXCEPT ![f0] = e0], cap, es[j].key) = j
    BY SearchUndisturbed
  <2> HIDE DEF e
  <2> QED
    BY <1>1, <1>3, <2>1
<1>6. \A j \in Live(new) : j # f => FindEntry(new, cap, new[j].key) = j
  <2> SUFFICES ASSUME NEW j \in Live(new), j # f
               PROVE  FindEntry(new, cap, new[j].key) = j
    OBVIOUS
  <2>1. j \in Live(es) /\ new[j] = es[j] /\ es[j].key # e.key
    BY <1>2, <1>4
  <2>2. FindEntry(es, cap, es[j].key) = j
    BY <2>1 DEF Findable
  <2> QED
    BY <1>5, <2>1, <2>2
<1>7. Findable(new, cap)
  BY <1>1, <1>3, <1>6 DEF Findable
<1> QED
  BY <1>7 DEF f

\* So does leaving a tombstone.
LEMMA TombstoneKeepsFindable ==
  ASSUME NEW cap \in Nat \ {0}, NEW es \in [Slots(cap) -> Entry], Findable(es, cap),
         NEW f \in Slots(cap)
  PROVE  Findable([es EXCEPT ![f] = Tombstone], cap)
<1> DEFINE new == [es EXCEPT ![f] = Tombstone]
<1>1. Tombstone \in Entry /\ Tombstone # Empty /\ Tombstone.key = NoKey
  BY TableAssumption DEF Tombstone, Entry, Empty
<1>2. \A j \in Live(new) : j # f /\ j \in Live(es) /\ new[j] = es[j]
  BY <1>1 DEF Live
<1> SUFFICES ASSUME NEW j \in Live(new)
             PROVE  FindEntry(new, cap, new[j].key) = j
  BY DEF Findable
<1>3. j # f /\ j \in Live(es) /\ new[j] = es[j] /\ es[j].key # Tombstone.key
  BY <1>1, <1>2 DEF Live
<1>4. FindEntry(es, cap, es[j].key) = j
  BY <1>3 DEF Findable
<1>5. \A i \in Live(es) :
        i # f /\ es[i].key # Tombstone.key /\ FindEntry(es, cap, es[i].key) = i
          => FindEntry(new, cap, es[i].key) = i
  BY <1>1, SearchUndisturbed
<1> QED
  BY <1>3, <1>4, <1>5

LEMMA UsedFinite ==
  ASSUME NEW cap \in Nat, NEW es \in [Slots(cap) -> Entry]
  PROVE  IsFiniteSet(Used(es)) /\ Cardinality(Used(es)) \in Nat
<1>1. IsFiniteSet(Slots(cap)) /\ Used(es) \subseteq Slots(cap)
  BY FS_Interval DEF Slots, Used
<1> QED
  BY <1>1, FS_Subset, FS_CardinalityType

\* Storing an entry uses one slot more, or none if it reuses one.
LEMMA UsedAfterStore ==
  ASSUME NEW cap \in Nat, NEW es \in [Slots(cap) -> Entry]
  PROVE  \A i \in Slots(cap), e \in Entry : e # Empty =>
           Cardinality(Used([es EXCEPT ![i] = e])) =
             IF es[i] = Empty THEN Cardinality(Used(es)) + 1 ELSE Cardinality(Used(es))
<1> SUFFICES ASSUME NEW i \in Slots(cap), NEW e \in Entry, e # Empty
             PROVE  Cardinality(Used([es EXCEPT ![i] = e])) =
                      IF es[i] = Empty THEN Cardinality(Used(es)) + 1
                                       ELSE Cardinality(Used(es))
  OBVIOUS
<1>1. Used([es EXCEPT ![i] = e]) = Used(es) \cup {i}
  BY DEF Used
<1>2. i \in Used(es) <=> es[i] # Empty
  BY DEF Used
<1>3. Cardinality(Used(es) \cup {i}) =
        IF i \in Used(es) THEN Cardinality(Used(es)) ELSE Cardinality(Used(es)) + 1
  BY UsedFinite, FS_AddElement
<1> QED
  BY <1>1, <1>2, <1>3

-----------------------------------------------------------------------------
(* The inductive invariant *)

\* The array is unallocated or of at least the smallest capacity, and a store
\* that has passed the growth test fits; outside the loops scan is 0.
GrowthInv ==
  /\ capacity = 0 \/ capacity >= MinCapacity
  /\ pc \in {"idle", "insert"} => scan = 0
  /\ pc = "insert" => 4 * (count + 1) <= 3 * capacity

\* While adjust_capacity runs, the new array is free of tombstones, findable,
\* and holds exactly the live entries passed so far.
RehashInv ==
  pc = "rehash" =>
    /\ count <= scan
    /\ \A i \in Slots(GrowCapacity(capacity)) : fresh[i].key = NoKey => fresh[i] = Empty
    /\ Findable(fresh, GrowCapacity(capacity))
    /\ {fresh[j] : j \in Live(fresh)} = {entries[i] : i \in {j \in Live(entries) : j < scan}}

IndInv ==
  /\ TypeOK
  /\ CountIsUsed
  /\ EveryKeyFound
  /\ GrowthInv
  /\ RehashInv

\* Growing at least doubles what there was to move, so that everything moved
\* and one entry more pass the growth test of the new array.
LEMMA GrowthFits ==
  ASSUME NEW cap \in Nat, cap = 0 \/ cap >= MinCapacity
  PROVE  /\ GrowCapacity(cap) \in Nat \ {0}
         /\ GrowCapacity(cap) >= MinCapacity
         /\ cap < GrowCapacity(cap)
         /\ 4 * (cap + 1) <= 3 * GrowCapacity(cap)
BY TableAssumption DEF GrowCapacity

\* In a state of the invariant every search of either array ends.
LEMMA SearchesEnd ==
  ASSUME IndInv, NEW k \in Keys
  PROVE  /\ capacity > 0 => Stops(entries, capacity, k) # {}
         /\ pc = "rehash" => Stops(fresh, GrowCapacity(capacity), k) # {}
<1> USE DEF IndInv, TypeOK, CountIsUsed
<1>1. ASSUME capacity > 0
      PROVE  Stops(entries, capacity, k) # {}
  <2>1. Cardinality(Used(entries)) \in Nat
    BY UsedFinite
  <2>2. Cardinality(Used(entries)) < capacity /\ capacity \in Nat \ {0}
    BY <1>1, <2>1
  <2>3. PICK i \in Slots(capacity) : entries[i] = Empty
    BY <2>2, EmptySlotRemains
  <2> QED
    BY <2>2, <2>3, SearchStops
<1>2. ASSUME pc = "rehash"
      PROVE  Stops(fresh, GrowCapacity(capacity), k) # {}
  <2> DEFINE cap == GrowCapacity(capacity)
  <2>1. cap \in Nat \ {0} /\ capacity < cap
    BY GrowthFits DEF GrowthInv
  <2>2. fresh \in [Slots(cap) -> Entry]
    BY <1>2
  <2>3. Cardinality(Used(fresh)) < cap
    BY <1>2, <2>1 DEF RehashInv
  <2> HIDE DEF cap
  <2>4. PICK i \in Slots(cap) : fresh[i] = Empty
    BY <2>1, <2>2, <2>3, EmptySlotRemains
  <2> QED
    BY <2>1, <2>2, <2>4, SearchStops DEF cap
<1> QED
  BY <1>1, <1>2

LEMMA InitInvariant == Init => IndInv
<1> SUFFICES ASSUME Init
             PROVE  IndInv
  OBVIOUS
<1>1. Slots(0) = {}
  BY DEF Slots
<1>2. Used(EmptyArray(0)) = {} /\ Live(EmptyArray(0)) = {}
  BY <1>1 DEF Used, Live, EmptyArray
<1>3. TypeOK
  BY <1>1, TableAssumption DEF Init, TypeOK, EmptyArray, NoCall, NoAnswer, Entry
<1>4. CountIsUsed
  BY <1>2, FS_EmptySet DEF Init, CountIsUsed
<1>5. EveryKeyFound /\ GrowthInv /\ RehashInv
  BY <1>2 DEF Init, EveryKeyFound, Findable, GrowthInv, RehashInv
<1> QED
  BY <1>3, <1>4, <1>5 DEF IndInv

\* What a call answers has the type of an answer.
LEMMA AnswerType ==
  /\ NoAnswer \in [ok : BOOLEAN, out : SUBSET Values]
  /\ \A r \in BOOLEAN, o \in SUBSET Values :
       Answer(r, o) \in [ok : BOOLEAN, out : SUBSET Values]
  /\ Answer(TRUE, {}) \in [ok : BOOLEAN, out : SUBSET Values]
  /\ \A v \in Values : Answer(TRUE, {v}) \in [ok : BOOLEAN, out : SUBSET Values]
BY DEF NoAnswer, Answer

LEMMA GetKeepsInvariant ==
  ASSUME IndInv, NEW k \in Keys, TableGet(k)
  PROVE  IndInv'
<1>1. result' \in [ok : BOOLEAN, out : SUBSET Values]
  <2> DEFINE i == FindEntry(entries, capacity, k)
  <2>1. ASSUME count > 0
        PROVE  entries[i].value \in Values
    <3>1. capacity \in Nat \ {0}
      BY <2>1, UsedFinite DEF IndInv, TypeOK, CountIsUsed, TableGet
    <3>2. i \in Slots(capacity)
      BY <3>1, SearchesEnd, FindEntryEnds DEF IndInv, TypeOK
    <3> QED
      BY <3>2 DEF IndInv, TypeOK, Entry
  <2>2. count \in Nat
    BY DEF IndInv, TypeOK
  <2>3. CASE count = 0 \/ entries[i].key = NoKey
    BY <2>3, AnswerType DEF TableGet
  <2>4. CASE ~(count = 0 \/ entries[i].key = NoKey)
    <3>1. result' = Answer(TRUE, {entries[i].value})
      BY <2>4, Zenon DEF TableGet
    <3>2. count > 0
      BY <2>2, <2>4
    <3>3. entries[i].value \in Values
      BY <2>1, <3>2
    <3> HIDE DEF i
    <3> QED
      BY <3>1, <3>3, AnswerType
  <2> QED
    BY <2>3, <2>4
<1> QED
  BY <1>1 DEF TableGet, IndInv, TypeOK, CountIsUsed, EveryKeyFound, GrowthInv, RehashInv

\* Turning a live entry into a tombstone disturbs neither the count nor a search.
LEMMA BuryKeeps ==
  ASSUME IndInv, NEW i \in Live(entries)
  PROVE  LET new == [entries EXCEPT ![i] = Tombstone]
         IN  /\ new \in [Slots(capacity) -> Entry]
             /\ Used(new) = Used(entries)
             /\ Findable(new, capacity)
<1> DEFINE new == [entries EXCEPT ![i] = Tombstone]
<1>1. /\ entries \in [Slots(capacity) -> Entry] /\ i \in Slots(capacity)
      /\ entries[i].key # NoKey /\ capacity \in Nat \ {0}
  BY DEF IndInv, TypeOK, Live, Slots
<1>2. Tombstone \in Entry /\ Tombstone # Empty /\ entries[i] # Empty
  BY <1>1, TableAssumption DEF Tombstone, Entry, Empty
<1>3. new \in [Slots(capacity) -> Entry]
  BY <1>1, <1>2
<1>4. Used(new) = Used(entries)
  BY <1>1, <1>2 DEF Used
<1>5. Findable(new, capacity)
  BY <1>1, TombstoneKeepsFindable DEF IndInv, EveryKeyFound
<1> QED
  BY <1>3, <1>4, <1>5

LEMMA DeleteKeepsInvariant ==
  ASSUME IndInv, NEW k \in Keys, TableDelete(k)
  PROVE  IndInv'
<1> DEFINE i == FindEntry(entries, capacity, k)
<1> USE DEF IndInv, TypeOK
<1>1. result' \in [ok : BOOLEAN, out : SUBSET Values]
  <2>1. result' = NoAnswer \/ result' = Answer(TRUE, {})
    BY DEF TableDelete
  <2> QED
    BY <2>1, AnswerType
<1>2. CASE entries' = entries
  BY <1>1, <1>2 DEF TableDelete, CountIsUsed, EveryKeyFound, GrowthInv, RehashInv
<1>3. CASE /\ count > 0
           /\ entries[i].key # NoKey
           /\ entries' = [entries EXCEPT ![i] = Tombstone]
  <2>1. capacity \in Nat \ {0}
    BY <1>3, UsedFinite DEF CountIsUsed, TableDelete
  <2>2. i \in Slots(capacity)
    BY <2>1, SearchesEnd, FindEntryEnds
  <2> HIDE DEF i
  <2>3. i \in Live(entries)
    BY <1>3, <2>2 DEF Live
  <2>4. /\ entries' \in [Slots(capacity) -> Entry]
        /\ Used(entries') = Used(entries)
        /\ Findable(entries', capacity)
    BY <1>3, <2>3, BuryKeeps
  <2>5. CountIsUsed' /\ EveryKeyFound'
    BY <2>4 DEF CountIsUsed, EveryKeyFound, TableDelete
  <2> QED
    BY <1>1, <2>4, <2>5 DEF TableDelete, GrowthInv, RehashInv
<1> QED
  <2>1. entries' = entries \/ (/\ ~(count = 0 \/ entries[i].key = NoKey)
                              /\ entries' = [entries EXCEPT ![i] = Tombstone])
    BY DEF TableDelete
  <2> QED
    BY <1>2, <1>3, <2>1

LEMMA SetKeepsInvariant ==
  ASSUME IndInv, NEW k \in Keys, NEW v \in Values, TableSet(k, v)
  PROVE  IndInv'
<1> USE DEF IndInv, TypeOK
<1>1. call' \in Entry /\ call'.key \in Keys /\ scan' = 0
  BY DEF TableSet, Entry
<1>2. CASE MustGrow(count, capacity)
  <2> DEFINE cap == GrowCapacity(capacity)
  <2>1. cap \in Nat \ {0}
    BY GrowthFits DEF GrowthInv
  <2>2. pc' = "rehash" /\ count' = 0 /\ fresh' = EmptyArray(cap)
    BY <1>2 DEF TableSet
  <2> HIDE DEF cap
  <2>3. EmptyArray(cap) \in [Slots(cap) -> Entry]
    BY TableAssumption DEF EmptyArray, Empty, Entry
  <2>4. Used(EmptyArray(cap)) = {} /\ Live(EmptyArray(cap)) = {}
    BY DEF Used, Live, EmptyArray, Empty
  <2>5. TypeOK'
    BY <1>1, <2>2, <2>3 DEF TableSet, cap
  <2>6. CountIsUsed'
    BY <2>2, <2>4, FS_EmptySet DEF CountIsUsed, TableSet
  <2>7. EveryKeyFound' /\ GrowthInv'
    BY <2>2 DEF TableSet, EveryKeyFound, GrowthInv
  <2>8. RehashInv'
    <3>1. {j \in Live(entries') : j < scan'} = {}
      BY <1>1 DEF Live, Slots, TableSet
    <3> QED
      BY <1>1, <2>2, <2>4, <3>1 DEF RehashInv, TableSet, Findable, EmptyArray, cap
  <2> QED
    BY <2>5, <2>6, <2>7, <2>8
<1>3. CASE ~MustGrow(count, capacity)
  <2>1. pc' = "insert" /\ UNCHANGED <<fresh, count, capacity, entries, result>> /\ pc = "idle"
    BY <1>3 DEF TableSet
  <2> QED
    BY <1>1, <1>3, <2>1
       DEF CountIsUsed, EveryKeyFound, GrowthInv, RehashInv, MustGrow
<1> QED
  BY <1>2, <1>3

LEMMA RehashDoneKeepsInvariant ==
  ASSUME IndInv, RehashDone
  PROVE  IndInv'
<1> USE DEF IndInv, TypeOK
<1> DEFINE cap == GrowCapacity(capacity)
<1>1. /\ cap \in Nat \ {0} /\ cap >= MinCapacity /\ 4 * (capacity + 1) <= 3 * cap
  BY GrowthFits DEF GrowthInv
<1>2. /\ pc' = "insert" /\ entries' = fresh /\ capacity' = cap /\ fresh' = EmptyArray(0)
      /\ scan' = 0 /\ count' = count /\ count <= capacity /\ pc = "rehash"
  BY DEF RehashDone, RehashInv
<1> HIDE DEF cap
<1>3. EmptyArray(0) \in [Slots(0) -> Entry]
  BY DEF EmptyArray, Slots
<1>4. TypeOK'
  BY <1>1, <1>2, <1>3 DEF RehashDone, cap
<1>5. CountIsUsed'
  BY <1>1, <1>2 DEF CountIsUsed
<1>6. EveryKeyFound' /\ GrowthInv' /\ RehashInv'
  BY <1>1, <1>2 DEF EveryKeyFound, GrowthInv, RehashInv, cap
<1> QED
  BY <1>4, <1>5, <1>6

LEMMA InsertKeepsInvariant ==
  ASSUME IndInv, Insert
  PROVE  IndInv'
<1> USE DEF IndInv, TypeOK
<1> DEFINE i == FindEntry(entries, capacity, call.key)
<1>1. /\ capacity \in Nat \ {0} /\ call \in Entry /\ call.key \in Keys
      /\ count = Cardinality(Used(entries)) /\ 4 * (count + 1) <= 3 * capacity
  BY DEF Insert, GrowthInv, CountIsUsed
<1>2. Stops(entries, capacity, call.key) # {}
  BY <1>1, SearchesEnd
<1>3. i \in Slots(capacity) /\ entries[i].key \in {call.key, NoKey} /\ entries[i] \in Entry
  BY <1>1, <1>2, FindEntryEnds
<1>4. EveryKeyFound'
  <2>1. call = [key |-> call.key, value |-> call.value] /\ call.value \in Values
    BY <1>1 DEF Entry
  <2>2. Findable([entries EXCEPT ![i] = [key |-> call.key, value |-> call.value]], capacity)
    BY <1>1, <1>2, <2>1, StoreKeepsFindable DEF EveryKeyFound
  <2>3. Findable([entries EXCEPT ![i] = call], capacity)
    BY <2>1, <2>2
  <2> QED
    BY <2>3 DEF EveryKeyFound, Insert
<1> HIDE DEF i
<1>5. /\ entries' = [entries EXCEPT ![i] = call] /\ capacity' = capacity /\ pc' = "idle"
      /\ count' = IF entries[i].key = NoKey /\ entries[i].value = Nil THEN count + 1 ELSE count
  BY DEF Insert, i
<1>6. call # Empty
  BY <1>1, TableAssumption DEF Empty
<1>7. entries[i] = Empty <=> entries[i].key = NoKey /\ entries[i].value = Nil
  BY <1>3 DEF Entry, Empty
<1>8. Cardinality(Used(entries')) = count'
  <2>1. Cardinality(Used([entries EXCEPT ![i] = call])) =
          IF entries[i] = Empty THEN Cardinality(Used(entries)) + 1
                                ELSE Cardinality(Used(entries))
    <3>1. \A j \in Slots(capacity), e \in Entry : e # Empty =>
            Cardinality(Used([entries EXCEPT ![j] = e])) =
              IF entries[j] = Empty THEN Cardinality(Used(entries)) + 1
                                    ELSE Cardinality(Used(entries))
      <4>1. entries \in [Slots(capacity) -> Entry] /\ capacity \in Nat
        OBVIOUS
      <4> QED
        BY <4>1, UsedAfterStore
    <3> QED
      BY <1>1, <1>3, <1>6, <3>1
  <2> QED
    BY <1>1, <1>5, <1>7, <2>1
<1>9. CountIsUsed'
  BY <1>1, <1>5, <1>8 DEF CountIsUsed
<1>10. TypeOK'
  <2>1. result' \in [ok : BOOLEAN, out : SUBSET Values]
    <3>1. result' = Answer(entries[i].key = NoKey, {})
      BY DEF Insert, i
    <3> QED
      BY <3>1, AnswerType
  <2>2. call' \in Entry
    BY TableAssumption DEF Insert, NoCall, Entry
  <2>3. entries' \in [Slots(capacity') -> Entry] /\ count' \in Nat
    BY <1>1, <1>3, <1>5
  <2> QED
    BY <1>5, <2>1, <2>2, <2>3 DEF Insert
<1> QED
  BY <1>4, <1>5, <1>9, <1>10 DEF GrowthInv, RehashInv, Insert

\* The step of adjust_capacity's loop that needs the whole invariant: the key
\* moved is not in the new array yet, because no two slots of the old one
\* hold the same key.
LEMMA RehashSlotKeepsInvariant ==
  ASSUME IndInv, RehashSlot
  PROVE  IndInv'
<1> DEFINE cap == GrowCapacity(capacity)
           e == entries[scan]
           f == FindEntry(fresh, cap, e.key)
           Moved(n) == {entries[i] : i \in {j \in Live(entries) : j < n}}
<1>1. /\ pc = "rehash" /\ scan < capacity /\ scan' = scan + 1
      /\ UNCHANGED <<capacity, entries, pc, call, result>>
  BY DEF RehashSlot
<1>2. /\ capacity \in Nat /\ scan \in Nat /\ count \in Nat /\ scan \in Slots(capacity)
      /\ entries \in [Slots(capacity) -> Entry] /\ e \in Entry
      /\ count = Cardinality(Used(fresh)) /\ count <= scan
  BY <1>1 DEF IndInv, TypeOK, CountIsUsed, RehashInv, Slots
<1>3. cap \in Nat \ {0} /\ fresh \in [Slots(cap) -> Entry]
  BY <1>1, GrowthFits DEF IndInv, TypeOK, GrowthInv
<1>4. /\ \A i \in Slots(cap) : fresh[i].key = NoKey => fresh[i] = Empty
      /\ Findable(fresh, cap)
      /\ {fresh[j] : j \in Live(fresh)} = Moved(scan)
  BY <1>1 DEF IndInv, RehashInv
<1>5. /\ scan' \in 0 .. capacity' /\ (EveryKeyFound)' /\ (GrowthInv)'
  BY <1>1, <1>2 DEF IndInv, EveryKeyFound, GrowthInv
<1>6. CASE e.key = NoKey
  <2>1. UNCHANGED <<fresh, count>>
    BY <1>6 DEF RehashSlot
  <2>2. Moved(scan + 1) = Moved(scan)
    <3>1. \A j \in Live(entries) : j < scan + 1 <=> j < scan
      BY <1>2, <1>6 DEF Live, Slots
    <3> QED
      BY <3>1
  <2> HIDE DEF cap
  <2>3. RehashInv'
    BY <1>1, <1>2, <1>4, <2>1, <2>2 DEF RehashInv, cap
  <2> QED
    BY <1>1, <1>5, <2>1, <2>3 DEF IndInv, TypeOK, CountIsUsed
<1>7. CASE e.key # NoKey
  <2>1. e.key \in Keys /\ e.value \in Values /\ e = [key |-> e.key, value |-> e.value]
    BY <1>2, <1>7 DEF Entry
  <2>2. Stops(fresh, cap, e.key) # {}
    BY <1>1, <2>1, SearchesEnd
  <2>3. f \in Slots(cap) /\ fresh[f].key \in {e.key, NoKey}
    BY <1>3, <2>1, <2>2, FindEntryEnds
  <2>4. fresh' = [fresh EXCEPT ![f] = e] /\ count' = count + 1
    BY <1>7 DEF RehashSlot
  <2>5. Findable(fresh', cap)
    <3>1. Findable([fresh EXCEPT ![f] = [key |-> e.key, value |-> e.value]], cap)
      BY <1>3, <1>4, <2>1, <2>2, StoreKeepsFindable
    <3> QED
      BY <2>1, <2>4, <3>1
  <2>6. fresh[f].key = NoKey
    <3> SUFFICES ASSUME fresh[f].key = e.key
                 PROVE  FALSE
      BY <2>3
    <3>1. f \in Live(fresh)
      BY <1>3, <1>7, <2>3 DEF Live
    <3>2. PICK i \in Live(entries) : i < scan /\ fresh[f] = entries[i]
      BY <1>4, <3>1
    <3>3. scan \in Live(entries)
      BY <1>2, <1>7 DEF Live
    <3>4. FindEntry(entries, capacity, e.key) = i /\ FindEntry(entries, capacity, e.key) = scan
      BY <3>2, <3>3 DEF IndInv, EveryKeyFound, Findable
    <3> QED
      BY <1>2, <3>2, <3>4
  <2> HIDE DEF cap, f, e
  <2>7. fresh[f] = Empty /\ e # Empty
    BY <1>4, <1>7, <2>3, <2>6 DEF Empty
  <2>8. fresh' \in [Slots(cap) -> Entry] /\ Cardinality(Used(fresh')) = count'
    <3>1. \A i \in Slots(cap), x \in Entry : x # Empty =>
            Cardinality(Used([fresh EXCEPT ![i] = x])) =
              IF fresh[i] = Empty THEN Cardinality(Used(fresh)) + 1
                                  ELSE Cardinality(Used(fresh))
      BY <1>3, UsedAfterStore
    <3> QED
      BY <1>2, <1>3, <2>3, <2>4, <2>7, <3>1
  <2>9. \A i \in Slots(cap) : fresh'[i].key = NoKey => fresh'[i] = Empty
    BY <1>3, <1>4, <1>7, <2>3, <2>4
  <2>10. {fresh'[j] : j \in Live(fresh')} = Moved(scan + 1)
    <3>1. Live(fresh') = Live(fresh) \cup {f} /\ f \notin Live(fresh) /\ fresh'[f] = e
      BY <1>3, <1>7, <2>3, <2>4, <2>6 DEF Live
    <3>2. {fresh'[j] : j \in Live(fresh')} = {fresh[j] : j \in Live(fresh)} \cup {e}
      <4>1. \A j \in Live(fresh) : fresh'[j] = fresh[j]
        BY <1>3, <2>3, <2>4, <3>1 DEF Live
      <4> QED
        BY <3>1, <4>1
    <3>3. {j \in Live(entries) : j < scan + 1} = {j \in Live(entries) : j < scan} \cup {scan}
      BY <1>2, <1>7 DEF Live, Slots, e
    <3>4. Moved(scan + 1) = Moved(scan) \cup {e}
      BY <3>3 DEF e
    <3> QED
      BY <1>4, <3>2, <3>4
  <2>11. TypeOK'
    BY <1>1, <1>2, <1>5, <2>4, <2>8 DEF IndInv, TypeOK, cap
  <2>12. CountIsUsed'
    BY <1>1, <2>8 DEF IndInv, CountIsUsed
  <2>13. RehashInv'
    <3>1. {entries'[i] : i \in {j \in Live(entries') : j < scan'}} = Moved(scan + 1)
      BY <1>1
    <3>2. GrowCapacity(capacity') = cap /\ count' <= scan'
      BY <1>1, <1>2, <2>4 DEF cap
    <3> HIDE DEF Moved
    <3> QED
      BY <2>5, <2>9, <2>10, <3>1, <3>2 DEF RehashInv
  <2> QED
    BY <1>5, <2>11, <2>12, <2>13 DEF IndInv
<1> QED
  BY <1>6, <1>7

\* table_find_string writes nothing of the table.
LEMMA FindStringKeepsInvariant ==
  ASSUME IndInv, NEW k \in Keys, TableFindString(k)
  PROVE  IndInv'
<1>1. result' \in [ok : BOOLEAN, out : SUBSET Values]
  BY DEF TableFindString, Answer
<1> QED
  BY <1>1 DEF TableFindString, IndInv, TypeOK, CountIsUsed, EveryKeyFound, GrowthInv, RehashInv

LEMMA FreeKeepsInvariant ==
  ASSUME IndInv, TableFree
  PROVE  IndInv'
<1>1. /\ pc' = "idle" /\ count' = 0 /\ capacity' = 0 /\ entries' = EmptyArray(0)
      /\ pc = "idle" /\ UNCHANGED <<call, fresh, scan, result>>
  BY DEF TableFree
<1>2. Slots(0) = {}
  BY DEF Slots
<1>3. Used(EmptyArray(0)) = {} /\ Live(EmptyArray(0)) = {}
  BY <1>2 DEF Used, Live, EmptyArray
<1>4. scan = 0
  BY <1>1 DEF IndInv, GrowthInv
<1>5. TypeOK'
  BY <1>1, <1>2, <1>4 DEF IndInv, TypeOK, EmptyArray
<1>6. CountIsUsed'
  BY <1>1, <1>3, FS_EmptySet DEF CountIsUsed
<1>7. EveryKeyFound' /\ GrowthInv' /\ RehashInv'
  BY <1>1, <1>3, <1>4 DEF EveryKeyFound, Findable, GrowthInv, RehashInv
<1> QED
  BY <1>5, <1>6, <1>7 DEF IndInv

LEMMA RemoveWhiteKeepsInvariant ==
  ASSUME IndInv, RemoveWhite \/ RemoveWhiteDone
  PROVE  IndInv'
<1>1. /\ UNCHANGED <<count, capacity, entries, call, fresh, result>>
      /\ pc \in {"idle", "remove"} /\ pc' \in {"idle", "remove"}
      /\ scan' = scan \/ scan' = 0
      /\ pc' = "idle" => scan' = 0
  BY DEF RemoveWhite, RemoveWhiteDone
<1> QED
  BY <1>1 DEF IndInv, TypeOK, CountIsUsed, EveryKeyFound, GrowthInv, RehashInv

\* The search of table_delete ends on the very slot the loop stands at.
LEMMA RemoveWhiteSlotKeepsInvariant ==
  ASSUME IndInv, NEW white \in BOOLEAN, RemoveWhiteSlot(white)
  PROVE  IndInv'
<1>1. /\ pc = "remove" /\ pc' = "remove" /\ scan < capacity /\ scan' = scan + 1
      /\ UNCHANGED <<count, capacity, call, fresh, result>>
  BY DEF RemoveWhiteSlot
<1>2. /\ capacity \in Nat /\ scan \in Slots(capacity) /\ scan' \in 0 .. capacity
      /\ entries \in [Slots(capacity) -> Entry]
  BY <1>1 DEF IndInv, TypeOK, Slots
<1>3. CASE entries' = entries
  BY <1>1, <1>2, <1>3 DEF IndInv, TypeOK, CountIsUsed, EveryKeyFound, GrowthInv, RehashInv
<1>4. CASE entries[scan].key # NoKey /\ entries' # entries
  <2>1. scan \in Live(entries)
    BY <1>2, <1>4 DEF Live
  <2>2. entries' = [entries EXCEPT ![scan] = Tombstone]
    BY <1>4, <2>1 DEF RemoveWhiteSlot, IndInv, EveryKeyFound, Findable
  <2>3. /\ entries' \in [Slots(capacity) -> Entry]
        /\ Used(entries') = Used(entries)
        /\ Findable(entries', capacity)
    BY <2>1, <2>2, BuryKeeps
  <2>4. TypeOK' /\ CountIsUsed'
    BY <1>1, <1>2, <2>3 DEF IndInv, TypeOK, CountIsUsed
  <2>5. EveryKeyFound' /\ GrowthInv' /\ RehashInv'
    BY <1>1, <2>3 DEF IndInv, EveryKeyFound, GrowthInv, RehashInv
  <2> QED
    BY <2>4, <2>5 DEF IndInv
<1> QED
  BY <1>3, <1>4 DEF RemoveWhiteSlot

LEMMA StutterKeepsInvariant ==
  ASSUME IndInv, UNCHANGED vars
  PROVE  IndInv'
BY DEF IndInv, TypeOK, CountIsUsed, EveryKeyFound, GrowthInv, RehashInv, vars

\* IndInv is an invariant of the table, for any keys, hash and capacity.
THEOREM TableInvariant == Spec => []IndInv
<1>1. IndInv /\ [Next]_vars => IndInv'
  <2> SUFFICES ASSUME IndInv, [Next]_vars
               PROVE  IndInv'
    OBVIOUS
  <2>1. CASE \E k \in Keys : TableGet(k)
    BY <2>1, GetKeepsInvariant
  <2>2. CASE \E k \in Keys : TableDelete(k)
    BY <2>2, DeleteKeepsInvariant
  <2>3. CASE \E k \in Keys, v \in Values : TableSet(k, v)
    BY <2>3, SetKeepsInvariant
  <2>4. CASE RehashSlot
    BY <2>4, RehashSlotKeepsInvariant
  <2>5. CASE RehashDone
    BY <2>5, RehashDoneKeepsInvariant
  <2>6. CASE Insert
    BY <2>6, InsertKeepsInvariant
  <2>7. CASE \E k \in Keys : TableFindString(k)
    BY <2>7, FindStringKeepsInvariant
  <2>8. CASE TableFree
    BY <2>8, FreeKeepsInvariant
  <2>9. CASE RemoveWhite \/ RemoveWhiteDone
    BY <2>9, RemoveWhiteKeepsInvariant
  <2>10. CASE \E white \in BOOLEAN : RemoveWhiteSlot(white)
    BY <2>10, RemoveWhiteSlotKeepsInvariant
  <2>11. CASE UNCHANGED vars
    BY <2>11, StutterKeepsInvariant
  <2> QED
    BY <2>1, <2>2, <2>3, <2>4, <2>5, <2>6, <2>7, <2>8, <2>9, <2>10, <2>11 DEF Next
<1> QED
  BY <1>1, InitInvariant, PTL DEF Spec

\* The table's fields keep their types (TypeOK).
THEOREM TableTypeOK == Spec => []TypeOK
BY TableInvariant, PTL DEF IndInv

\* `count' is exact and a quarter of the slots is never used (CountIsUsed).
THEOREM TableCountIsUsed == Spec => []CountIsUsed
BY TableInvariant, PTL DEF IndInv

\* Every live entry is where the search for its key ends (EveryKeyFound).
THEOREM TableEveryKeyFound == Spec => []EveryKeyFound
BY TableInvariant, PTL DEF IndInv

\* No search of find_entry runs for ever (ProbeTerminates).
THEOREM TableProbeTerminates == Spec => []ProbeTerminates
<1>1. IndInv => ProbeTerminates
  BY SearchesEnd DEF ProbeTerminates
<1> QED
  BY <1>1, TableInvariant, PTL

-----------------------------------------------------------------------------
(* The table implements a finite map *)

\* The search for a text and the search for its object agree on what is present.
LEMMA FindStringEnds ==
  ASSUME NEW cap \in Nat \ {0}, NEW es \in [Slots(cap) -> Entry], NEW k \in Keys,
         Stops(es, cap, k) # {}
  PROVE  es[FindEntry(es, cap, k)].key # NoKey <=> FindString(es, cap, k)
<1> DEFINE last == Probe(k, cap, Least(Stops(es, cap, k)))
           grave == Probe(k, cap, Least(Graves(es, cap, k)))
<1>1. Stops(es, cap, k) \subseteq Nat /\ Graves(es, cap, k) \subseteq Nat
  BY DEF Stops, Graves, Slots
<1>2. Least(Stops(es, cap, k)) \in Stops(es, cap, k)
  BY <1>1, LeastProperty
<1>3. es[last] = Empty \/ es[last].key = k
  BY <1>2 DEF Stops
<1>4. Graves(es, cap, k) # {} => es[grave].key = NoKey
  <2>1. Graves(es, cap, k) # {} => Least(Graves(es, cap, k)) \in Graves(es, cap, k)
    BY <1>1, LeastProperty
  <2> QED
    BY <2>1 DEF Graves
<1>5. k # NoKey /\ Empty.key = NoKey
  BY TableAssumption DEF Empty
<1>6. FindEntry(es, cap, k) =
        IF es[last].key = k \/ Graves(es, cap, k) = {} THEN last ELSE grave
  BY DEF FindEntry
<1>7. FindString(es, cap, k) <=> es[last].key = k
  BY DEF FindString
<1> HIDE DEF last, grave
<1> QED
  BY <1>3, <1>4, <1>5, <1>6, <1>7

\* The keys of the map are the keys of the live slots.
LEMMA DictDomain ==
  ASSUME NEW es
  PROVE  /\ DOMAIN DictOf(es) = {es[i].key : i \in Live(es)}
         /\ \A k : k \in DOMAIN DictOf(es) <=> \E i \in Live(es) : es[i].key = k
<1>1. DOMAIN DictOf(es) = {es[i].key : i \in Live(es)}
  BY DEF DictOf
<1> QED
  BY <1>1

\* In a findable array no two slots share a key, so the map reads off each.
LEMMA DictAt ==
  ASSUME NEW cap, NEW es, Findable(es, cap)
  PROVE  \A i \in Live(es) : DictOf(es)[es[i].key] = es[i].value
<1>1. \A i, j \in Live(es) : es[i].key = es[j].key => i = j
  BY DEF Findable
<1>2. ASSUME NEW i \in Live(es)
      PROVE  DictOf(es)[es[i].key] = es[i].value
  <2>1. (CHOOSE j \in Live(es) : es[j].key = es[i].key) = i
    BY <1>1
  <2> QED
    BY <2>1 DEF DictOf
<1> QED
  BY <1>2 DEF DictOf

\* Two arrays with the same live entries stand for the same map.
LEMMA DictOfSameEntries ==
  ASSUME NEW cap1, NEW es1, Findable(es1, cap1), NEW cap2, NEW es2, Findable(es2, cap2),
         {es1[i] : i \in Live(es1)} = {es2[i] : i \in Live(es2)}
  PROVE  DictOf(es1) = DictOf(es2)
<1>1. \A i \in Live(es1) : \E j \in Live(es2) : es1[i] = es2[j]
  OBVIOUS
<1>2. \A j \in Live(es2) : \E i \in Live(es1) : es1[i] = es2[j]
  OBVIOUS
<1>3. DOMAIN DictOf(es1) = DOMAIN DictOf(es2)
  <2>1. {es1[i].key : i \in Live(es1)} = {es2[i].key : i \in Live(es2)}
    BY <1>1, <1>2
  <2> QED
    BY <2>1, DictDomain
<1>4. ASSUME NEW k \in DOMAIN DictOf(es1)
      PROVE  DictOf(es1)[k] = DictOf(es2)[k]
  <2>1. PICK i \in Live(es1) : es1[i].key = k
    <3>1. k \in {es1[i].key : i \in Live(es1)}
      BY DictDomain
    <3> QED
      BY <3>1
  <2>2. PICK j \in Live(es2) : es1[i] = es2[j]
    BY <1>1
  <2>3. DictOf(es1)[k] = es1[i].value
    BY <2>1, DictAt
  <2>4. DictOf(es2)[k] = es2[j].value
    BY <2>1, <2>2, DictAt
  <2> QED
    BY <2>2, <2>3, <2>4
<1> QED
  BY <1>3, <1>4 DEF DictOf

\* A search tells membership and finds the value.
LEMMA DictLookup ==
  ASSUME NEW cap \in Nat \ {0}, NEW es \in [Slots(cap) -> Entry], Findable(es, cap),
         NEW k \in Keys, Stops(es, cap, k) # {}
  PROVE  LET f == FindEntry(es, cap, k)
         IN  /\ k \in DOMAIN DictOf(es) <=> es[f].key # NoKey
             /\ es[f].key # NoKey => DictOf(es)[k] = es[f].value
<1> DEFINE f == FindEntry(es, cap, k)
<1>1. f \in Slots(cap) /\ es[f].key \in {k, NoKey} /\ k # NoKey
  BY FindEntryEnds, TableAssumption
<1>2. ASSUME NEW i \in Live(es), es[i].key = k
      PROVE  i = f
  BY <1>2 DEF Findable
<1>3. es[f].key # NoKey => f \in Live(es) /\ es[f].key = k
  BY <1>1 DEF Live
<1> HIDE DEF f
<1>4. k \in DOMAIN DictOf(es) <=> es[f].key # NoKey
  <2>1. k \in DOMAIN DictOf(es) <=> \E i \in Live(es) : es[i].key = k
    BY DictDomain, Zenon
  <2> QED
    BY <1>1, <1>2, <1>3, <2>1
<1>5. es[f].key # NoKey => DictOf(es)[k] = es[f].value
  BY <1>3, DictAt
<1> QED
  BY <1>4, <1>5 DEF f

\* Storing updates the map at one key ...
LEMMA DictAfterStore ==
  ASSUME NEW cap \in Nat \ {0}, NEW es \in [Slots(cap) -> Entry], Findable(es, cap),
         NEW k \in Keys, NEW v \in Values, Stops(es, cap, k) # {}
  PROVE  DictOf([es EXCEPT ![FindEntry(es, cap, k)] = [key |-> k, value |-> v]]) =
           [x \in DOMAIN DictOf(es) \cup {k} |-> IF x = k THEN v ELSE DictOf(es)[x]]
<1> DEFINE f == FindEntry(es, cap, k)
           new == [es EXCEPT ![f] = [key |-> k, value |-> v]]
           d == [x \in DOMAIN DictOf(es) \cup {k} |-> IF x = k THEN v ELSE DictOf(es)[x]]
<1>1. f \in Slots(cap) /\ es[f].key \in {k, NoKey} /\ k # NoKey
  BY FindEntryEnds, TableAssumption
<1>2. Findable(new, cap)
  BY StoreKeepsFindable
<1>3. \A j \in Live(es) : j # f => es[j].key # k
  BY DEF Findable
<1> HIDE DEF f
<1>4. /\ Live(new) = Live(es) \cup {f}
      /\ new[f] = [key |-> k, value |-> v]
      /\ \A j \in Live(es) : j # f => new[j] = es[j]
      /\ f \in Live(es) => es[f].key = k
  BY <1>1 DEF Live
<1> HIDE DEF new
<1>5. DOMAIN DictOf(new) = DOMAIN d
  <2>1. {new[j].key : j \in Live(new)} = {es[j].key : j \in Live(es)} \cup {k}
    BY <1>3, <1>4
  <2> QED
    BY <2>1, DictDomain
<1>6. ASSUME NEW x \in DOMAIN d
      PROVE  DictOf(new)[x] = d[x]
  <2>1. CASE x = k
    <3>1. DictOf(new)[new[f].key] = new[f].value
      BY <1>2, <1>4, DictAt
    <3> QED
      BY <1>4, <2>1, <3>1
  <2>2. CASE x # k
    <3>1. PICK j \in Live(es) : es[j].key = x
      <4>1. x \in DOMAIN DictOf(es)
        BY <2>2
      <4> QED
        BY <4>1, DictDomain, Zenon
    <3>2. j # f /\ j \in Live(new) /\ new[j] = es[j]
      BY <1>4, <2>2, <3>1
    <3>3. DictOf(es)[es[j].key] = es[j].value
      BY DictAt
    <3>4. DictOf(new)[new[j].key] = new[j].value
      BY <1>2, <3>2, DictAt
    <3> QED
      BY <2>2, <3>1, <3>2, <3>3, <3>4
  <2> QED
    BY <2>1, <2>2
<1>7. DictOf(new) = d
  <2>1. DictOf(new) = [x \in DOMAIN DictOf(new) |-> DictOf(new)[x]]
    BY DEF DictOf
  <2>2. d = [x \in DOMAIN d |-> d[x]]
    OBVIOUS
  <2> HIDE DEF d
  <2> QED
    BY <1>5, <1>6, <2>1, <2>2
<1> QED
  BY <1>7 DEF f, new

\* ... and a tombstone removes one.
LEMMA DictAfterDelete ==
  ASSUME NEW cap \in Nat \ {0}, NEW es \in [Slots(cap) -> Entry], Findable(es, cap),
         NEW f \in Live(es)
  PROVE  DictOf([es EXCEPT ![f] = Tombstone]) =
           [x \in DOMAIN DictOf(es) \ {es[f].key} |-> DictOf(es)[x]]
<1> DEFINE k == es[f].key
           new == [es EXCEPT ![f] = Tombstone]
           d == [x \in DOMAIN DictOf(es) \ {k} |-> DictOf(es)[x]]
<1>1. f \in Slots(cap)
  BY DEF Live
<1>2. Findable(new, cap)
  BY <1>1, TombstoneKeepsFindable
<1>3. \A j \in Live(es) : j # f => es[j].key # k
  BY DEF Findable
<1>4. Live(new) = Live(es) \ {f} /\ \A j \in Live(es) : j # f => new[j] = es[j]
  BY <1>1 DEF Live, Tombstone
<1> HIDE DEF new
<1>5. DOMAIN DictOf(new) = DOMAIN d
  <2>1. {new[j].key : j \in Live(new)} = {es[j].key : j \in Live(es)} \ {k}
    BY <1>3, <1>4
  <2> QED
    BY <2>1, DictDomain
<1>6. ASSUME NEW x \in DOMAIN d
      PROVE  DictOf(new)[x] = d[x]
  <2>1. PICK j \in Live(es) : es[j].key = x
    <3>1. x \in DOMAIN DictOf(es)
      OBVIOUS
    <3> QED
      BY <3>1, DictDomain, Zenon
  <2>2. j # f /\ j \in Live(new) /\ new[j] = es[j]
    BY <1>4, <2>1
  <2>3. DictOf(es)[es[j].key] = es[j].value
    BY DictAt
  <2>4. DictOf(new)[new[j].key] = new[j].value
    BY <1>2, <2>2, DictAt
  <2> QED
    BY <2>1, <2>2, <2>3, <2>4
<1>7. DictOf(new) = d
  <2>1. DictOf(new) = [x \in DOMAIN DictOf(new) |-> DictOf(new)[x]]
    BY DEF DictOf
  <2>2. d = [x \in DOMAIN d |-> d[x]]
    OBVIOUS
  <2> HIDE DEF d
  <2> QED
    BY <1>5, <1>6, <2>1, <2>2
<1> QED
  BY <1>7 DEF new

LEMMA InitRefines == Init => M!Init
<1> SUFFICES ASSUME Init
             PROVE  M!Init
  OBVIOUS
<1>1. Live(entries) = {}
  BY DEF Init, Live, EmptyArray, Slots
<1>2. Dict = [k \in {} |-> k]
  BY <1>1 DEF Dict, DictOf
<1> QED
  BY <1>2 DEF Init, Doing, M!Init, NoAnswer, M!NoAnswer

\* A call of table_get is the map's Get.
LEMMA GetRefines ==
  ASSUME IndInv, NEW k \in Keys, TableGet(k)
  PROVE  M!Get(k)
<1> DEFINE i == FindEntry(entries, capacity, k)
<1>1. Dict' = Dict /\ Doing = "nothing" /\ Doing' = Doing
  BY DEF TableGet, Dict, Doing
<1>2. CASE count = 0
  <2>1. Live(entries) = {}
    <3>1. Used(entries) = {}
      BY <1>2, UsedFinite, FS_EmptySet DEF IndInv, TypeOK, CountIsUsed, TableGet
    <3> QED
      BY <3>1 DEF Used, Live, Empty
  <2>2. k \notin DOMAIN Dict
    BY <2>1, DictDomain DEF Dict
  <2> QED
    BY <1>1, <1>2, <2>2 DEF TableGet, M!Get, NoAnswer, M!NoAnswer
<1>3. CASE count # 0
  <2>1. capacity \in Nat \ {0}
    BY <1>3, UsedFinite DEF IndInv, TypeOK, CountIsUsed, TableGet
  <2>2. Stops(entries, capacity, k) # {}
    BY <2>1, SearchesEnd
  <2>3. /\ k \in DOMAIN Dict <=> entries[i].key # NoKey
        /\ entries[i].key # NoKey => Dict[k] = entries[i].value
    BY <2>1, <2>2, DictLookup DEF IndInv, TypeOK, EveryKeyFound, Dict
  <2>4. CASE entries[i].key = NoKey
    BY <1>1, <2>3, <2>4 DEF TableGet, M!Get, NoAnswer, M!NoAnswer
  <2>5. CASE entries[i].key # NoKey
    <3>1. result' = Answer(TRUE, {entries[i].value})
      BY <1>3, <2>5, Zenon DEF TableGet
    <3> QED
      BY <1>1, <2>3, <2>5, <3>1 DEF M!Get, Answer, M!Answer
  <2> QED
    BY <2>4, <2>5
<1> QED
  BY <1>2, <1>3

\* A call of table_delete is the map's Delete.
LEMMA DeleteRefines ==
  ASSUME IndInv, NEW k \in Keys, TableDelete(k)
  PROVE  M!Delete(k)
<1> DEFINE i == FindEntry(entries, capacity, k)
<1>1. /\ entries \in [Slots(capacity) -> Entry]
      /\ Doing = "nothing" /\ Doing' = Doing
  BY DEF IndInv, TypeOK, TableDelete, Doing
<1>2. CASE count = 0
  <2>1. Live(entries) = {}
    <3>1. Used(entries) = {}
      BY <1>2, UsedFinite, FS_EmptySet DEF IndInv, TypeOK, CountIsUsed, TableDelete
    <3> QED
      BY <3>1 DEF Used, Live, Empty
  <2>2. k \notin DOMAIN Dict /\ Dict = [x \in DOMAIN Dict \ {k} |-> Dict[x]]
    BY <2>1, DictDomain DEF Dict, DictOf
  <2>3. Dict' = Dict /\ result' = NoAnswer
    BY <1>2 DEF TableDelete, Dict
  <2>4. NoAnswer = M!Answer(k \in DOMAIN Dict, {})
    <3>1. (k \in DOMAIN Dict) = FALSE
      BY <2>2
    <3> QED
      BY <3>1 DEF NoAnswer, M!Answer
  <2> QED
    BY <1>1, <2>2, <2>3, <2>4 DEF M!Delete
<1>3. CASE count # 0
  <2>1. capacity \in Nat \ {0}
    BY <1>3, UsedFinite DEF IndInv, TypeOK, CountIsUsed, TableDelete
  <2>2. Stops(entries, capacity, k) # {}
    BY <2>1, SearchesEnd
  <2>3. k \in DOMAIN Dict <=> entries[i].key # NoKey
    BY <1>1, <2>1, <2>2, DictLookup DEF IndInv, EveryKeyFound, Dict
  <2>4. CASE entries[i].key = NoKey
    <3>1. Dict = [x \in DOMAIN Dict \ {k} |-> Dict[x]]
      <4>1. DOMAIN Dict \ {k} = DOMAIN Dict
        BY <2>3, <2>4
      <4> QED
        BY <4>1 DEF Dict, DictOf
    <3>2. Dict' = Dict /\ result' = NoAnswer
      BY <2>4 DEF TableDelete, Dict
    <3>3. NoAnswer = M!Answer(k \in DOMAIN Dict, {})
      <4>1. (k \in DOMAIN Dict) = FALSE
        BY <2>3, <2>4
      <4> QED
        BY <4>1 DEF NoAnswer, M!Answer
    <3> QED
      BY <1>1, <3>1, <3>2, <3>3 DEF M!Delete
  <2>5. CASE entries[i].key # NoKey
    <3>1. entries' = [entries EXCEPT ![i] = Tombstone] /\ result' = Answer(TRUE, {})
      BY <1>3, <2>5, Zenon DEF TableDelete
    <3>2. i \in Slots(capacity) /\ entries[i].key \in {k, NoKey}
      BY <1>1, <2>1, <2>2, FindEntryEnds
    <3> HIDE DEF i
    <3>3. i \in Live(entries) /\ entries[i].key = k
      BY <1>1, <2>5, <3>2 DEF Live
    <3>4. Dict' = [x \in DOMAIN Dict \ {k} |-> Dict[x]]
      <4>1. \A f \in Live(entries) :
              DictOf([entries EXCEPT ![f] = Tombstone]) =
                [x \in DOMAIN DictOf(entries) \ {entries[f].key} |-> DictOf(entries)[x]]
        BY <1>1, <2>1, DictAfterDelete DEF IndInv, EveryKeyFound
      <4> QED
        BY <3>1, <3>3, <4>1 DEF Dict
    <3> QED
      BY <1>1, <2>3, <2>5, <3>1, <3>4 DEF M!Delete, Answer, M!Answer
  <2> QED
    BY <2>4, <2>5
<1> QED
  BY <1>2, <1>3

\* The store at the end of table_set is the map's Set: the one step of the
\* call that the map sees.
LEMMA InsertRefines ==
  ASSUME IndInv, Insert
  PROVE  \E k \in Keys, v \in Values : M!Set(k, v)
<1> DEFINE i == FindEntry(entries, capacity, call.key)
<1>1. /\ capacity \in Nat \ {0} /\ entries \in [Slots(capacity) -> Entry]
      /\ call.key \in Keys /\ call.value \in Values
      /\ call = [key |-> call.key, value |-> call.value]
      /\ Findable(entries, capacity)
  BY DEF IndInv, TypeOK, Insert, GrowthInv, EveryKeyFound, Entry
<1>2. Stops(entries, capacity, call.key) # {}
  BY <1>1, SearchesEnd
<1>3. call.key \in DOMAIN Dict <=> entries[i].key # NoKey
  BY <1>1, <1>2, DictLookup DEF Dict
<1>4. Dict' = [x \in DOMAIN Dict \cup {call.key} |->
                 IF x = call.key THEN call.value ELSE Dict[x]]
  <2>1. DictOf([entries EXCEPT ![i] = [key |-> call.key, value |-> call.value]]) =
          [x \in DOMAIN DictOf(entries) \cup {call.key} |->
             IF x = call.key THEN call.value ELSE DictOf(entries)[x]]
    <3>1. \A k \in Keys, v \in Values : Stops(entries, capacity, k) # {} =>
            DictOf([entries EXCEPT ![FindEntry(entries, capacity, k)] = [key |-> k, value |-> v]]) =
              [x \in DOMAIN DictOf(entries) \cup {k} |-> IF x = k THEN v ELSE DictOf(entries)[x]]
      BY <1>1, DictAfterStore
    <3> QED
      BY <1>1, <1>2, <3>1
  <2>2. entries' = [entries EXCEPT ![i] = [key |-> call.key, value |-> call.value]]
    BY <1>1 DEF Insert
  <2> HIDE DEF i
  <2> QED
    BY <2>1, <2>2 DEF Dict
<1>5. result' = Answer(entries[i].key = NoKey, {})
  BY DEF Insert
<1> HIDE DEF i
<1>6. result' = M!Answer(call.key \notin DOMAIN Dict, {})
  <2>1. (entries[i].key = NoKey) = (call.key \notin DOMAIN Dict)
    BY <1>3
  <2> QED
    BY <1>5, <2>1 DEF Answer, M!Answer
<1>7. Doing = "storing" /\ Doing' = "nothing"
  BY DEF Insert, Doing
<1> QED
  BY <1>1, <1>4, <1>6, <1>7 DEF M!Set

\* Growing the array is invisible to the map.
LEMMA RehashDoneRefines ==
  ASSUME IndInv, RehashDone
  PROVE  Dict' = Dict /\ Doing' = Doing /\ result' = result
<1> DEFINE cap == GrowCapacity(capacity)
<1>1. /\ Findable(fresh, cap) /\ Findable(entries, capacity) /\ entries' = fresh
      /\ {fresh[j] : j \in Live(fresh)} = {entries[i] : i \in {j \in Live(entries) : j < scan}}
      /\ result' = result /\ scan = capacity
  BY DEF IndInv, RehashInv, RehashDone, EveryKeyFound
<1>2. {j \in Live(entries) : j < scan} = Live(entries)
  BY <1>1 DEF Live, Slots, IndInv, TypeOK
<1>3. DictOf(fresh) = DictOf(entries)
  <2> HIDE DEF cap
  <2>1. {fresh[j] : j \in Live(fresh)} = {entries[i] : i \in Live(entries)}
    BY <1>1, <1>2
  <2> QED
    BY <1>1, <2>1, DictOfSameEntries
<1>4. Doing' = Doing
  BY DEF RehashDone, Doing
<1> QED
  BY <1>1, <1>3, <1>4 DEF Dict

\* table_find_string tells whether the key is present.
LEMMA FindStringRefines ==
  ASSUME IndInv, NEW k \in Keys, TableFindString(k)
  PROVE  M!Find(k)
<1>1. /\ Dict' = Dict /\ Doing = "nothing" /\ Doing' = Doing
      /\ result' = Answer(count > 0 /\ FindString(entries, capacity, k), {})
  BY DEF TableFindString, Dict, Doing
<1>2. CASE count = 0
  <2>1. Live(entries) = {}
    <3>1. Used(entries) = {}
      BY <1>2, UsedFinite, FS_EmptySet DEF IndInv, TypeOK, CountIsUsed, TableFindString
    <3> QED
      BY <3>1 DEF Used, Live, Empty
  <2>2. k \notin DOMAIN Dict
    BY <2>1, DictDomain DEF Dict
  <2>3. (k \in DOMAIN Dict) = (count > 0 /\ FindString(entries, capacity, k))
    BY <1>2, <2>2 DEF FindString
  <2> QED
    BY <1>1, <2>3 DEF M!Find, Answer, M!Answer
<1>3. CASE count # 0
  <2>1. /\ capacity \in Nat \ {0} /\ count > 0
        /\ entries \in [Slots(capacity) -> Entry]
    BY <1>3, UsedFinite DEF IndInv, TypeOK, CountIsUsed, TableFindString
  <2>2. Stops(entries, capacity, k) # {}
    BY <2>1, SearchesEnd
  <2>3. k \in DOMAIN Dict <=> entries[FindEntry(entries, capacity, k)].key # NoKey
    BY <2>1, <2>2, DictLookup DEF IndInv, EveryKeyFound, Dict
  <2>4. entries[FindEntry(entries, capacity, k)].key # NoKey
          <=> FindString(entries, capacity, k)
    BY <2>1, <2>2, FindStringEnds
  <2>5. (k \in DOMAIN Dict) = (count > 0 /\ FindString(entries, capacity, k))
    BY <2>1, <2>3, <2>4 DEF FindString
  <2> QED
    BY <1>1, <2>5 DEF M!Find, Answer, M!Answer
<1> QED
  BY <1>2, <1>3

LEMMA FreeRefines ==
  ASSUME TableFree
  PROVE  M!Clear
<1>1. Live(entries') = {}
  BY DEF TableFree, Live, EmptyArray, Slots
<1>2. Dict' = [x \in {} |-> x]
  BY <1>1 DEF Dict, DictOf
<1> QED
  BY <1>2 DEF TableFree, Doing, M!Clear

\* One iteration of table_remove_white takes away the key of its slot, or nothing.
LEMMA RemoveWhiteSlotRefines ==
  ASSUME IndInv, NEW white \in BOOLEAN, RemoveWhiteSlot(white)
  PROVE  \/ \E k \in Keys : M!Forget(k)
         \/ Dict' = Dict /\ Doing' = Doing /\ result' = result
<1> DEFINE k == entries[scan].key
<1>1. /\ Doing = "forgetting" /\ Doing' = Doing /\ result' = result
      /\ entries \in [Slots(capacity) -> Entry] /\ capacity \in Nat \ {0}
      /\ scan \in Slots(capacity)
  BY DEF RemoveWhiteSlot, Doing, IndInv, TypeOK, Slots
<1>2. CASE entries' = entries
  BY <1>1, <1>2 DEF Dict
<1>3. CASE entries' # entries
  <2>1. k # NoKey /\ entries' = [entries EXCEPT ![FindEntry(entries, capacity, k)] = Tombstone]
    BY <1>3 DEF RemoveWhiteSlot
  <2>2. scan \in Live(entries) /\ k \in Keys
    BY <1>1, <2>1 DEF Live, Entry
  <2>3. FindEntry(entries, capacity, k) = scan
    BY <2>2 DEF IndInv, EveryKeyFound, Findable
  <2>4. entries' = [entries EXCEPT ![scan] = Tombstone]
    BY <2>1, <2>3
  <2>5. Dict' = [x \in DOMAIN Dict \ {k} |-> Dict[x]]
    <3>1. DictOf([entries EXCEPT ![scan] = Tombstone]) =
            [x \in DOMAIN DictOf(entries) \ {k} |-> DictOf(entries)[x]]
      BY <1>1, <2>2, DictAfterDelete DEF IndInv, EveryKeyFound
    <3> QED
      BY <2>4, <3>1 DEF Dict
  <2>6. k \in DOMAIN Dict
    BY <2>2, DictDomain DEF Dict
  <2> HIDE DEF k
  <2>7. M!Forget(k)
    BY <1>1, <2>5, <2>6 DEF M!Forget
  <2> QED
    BY <2>2, <2>7
<1> QED
  BY <1>2, <1>3

\* Every behaviour of table.c's calls is a behaviour of a finite map
\* (RefinesMap), whatever was deleted, re-inserted or moved before.
THEOREM TableRefinesMap == Spec => RefinesMap
<1>1. IndInv /\ [Next]_vars => [M!Next]_(M!mapVars)
  <2> SUFFICES ASSUME IndInv, [Next]_vars
               PROVE  M!Next \/ (Dict' = Dict /\ Doing' = Doing /\ result' = result)
    BY DEF M!mapVars
  <2>1. CASE \E k \in Keys : TableGet(k)
    BY <2>1, GetRefines DEF M!Next
  <2>2. CASE \E k \in Keys : TableDelete(k)
    BY <2>2, DeleteRefines DEF M!Next
  <2>3. CASE \E k \in Keys, v \in Values : TableSet(k, v)
    <3>1. M!BeginSet
      BY <2>3 DEF TableSet, Dict, Doing, M!BeginSet
    <3> QED
      BY <3>1 DEF M!Next
  <2>4. CASE RehashSlot
    BY <2>4 DEF RehashSlot, Dict, Doing
  <2>5. CASE RehashDone
    BY <2>5, RehashDoneRefines
  <2>6. CASE Insert
    BY <2>6, InsertRefines DEF M!Next
  <2>7. CASE \E k \in Keys : TableFindString(k)
    BY <2>7, FindStringRefines DEF M!Next
  <2>8. CASE TableFree
    BY <2>8, FreeRefines DEF M!Next
  <2>9. CASE RemoveWhite
    <3>1. M!BeginForget
      BY <2>9 DEF RemoveWhite, Dict, Doing, M!BeginForget
    <3> QED
      BY <3>1 DEF M!Next
  <2>10. CASE RemoveWhiteDone
    <3>1. M!EndForget
      BY <2>10 DEF RemoveWhiteDone, Dict, Doing, M!EndForget
    <3> QED
      BY <3>1 DEF M!Next
  <2>11. CASE \E white \in BOOLEAN : RemoveWhiteSlot(white)
    BY <2>11, RemoveWhiteSlotRefines DEF M!Next
  <2>12. CASE UNCHANGED vars
    BY <2>12 DEF vars, Dict, Doing
  <2> QED
    BY <2>1, <2>2, <2>3, <2>4, <2>5, <2>6, <2>7, <2>8, <2>9, <2>10, <2>11, <2>12
       DEF Next
<1> QED
  BY <1>1, InitRefines, TableInvariant, PTL DEF Spec, RefinesMap, M!Spec
=============================================================================
