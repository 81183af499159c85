---------------------------- MODULE LexerProofs ----------------------------
(***************************************************************************)
(* Proofs about Lexer, for any texts: the scanner reads no character       *)
(* behind the terminator, and what it hands to the parser are the tokens   *)
(* that Lexicon finds in the text without scanning it; and no step leaves  *)
(* it where it was.                                                        *)
(***************************************************************************)
EXTENDS Lexer, SequenceTheorems, FiniteSetTheorems, WellFoundedInduction, TLAPS

-----------------------------------------------------------------------------
(* Lemmas about numbers *)

\* A nonempty set of naturals has a least element.
LEMMA LeastNatural ==
  ASSUME NEW S \in SUBSET Nat, S # {}
  PROVE  \E n \in S : \A m \in S : n <= m
<1> DEFINE T == {0 .. n : n \in S}
<1>1. T \subseteq FiniteSubsetsOf(Nat) /\ T # {}
  <2>1. \A n \in S : IsFiniteSet(0 .. n) /\ 0 .. n \subseteq Nat
    BY FS_Interval
  <2> QED
    BY <2>1 DEF FiniteSubsetsOf
<1>2. PICK t \in T : \A u \in T : ~ (<<u, t>> \in StrictSubsetOrdering(Nat))
  <2> HIDE DEF T
  <2>1. IsWellFoundedOn(StrictSubsetOrdering(Nat), FiniteSubsetsOf(Nat))
    BY FS_StrictSubsetOrderingWellFounded
  <2> QED
    BY <1>1, <2>1, WFMin, Zenon
<1>3. PICK n \in S : t = 0 .. n
  OBVIOUS
<1>4. ASSUME NEW m \in S, m < n
      PROVE  FALSE
  <2>1. n \in 0 .. n /\ n \notin 0 .. m /\ 0 .. m \subseteq 0 .. n
    BY <1>4
  <2>2. <<0 .. m, t>> \in StrictSubsetOrdering(Nat)
    BY <1>3, <2>1 DEF StrictSubsetOrdering
  <2> QED
    BY <1>2, <2>2
<1> QED
  BY <1>4

\* A nonempty set of numbers up to n has a greatest element.
LEMMA GreatestNumber ==
  ASSUME NEW n \in Nat, NEW S \in SUBSET (0 .. n), S # {}
  PROVE  \E i \in S : \A j \in S : j <= i
<1> DEFINE T == {n - i : i \in S}
<1>1. T \in SUBSET Nat /\ T # {}
  OBVIOUS
<1>2. PICK t \in T : \A u \in T : t <= u
  <2> HIDE DEF T
  <2> QED
    BY <1>1, LeastNatural
<1>3. PICK i \in S : t = n - i
  OBVIOUS
<1>4. ASSUME NEW j \in S
      PROVE  j <= i
  <2>1. n - j \in T
    OBVIOUS
  <2> HIDE DEF T
  <2>2. t <= n - j
    BY <1>2, <2>1
  <2> QED
    BY <1>3, <2>2
<1> QED
  BY <1>4

-----------------------------------------------------------------------------
(* Lemmas about the lexical rules *)

Chars == STRING \ {Nul}

\* Behind a text, and before it, there is no character.
LEMMA TextFacts ==
  ASSUME NEW s \in Seq(Chars)
  PROVE  /\ Len(s) \in Nat /\ G!End(s) = Len(s) + 1 /\ G!End(s) \in Nat /\ 1 <= G!End(s)
         /\ \A i \in Int : G!At(s, i) # Nul <=> (1 <= i /\ i < G!End(s))
         /\ \A i \in Nat : 1 <= i => G!At(s, i) = CharAt(s, i)
<1>1. Len(s) \in Nat /\ \A i \in 1 .. Len(s) : s[i] \in Chars
  OBVIOUS
<1>2. G!End(s) = Len(s) + 1 /\ G!End(s) \in Nat /\ 1 <= G!End(s)
  BY <1>1 DEF G!End
<1> DEFINE n == Len(s)
<1>3. \A i \in 1 .. n : s[i] # Nul
  BY <1>1 DEF Chars
<1>4. n \in Nat /\ G!End(s) = n + 1
  BY <1>1, <1>2
<1>5. ASSUME NEW i \in Int
      PROVE  /\ 1 <= i /\ i <= n => G!At(s, i) = s[i] /\ s[i] # Nul
             /\ ~ (1 <= i /\ i <= n) => G!At(s, i) = Nul
  <2>1. G!At(s, i) = IF i \in 1 .. n THEN s[i] ELSE Nul
    BY Zenon DEF G!At, Nul, n
  <2>2. i \in 1 .. n <=> (1 <= i /\ i <= n)
    BY <1>4
  <2>3. i \in 1 .. n => s[i] # Nul
    BY <1>3
  <2> HIDE DEF n
  <2> QED
    BY <2>1, <2>2, <2>3
<1> HIDE DEF n
<1>6. ASSUME NEW i \in Int
      PROVE  G!At(s, i) # Nul <=> (1 <= i /\ i < G!End(s))
  <2>1. i < G!End(s) <=> i <= n
    BY <1>4
  <2> QED
    BY <1>5, <2>1
<1>7. ASSUME NEW i \in Nat, 1 <= i
      PROVE  G!At(s, i) = CharAt(s, i)
  <2>1. CharAt(s, i) = IF i <= n THEN s[i] ELSE Nul
    BY DEF CharAt, n
  <2>2. i \in Int
    OBVIOUS
  <2> QED
    BY <1>5, <1>7, <2>1, <2>2
<1> QED
  BY <1>1, <1>2, <1>6, <1>7

LEMMA FirstNone ==
  ASSUME NEW s
  PROVE  G!First(s, {}) = G!End(s)
BY DEF G!First

LEMMA FirstLeast ==
  ASSUME NEW s, NEW S \in SUBSET Int, NEW m \in S, \A j \in S : m <= j
  PROVE  G!First(s, S) = m
<1>1. \A l \in S : (\A j \in S : l <= j) => l = m
  BY SMT
<1>2. \E l \in S : \A j \in S : l <= j
  OBVIOUS
<1> QED
  BY <1>1, <1>2 DEF G!First, G!Min

LEMMA FirstWithin ==
  ASSUME NEW s \in Seq(Chars), NEW a \in Nat, a <= G!End(s),
         NEW S \in SUBSET Int, \A j \in S : a <= j /\ j <= G!End(s)
  PROVE  G!First(s, S) \in Int /\ a <= G!First(s, S) /\ G!First(s, S) <= G!End(s)
<1>1. G!End(s) \in Nat
  BY TextFacts
<1>2. CASE S = {}
  BY <1>1, <1>2, FirstNone
<1>3. CASE S # {}
  <2>1. S \in SUBSET Nat
    OBVIOUS
  <2>2. PICK m \in S : \A j \in S : m <= j
    BY <1>3, <2>1, LeastNatural
  <2>3. G!First(s, S) = m
    BY <2>2, FirstLeast
  <2> QED
    BY <2>2, <2>3
<1> QED
  BY <1>2, <1>3

LEMMA GreatestIs ==
  ASSUME NEW S \in SUBSET Int, NEW m \in S, \A j \in S : j <= m
  PROVE  G!Max(S) = m
<1>1. \A l \in S : (\A j \in S : j <= l) => l = m
  BY SMT
<1>2. \E l \in S : \A j \in S : j <= l
  OBVIOUS
<1> QED
  BY <1>1, <1>2 DEF G!Max

LEMMA LeastIs ==
  ASSUME NEW S \in SUBSET Int, NEW m \in S, \A j \in S : m <= j
  PROVE  G!Min(S) = m
<1>1. \A l \in S : (\A j \in S : l <= j) => l = m
  BY SMT
<1>2. \E l \in S : \A j \in S : l <= j
  OBVIOUS
<1> QED
  BY <1>1, <1>2 DEF G!Min

LEMMA LineFirst ==
  ASSUME NEW s
  PROVE  G!LineAt(s, 1) = 1
<1>1. {j \in 1 .. 1 - 1 : G!At(s, j) = "\n"} = {}
  OBVIOUS
<1>2. Cardinality({}) = 0
  BY FS_EmptySet
<1> QED
  BY <1>1, <1>2 DEF G!LineAt, G!Cardinality, Cardinality

\* A line feed, and nothing else, begins a line.
LEMMA LineNext ==
  ASSUME NEW s, NEW i \in Nat, 1 <= i
  PROVE  /\ G!LineAt(s, i) \in Nat
         /\ G!LineAt(s, i + 1) = IF G!At(s, i) = "\n" THEN G!LineAt(s, i) + 1 ELSE G!LineAt(s, i)
<1> DEFINE Feeds(k) == {j \in 1 .. k - 1 : G!At(s, j) = "\n"}
<1>1. ASSUME NEW k \in Nat
      PROVE  /\ IsFiniteSet(Feeds(k)) /\ Cardinality(Feeds(k)) \in Nat
             /\ G!LineAt(s, k) = 1 + Cardinality(Feeds(k))
  <2>1. IsFiniteSet(1 .. k - 1) /\ Feeds(k) \subseteq 1 .. k - 1
    BY FS_Interval
  <2>2. IsFiniteSet(Feeds(k))
    BY <2>1, FS_Subset
  <2>3. \A S : G!Cardinality(S) = Cardinality(S)
    BY DEF G!Cardinality, Cardinality
  <2>4. G!LineAt(s, k) = 1 + Cardinality(Feeds(k))
    BY <2>3 DEF G!LineAt
  <2> HIDE DEF Feeds
  <2> QED
    BY <2>2, <2>4, FS_CardinalityType
<1>2. CASE G!At(s, i) = "\n"
  <2>1. Feeds(i + 1) = Feeds(i) \cup {i} /\ i \notin Feeds(i)
    BY <1>2
  <2> HIDE DEF Feeds
  <2>2. Cardinality(Feeds(i + 1)) = Cardinality(Feeds(i)) + 1
    BY <1>1, <2>1, FS_AddElement
  <2>3. i + 1 \in Nat
    OBVIOUS
  <2> QED
    BY <1>1, <1>2, <2>2, <2>3
<1>3. CASE G!At(s, i) # "\n"
  <2>1. Feeds(i + 1) = Feeds(i)
    BY <1>3
  <2> HIDE DEF Feeds
  <2>3. i + 1 \in Nat
    OBVIOUS
  <2> QED
    BY <1>1, <1>3, <2>1, <2>3
<1> QED
  BY <1>2, <1>3

\* A blank or a comment takes at least a character.
LEMMA GapEndWithin ==
  ASSUME NEW s \in Seq(Chars), NEW i \in Nat, 1 <= i, i < G!End(s), G!IsGap(s, i)
  PROVE  G!GapEnd(s, i) \in Int /\ i < G!GapEnd(s, i) /\ G!GapEnd(s, i) <= G!End(s)
<1>1. G!End(s) \in Nat
  BY TextFacts
<1>2. CASE G!At(s, i) \in G!Gap
  <2>1. G!GapEnd(s, i) = i + 1
    BY <1>2 DEF G!GapEnd
  <2> QED
    BY <1>1, <2>1
<1>3. CASE G!At(s, i) \notin G!Gap
  <2>1. G!At(s, i) = "/" /\ G!At(s, i + 1) \in {"/", "*"}
    BY <1>3 DEF G!IsGap
  <2>2. G!At(s, i + 1) # Nul
    BY <2>1 DEF Nul
  <2>3. i + 1 < G!End(s)
    BY <2>2, TextFacts
  <2> DEFINE L == {j \in i .. G!End(s) : G!At(s, j) = "\n"}
             B == {j \in i + 4 .. G!End(s) : G!At(s, j - 2) = "*" /\ G!At(s, j - 1) = "/"}
  <2>4. G!GapEnd(s, i) = G!First(s, L) \/ G!GapEnd(s, i) = G!First(s, B)
    BY <1>3 DEF G!GapEnd
  <2>5. L \in SUBSET Int /\ \A j \in L : i + 1 <= j /\ j <= G!End(s)
    <3>1. i \notin L
      BY <2>1
    <3> QED
      BY <1>1, <3>1
  <2>6. B \in SUBSET Int /\ \A j \in B : i + 1 <= j /\ j <= G!End(s)
    BY <1>1
  <2> HIDE DEF L, B
  <2>7. i + 1 \in Nat /\ i + 1 <= G!End(s)
    BY <1>1, <2>3
  <2>8. G!First(s, L) \in Int /\ i + 1 <= G!First(s, L) /\ G!First(s, L) <= G!End(s)
    BY <2>5, <2>7, FirstWithin
  <2>9. G!First(s, B) \in Int /\ i + 1 <= G!First(s, B) /\ G!First(s, B) <= G!End(s)
    BY <2>6, <2>7, FirstWithin
  <2> QED
    BY <2>4, <2>8, <2>9
<1> QED
  BY <1>2, <1>3

LEMMA LetterDigit ==
  /\ Letters \cap G!Digit = {} /\ Nul \notin Letters \cup G!Digit
  /\ "." \notin G!Digit /\ "\"" \notin Letters \cup G!Digit
  /\ "\n" \notin Letters \cup G!Digit
BY DEF Letters, G!Digit, Nul

\* So does a token, or what is none.
LEMMA TokenEndWithin ==
  ASSUME NEW s \in Seq(Chars), NEW i \in Nat, 1 <= i, i < G!End(s)
  PROVE  G!TokenEnd(s, i) \in Int /\ i < G!TokenEnd(s, i) /\ G!TokenEnd(s, i) <= G!End(s)
<1>1. G!End(s) \in Nat
  BY TextFacts
<1>2. CASE G!At(s, i) \in Letters
  <2> DEFINE S == {j \in i .. G!End(s) : G!At(s, j) \notin Letters \cup G!Digit}
  <2>1. G!TokenEnd(s, i) = G!First(s, S)
    BY <1>2 DEF G!TokenEnd
  <2>2. i \notin S
    BY <1>2
  <2>3. S \in SUBSET Int /\ \A j \in S : i + 1 <= j /\ j <= G!End(s)
    BY <1>1, <2>2
  <2> HIDE DEF S
  <2>4. G!First(s, S) \in Int /\ i + 1 <= G!First(s, S) /\ G!First(s, S) <= G!End(s)
    BY <1>1, <2>3, FirstWithin
  <2> QED
    BY <2>1, <2>4
<1>3. CASE G!At(s, i) \in G!Digit
  <2> DEFINE S == {j \in i + 1 .. G!End(s) : G!Numeral(s, i, j)}
  <2>1. G!TokenEnd(s, i) = G!Max(S)
    BY <1>3, LetterDigit DEF G!TokenEnd
  <2>2. i + 1 \in S
    <3>1. \A j \in i .. (i + 1) - 1 : j = i
      OBVIOUS
    <3>2. (i + 1) - 1 = i /\ i + 1 \in i + 1 .. G!End(s)
      BY <1>1
    <3>3. G!At(s, i) # "."
      BY <1>3, LetterDigit
    <3>4. G!Numeral(s, i, i + 1)
      BY <1>3, <3>1, <3>2, <3>3 DEF G!Numeral
    <3> QED
      BY <3>2, <3>4
  <2>3. S \in SUBSET (0 .. G!End(s)) /\ \A j \in S : i + 1 <= j /\ j <= G!End(s)
    BY <1>1
  <2> HIDE DEF S
  <2>4. PICK m \in S : \A j \in S : j <= m
    BY <1>1, <2>2, <2>3, GreatestNumber
  <2>5. S \in SUBSET Int
    BY <2>3
  <2>6. G!Max(S) = m
    BY <2>4, <2>5, GreatestIs
  <2> QED
    BY <2>1, <2>3, <2>4, <2>5, <2>6
<1>4. CASE G!At(s, i) = "\""
  <2>1. G!TokenEnd(s, i) = IF G!Closing(s, i) = {} THEN G!End(s) ELSE G!Min(G!Closing(s, i)) + 1
    BY <1>4, LetterDigit DEF G!TokenEnd
  <2>2. G!Closing(s, i) \in SUBSET Nat /\ \A j \in G!Closing(s, i) : i < j /\ j + 1 <= G!End(s)
    BY <1>1 DEF G!Closing, G!End
  <2>3. CASE G!Closing(s, i) # {}
    <3>1. PICK m \in G!Closing(s, i) : \A j \in G!Closing(s, i) : m <= j
      BY <2>2, <2>3, LeastNatural
    <3>2. G!Closing(s, i) \in SUBSET Int
      BY <2>2
    <3>3. G!Min(G!Closing(s, i)) = m
      BY <3>1, <3>2, LeastIs
    <3> QED
      BY <2>1, <2>2, <2>3, <3>1, <3>3
  <2> QED
    BY <1>1, <2>1, <2>3
<1>5. CASE G!At(s, i) \notin Letters \cup G!Digit \cup {"\""}
  <2>1. \/ G!TokenEnd(s, i) = i + 1
        \/ G!TokenEnd(s, i) = i + 2 /\ G!At(s, i + 1) = "="
    BY <1>5 DEF G!TokenEnd
  <2>2. G!At(s, i + 1) = "=" => i + 1 < G!End(s)
    <3>1. G!At(s, i + 1) = "=" => G!At(s, i + 1) # Nul
      BY DEF Nul
    <3> QED
      BY <3>1, TextFacts
  <2> QED
    BY <1>1, <2>1, <2>2
<1> QED
  BY <1>2, <1>3, <1>4, <1>5

\* What Scan says of position i, if f is what it says of those behind it.
ScanAt(s, f, i) ==
  IF i = G!End(s) THEN [tokens |-> <<G!Last(s)>>, errors |-> {}]
  ELSE IF G!IsGap(s, i) THEN f[G!GapEnd(s, i)]
  ELSE LET rest == f[G!TokenEnd(s, i)]
       IN  IF G!IsToken(s, i)
             THEN [tokens |-> <<G!Token(s, i)>> \o rest.tokens, errors |-> rest.errors]
             ELSE [tokens |-> rest.tokens, errors |-> rest.errors \cup {G!Error(s, i)}]

\* f says from position k on what Scan says.
HasScan(s, f, k) == f = [i \in k .. G!End(s) |-> ScanAt(s, f, i)]

LEMMA HasScanAt ==
  ASSUME NEW s, NEW f, NEW k, HasScan(s, f, k), NEW i \in k .. G!End(s)
  PROVE  f[i] = ScanAt(s, f, i)
<1> DEFINE g == [j \in k .. G!End(s) |-> ScanAt(s, f, j)]
<1>1. f = g
  BY Zenon DEF HasScan
<1>2. g[i] = ScanAt(s, f, i)
  OBVIOUS
<1> HIDE DEF g
<1> QED
  BY <1>1, <1>2, Zenon

\* Only what is behind it matters.
LEMMA ScanAtSame ==
  ASSUME NEW s \in Seq(Chars), NEW i \in Nat, 1 <= i, i <= G!End(s), NEW f, NEW g,
         \A j \in Int : i < j /\ j <= G!End(s) => f[j] = g[j]
  PROVE  ScanAt(s, f, i) = ScanAt(s, g, i)
<1>1. CASE i = G!End(s)
  BY <1>1, Zenon DEF ScanAt
<1>2. CASE i # G!End(s)
  <2>1. i < G!End(s)
    BY <1>2, TextFacts
  <2>2. CASE G!IsGap(s, i)
    <3>1. f[G!GapEnd(s, i)] = g[G!GapEnd(s, i)]
      BY <2>1, <2>2, GapEndWithin
    <3> QED
      BY <1>2, <2>2, <3>1, Zenon DEF ScanAt
  <2>3. CASE ~ G!IsGap(s, i)
    <3>1. f[G!TokenEnd(s, i)] = g[G!TokenEnd(s, i)]
      BY <2>1, TokenEndWithin
    <3> QED
      BY <1>2, <2>3, <3>1, Zenon DEF ScanAt
  <2> QED
    BY <2>2, <2>3
<1> QED
  BY <1>1, <1>2

\* One position more.
LEMMA ScanExtends ==
  ASSUME NEW s \in Seq(Chars), NEW k \in Nat, 1 <= k, k <= G!End(s),
         NEW f, k < G!End(s) => HasScan(s, f, k + 1)
  PROVE  \E g : HasScan(s, g, k)
<1> DEFINE e == G!End(s)
           g == [i \in k .. e |-> IF i = k THEN ScanAt(s, f, k) ELSE f[i]]
<1>1. e \in Nat
  BY TextFacts
<1>2. \A j \in k + 1 .. e : g[j] = f[j]
  BY <1>1
<1>3. g[k] = ScanAt(s, f, k)
  BY <1>1
<1>4. g = [i \in k .. e |-> g[i]]
  OBVIOUS
<1> HIDE DEF g
<1>5. ASSUME NEW i \in k .. e
      PROVE  g[i] = ScanAt(s, g, i)
  <2>1. i \in Nat /\ 1 <= i /\ i <= e /\ \A j \in Int : i < j /\ j <= e => f[j] = g[j]
    BY <1>1, <1>2
  <2>2. ScanAt(s, f, i) = ScanAt(s, g, i)
    BY <2>1, ScanAtSame
  <2>3. CASE i = k
    BY <1>3, <2>2, <2>3
  <2>4. CASE i # k
    <3>1. i \in k + 1 .. e /\ k < e
      BY <1>1, <2>4
    <3>2. f[i] = ScanAt(s, f, i)
      BY <3>1, HasScanAt
    <3> QED
      BY <1>2, <2>2, <3>1, <3>2
  <2> QED
    BY <2>3, <2>4
<1>6. g = [i \in k .. e |-> ScanAt(s, g, i)]
  BY <1>4, <1>5, Zenon
<1>7. HasScan(s, g, k)
  BY <1>6, Zenon DEF HasScan
<1> QED
  BY <1>7

\* The recursion of Scan is one: it leads on in the text.
LEMMA ScanRecursion ==
  ASSUME NEW s \in Seq(Chars)
  PROVE  \A i \in 1 .. G!End(s) : G!Scan(s)[i] = ScanAt(s, G!Scan(s), i)
<1> DEFINE e == G!End(s)
           Without == {d \in 0 .. e - 1 : ~ \E f : HasScan(s, f, e - d)}
<1>1. e \in Nat /\ 1 <= e
  BY TextFacts
<1>2. Without = {}
  <2> SUFFICES ASSUME Without # {}
               PROVE  FALSE
    OBVIOUS
  <2>1. Without \in SUBSET Nat
    OBVIOUS
  <2>2. PICK d \in Without : \A c \in Without : d <= c
    <3> HIDE DEF Without
    <3> QED
      BY <2>1, LeastNatural
  <2>3. d \in 0 .. e - 1 /\ ~ \E f : HasScan(s, f, e - d)
    OBVIOUS
  <2>4. e - d < e => \E f : HasScan(s, f, (e - d) + 1)
    <3>1. ASSUME e - d < e, ~ \E f : HasScan(s, f, (e - d) + 1)
          PROVE  FALSE
      <4>1. d - 1 \in 0 .. e - 1 /\ e - (d - 1) = (e - d) + 1
        BY <1>1, <2>3, <3>1
      <4>2. d - 1 \in Without
        BY <3>1, <4>1
      <4> QED
        BY <2>2, <2>3, <4>2
    <3> QED
      BY <3>1
  <2>5. PICK f : e - d < e => HasScan(s, f, (e - d) + 1)
    BY <2>4
  <2>6. e - d \in Nat /\ 1 <= e - d /\ e - d <= e
    BY <1>1, <2>3
  <2>7. \E g : HasScan(s, g, e - d)
    BY <2>5, <2>6, ScanExtends
  <2> QED
    BY <2>3, <2>7
<1>3. \E f : HasScan(s, f, 1)
  <2>1. e - 1 \in 0 .. e - 1 /\ e - (e - 1) = 1
    BY <1>1
  <2>2. \E f : HasScan(s, f, e - (e - 1))
    BY <1>2, <2>1
  <2> QED
    BY <2>1, <2>2
<1>4. HasScan(s, CHOOSE f : HasScan(s, f, 1), 1)
  BY <1>3, Zenon
<1>5. G!Scan(s) = CHOOSE f : HasScan(s, f, 1)
  BY Zenon DEF G!Scan, HasScan, ScanAt
<1>6. HasScan(s, G!Scan(s), 1)
  BY <1>4, <1>5, Zenon
<1> QED
  BY <1>6, HasScanAt

Toks(s) == {G!Token(s, i) : i \in 1 .. G!End(s)} \cup {G!Last(s)}

LEMMA ScanEnds ==
  ASSUME NEW s \in Seq(Chars)
  PROVE  /\ G!Scan(s)[G!End(s)].tokens = <<G!Last(s)>>
         /\ G!Scan(s)[G!End(s)].errors = {}
<1> DEFINE here == G!Scan(s)[G!End(s)]
           all == <<G!Last(s)>>
<1>1. G!End(s) \in 1 .. G!End(s)
  BY TextFacts
<1>2. here = ScanAt(s, G!Scan(s), G!End(s))
  BY <1>1, ScanRecursion
<1>3. here = [tokens |-> all, errors |-> {}]
  BY <1>2, Zenon DEF ScanAt
<1>4. here.tokens = all /\ here.errors = {}
  <2> HIDE DEF here, all
  <2> QED
    BY <1>3
<1> QED
  BY <1>4

LEMMA ScanSkips ==
  ASSUME NEW s \in Seq(Chars), NEW i \in Nat, 1 <= i, i < G!End(s), G!IsGap(s, i)
  PROVE  G!Scan(s)[i] = G!Scan(s)[G!GapEnd(s, i)]
<1>1. i \in 1 .. G!End(s) /\ i # G!End(s)
  BY TextFacts
<1>2. G!Scan(s)[i] = ScanAt(s, G!Scan(s), i)
  BY <1>1, ScanRecursion
<1> QED
  BY <1>1, <1>2, Zenon DEF ScanAt

LEMMA ScanTakes ==
  ASSUME NEW s \in Seq(Chars), NEW i \in Nat, 1 <= i, i < G!End(s), ~ G!IsGap(s, i)
  PROVE  LET here == G!Scan(s)[i]
             rest == G!Scan(s)[G!TokenEnd(s, i)]
         IN  /\ G!IsToken(s, i) => /\ here.tokens = <<G!Token(s, i)>> \o rest.tokens
                                   /\ here.errors = rest.errors
             /\ ~ G!IsToken(s, i) => /\ here.tokens = rest.tokens
                                     /\ here.errors = rest.errors \cup {G!Error(s, i)}
<1> DEFINE here == G!Scan(s)[i]
           rest == G!Scan(s)[G!TokenEnd(s, i)]
           taken == <<G!Token(s, i)>> \o rest.tokens
           told == rest.errors \cup {G!Error(s, i)}
<1>1. i \in 1 .. G!End(s) /\ i # G!End(s)
  BY TextFacts
<1>2. G!Scan(s)[i] = ScanAt(s, G!Scan(s), i)
  BY <1>1, ScanRecursion
<1>3. G!IsToken(s, i) => here = [tokens |-> taken, errors |-> rest.errors]
  BY <1>1, <1>2, Zenon DEF ScanAt
<1>4. ~ G!IsToken(s, i) => here = [tokens |-> rest.tokens, errors |-> told]
  BY <1>1, <1>2, Zenon DEF ScanAt
<1>5. /\ G!IsToken(s, i) => here.tokens = taken /\ here.errors = rest.errors
      /\ ~ G!IsToken(s, i) => here.tokens = rest.tokens /\ here.errors = told
  <2> HIDE DEF here, taken, told
  <2> QED
    BY <1>3, <1>4
<1> QED
  BY <1>5, Zenon

\* What is scanned are tokens of the text.
LEMMA ScanTokens ==
  ASSUME NEW s \in Seq(Chars)
  PROVE  \A i \in 1 .. G!End(s) : G!Scan(s)[i].tokens \in Seq(Toks(s))
<1> DEFINE e == G!End(s)
           Other == {d \in 0 .. e - 1 : G!Scan(s)[e - d].tokens \notin Seq(Toks(s))}
<1>1. e \in Nat /\ 1 <= e
  BY TextFacts
<1>2. ASSUME NEW i \in Nat, 1 <= i, i <= e,
             \A j \in Int : i < j /\ j <= e => G!Scan(s)[j].tokens \in Seq(Toks(s))
      PROVE  G!Scan(s)[i].tokens \in Seq(Toks(s))
  <2> HIDE DEF e
  <2>1. CASE i = e
    <3>1. G!Last(s) \in Toks(s)
      BY DEF Toks
    <3> DEFINE t == G!Last(s)
    <3>2. <<t>> \in Seq(Toks(s))
      <4> HIDE DEF t
      <4> QED
        BY <3>1 DEF t
    <3>3. G!Scan(s)[i].tokens = <<t>>
      BY <2>1, ScanEnds DEF e
    <3> QED
      BY <3>2, <3>3
  <2>2. CASE i < e /\ G!IsGap(s, i)
    <3>1. G!Scan(s)[i] = G!Scan(s)[G!GapEnd(s, i)]
      BY <1>2, <2>2, ScanSkips DEF e
    <3>2. G!GapEnd(s, i) \in Int /\ i < G!GapEnd(s, i) /\ G!GapEnd(s, i) <= e
      BY <1>2, <2>2, GapEndWithin DEF e
    <3> QED
      BY <1>2, <3>1, <3>2
  <2>3. CASE i < e /\ ~ G!IsGap(s, i)
    <3> DEFINE k == G!TokenEnd(s, i)
               t == G!Token(s, i)
               rest == G!Scan(s)[k].tokens
    <3>1. k \in Int /\ i < k /\ k <= e
      BY <1>2, <2>3, TokenEndWithin DEF e
    <3>2. rest \in Seq(Toks(s))
      BY <1>2, <3>1
    <3>3. t \in Toks(s)
      <4>1. i \in 1 .. e
        BY <1>1, <1>2, <2>3
      <4> QED
        BY <4>1 DEF Toks, e
    <3>4. G!Scan(s)[i].tokens = rest \/ G!Scan(s)[i].tokens = <<t>> \o rest
      BY <1>2, <2>3, ScanTakes DEF e
    <3> HIDE DEF t, rest
    <3>5. <<t>> \o rest \in Seq(Toks(s))
      <4>1. <<t>> \in Seq(Toks(s))
        BY <3>3
      <4> QED
        BY <3>2, <4>1, ConcatProperties
    <3> QED
      BY <3>2, <3>4, <3>5
  <2> QED
    BY <1>1, <1>2, <2>1, <2>2, <2>3
<1>3. Other = {}
  <2> SUFFICES ASSUME Other # {}
               PROVE  FALSE
    OBVIOUS
  <2>1. Other \in SUBSET Nat
    OBVIOUS
  <2>2. PICK d \in Other : \A c \in Other : d <= c
    <3> HIDE DEF Other
    <3> QED
      BY <2>1, LeastNatural
  <2>3. d \in 0 .. e - 1 /\ G!Scan(s)[e - d].tokens \notin Seq(Toks(s))
    OBVIOUS
  <2>4. ASSUME NEW j \in Int, e - d < j, j <= e
        PROVE  G!Scan(s)[j].tokens \in Seq(Toks(s))
    <3>1. e - j \in 0 .. e - 1 /\ e - (e - j) = j /\ e - j < d
      BY <1>1, <2>3, <2>4
    <3>2. e - j \notin Other
      <4> HIDE DEF Other
      <4> QED
        BY <2>2, <2>3, <3>1
    <3> QED
      BY <3>1, <3>2
  <2>5. e - d \in Nat /\ 1 <= e - d /\ e - d <= e
    BY <1>1, <2>3
  <2> HIDE DEF Other
  <2> QED
    BY <1>2, <2>3, <2>4, <2>5
<1>4. ASSUME NEW i \in 1 .. e
      PROVE  G!Scan(s)[i].tokens \in Seq(Toks(s))
  <2>1. e - i \in 0 .. e - 1 /\ e - (e - i) = i
    BY <1>1
  <2>2. e - i \notin Other
    <3> HIDE DEF Other
    <3> QED
      BY <1>3
  <2> QED
    BY <2>1, <2>2
<1> QED
  BY <1>4

-----------------------------------------------------------------------------
(* What is scanned before a position and what is behind it *)

\* The tokens and errors so far, with those from position i on, are all of them.
Whole(s, ts, es, i) ==
  /\ ts \in Seq(Toks(s))
  /\ i \in Nat /\ 1 <= i /\ i <= G!End(s)
  /\ ts \o G!Scan(s)[i].tokens = G!Scan(s)[1].tokens
  /\ es \cup G!Scan(s)[i].errors = G!Scan(s)[1].errors

LEMMA WholeFirst ==
  ASSUME NEW s \in Seq(Chars)
  PROVE  Whole(s, <<>>, {}, 1)
<1>1. G!Scan(s)[1].tokens \in Seq(Toks(s)) /\ 1 <= G!End(s)
  BY TextFacts, ScanTokens
<1>2. <<>> \o G!Scan(s)[1].tokens = G!Scan(s)[1].tokens
  BY <1>1, ConcatEmptySeq
<1>3. <<>> \in Seq(Toks(s))
  BY EmptySeq
<1>4. {} \cup G!Scan(s)[1].errors = G!Scan(s)[1].errors
  OBVIOUS
<1> QED
  BY <1>1, <1>2, <1>3, <1>4 DEF Whole

LEMMA WholeGap ==
  ASSUME NEW s \in Seq(Chars), NEW ts, NEW es, NEW i, Whole(s, ts, es, i),
         i < G!End(s), G!IsGap(s, i)
  PROVE  Whole(s, ts, es, G!GapEnd(s, i))
<1>1. i \in Nat /\ 1 <= i
  BY DEF Whole
<1>2. G!Scan(s)[i] = G!Scan(s)[G!GapEnd(s, i)]
  BY <1>1, ScanSkips
<1>3. G!GapEnd(s, i) \in Nat /\ 1 <= G!GapEnd(s, i) /\ G!GapEnd(s, i) <= G!End(s)
  BY <1>1, GapEndWithin
<1> QED
  BY <1>2, <1>3 DEF Whole

LEMMA WholeToken ==
  ASSUME NEW s \in Seq(Chars), NEW ts, NEW es, NEW i, Whole(s, ts, es, i),
         i < G!End(s), ~ G!IsGap(s, i), G!IsToken(s, i)
  PROVE  Whole(s, Append(ts, G!Token(s, i)), es, G!TokenEnd(s, i))
<1> DEFINE k == G!TokenEnd(s, i)
           t == G!Token(s, i)
           rest == G!Scan(s)[k].tokens
           T == Toks(s)
<1>1. i \in Nat /\ 1 <= i /\ ts \in Seq(T)
  BY DEF Whole
<1>2. k \in Nat /\ 1 <= k /\ k <= G!End(s)
  BY <1>1, TokenEndWithin
<1>3. G!Scan(s)[i].tokens = <<t>> \o rest /\ G!Scan(s)[i].errors = G!Scan(s)[k].errors
  BY <1>1, ScanTakes
<1>4. rest \in Seq(T)
  BY <1>2, ScanTokens
<1>5. t \in T
  <2>1. i \in 1 .. G!End(s)
    BY <1>1, TextFacts
  <2> QED
    BY <2>1 DEF Toks
<1>6. ts \o (<<t>> \o rest) = G!Scan(s)[1].tokens
  BY <1>3 DEF Whole
<1>7. es \cup G!Scan(s)[k].errors = G!Scan(s)[1].errors
  BY <1>3 DEF Whole
<1> HIDE DEF t, rest, T
<1>8. <<t>> \in Seq(T)
  BY <1>5
<1>9. Append(ts, t) = ts \o <<t>> /\ Append(ts, t) \in Seq(T)
  BY <1>1, <1>5, AppendIsConcat, AppendProperties
<1>10. (ts \o <<t>>) \o rest = ts \o (<<t>> \o rest)
  BY <1>1, <1>4, <1>8, ConcatAssociative
<1>11. Append(ts, t) \o rest = G!Scan(s)[1].tokens
  BY <1>6, <1>9, <1>10, Zenon
<1> QED
  BY <1>2, <1>7, <1>9, <1>11 DEF Whole, t, rest, T

LEMMA WholeError ==
  ASSUME NEW s \in Seq(Chars), NEW ts, NEW es, NEW i, Whole(s, ts, es, i),
         i < G!End(s), ~ G!IsGap(s, i), ~ G!IsToken(s, i)
  PROVE  Whole(s, ts, es \cup {G!Error(s, i)}, G!TokenEnd(s, i))
<1> DEFINE k == G!TokenEnd(s, i)
<1>1. i \in Nat /\ 1 <= i
  BY DEF Whole
<1>2. k \in Nat /\ 1 <= k /\ k <= G!End(s)
  BY <1>1, TokenEndWithin
<1>3. /\ G!Scan(s)[i].tokens = G!Scan(s)[k].tokens
      /\ G!Scan(s)[i].errors = G!Scan(s)[k].errors \cup {G!Error(s, i)}
  BY <1>1, ScanTakes
<1>4. (es \cup {G!Error(s, i)}) \cup G!Scan(s)[k].errors = es \cup G!Scan(s)[i].errors
  BY <1>3
<1> QED
  BY <1>2, <1>3, <1>4 DEF Whole

LEMMA WholeEnd ==
  ASSUME NEW s \in Seq(Chars), NEW ts, NEW es, Whole(s, ts, es, G!End(s))
  PROVE  /\ Append(ts, G!Last(s)) = G!Scan(s)[1].tokens
         /\ es = G!Scan(s)[1].errors
         /\ Append(ts, G!Last(s)) \in Seq(Toks(s))
<1> DEFINE t == G!Last(s)
           T == Toks(s)
<1>1. ts \in Seq(T)
  BY DEF Whole
<1>2. t \in T
  BY DEF Toks
<1>3. G!Scan(s)[G!End(s)].tokens = <<t>> /\ G!Scan(s)[G!End(s)].errors = {}
  BY ScanEnds
<1>4. ts \o <<t>> = G!Scan(s)[1].tokens
  BY <1>3 DEF Whole
<1>5. es \cup {} = G!Scan(s)[1].errors
  BY <1>3 DEF Whole
<1> HIDE DEF t, T
<1>6. Append(ts, t) = ts \o <<t>> /\ Append(ts, t) \in Seq(T)
  BY <1>1, <1>2, AppendIsConcat, AppendProperties
<1> QED
  BY <1>4, <1>5, <1>6 DEF t, T

-----------------------------------------------------------------------------
(* Reserved words *)

\* Rule r of identifier_type looks at every character of the word k.
Spells(r, k) ==
  /\ r[1] \in Seq(Letters) /\ r[4] \in Seq(Letters) /\ k \in Seq(Letters)
  /\ Len(r[1]) = r[2] /\ Len(r[4]) = r[3] /\ Len(k) = r[2] + r[3]
  /\ \A i \in 1 .. r[2] : k[i] = r[1][i]
  /\ \A i \in 1 .. r[3] : k[r[2] + i] = r[4][i]

\* Such a rule is for that word and for no other.
LEMMA SpellsWord ==
  ASSUME NEW w \in Seq(STRING), NEW r, NEW k, Spells(r, k)
  PROVE  (/\ Len(r[1]) <= Len(w)
          /\ SubSeq(w, 1, Len(r[1])) = r[1]
          /\ Len(w) = r[2] + r[3]
          /\ SubSeq(w, r[2] + 1, Len(w)) = r[4]) <=> w = k
<1> DEFINE p == r[1]
           q == r[4]
           b == r[2]
           l == r[3]
           S == STRING \cup Letters
<1>1. p \in Seq(Letters) /\ q \in Seq(Letters) /\ k \in Seq(Letters)
  BY DEF Spells
<1>2. p \in Seq(S) /\ q \in Seq(S) /\ k \in Seq(S) /\ w \in Seq(S)
  BY <1>1, SeqMonotonic
<1>3. /\ Len(p) = b /\ Len(q) = l /\ Len(k) = b + l
      /\ \A i \in 1 .. b : k[i] = p[i]
      /\ \A i \in 1 .. l : k[b + i] = q[i]
  BY DEF Spells
<1> HIDE DEF p, q, b, l, S
<1>4. b \in Nat /\ l \in Nat /\ Len(w) \in Nat
  BY <1>2, <1>3
<1>5. ASSUME b <= Len(w), SubSeq(w, 1, b) = p, Len(w) = b + l, SubSeq(w, b + 1, Len(w)) = q
      PROVE  w = k
  <2>1. ASSUME NEW i \in 1 .. Len(w)
        PROVE  w[i] = k[i]
    <3>1. CASE i <= b
      <4>1. SubSeq(w, 1, b)[i] = w[1 + i - 1]
        BY <1>2, <1>4, <1>5, <3>1, SubSeqProperties
      <4> QED
        BY <1>3, <1>4, <1>5, <3>1, <4>1
    <3>2. CASE i > b
      <4>1. i - b \in 1 .. l /\ b + (i - b) = i
        BY <1>4, <1>5, <3>2
      <4> DEFINE j == i - b
      <4> HIDE DEF j
      <4>2. \A m \in b + 1 .. Len(w) : w[m] \in S
        BY <1>2, <1>4
      <4>3. \A m \in 1 .. Len(w) - (b + 1) + 1 : SubSeq(w, b + 1, Len(w))[m] = w[b + 1 + m - 1]
        BY <1>4, <4>2, SubSeqProperties
      <4>4. j \in 1 .. Len(w) - (b + 1) + 1 /\ b + 1 + j - 1 = i
        BY <1>4, <1>5, <3>2 DEF j
      <4>5. q[j] = w[i]
        BY <1>5, <4>3, <4>4
      <4>6. j \in 1 .. l /\ b + j = i
        BY <4>1 DEF j
      <4> QED
        BY <1>3, <4>5, <4>6
    <3> QED
      BY <1>4, <3>1, <3>2
  <2> QED
    BY <1>2, <1>3, <1>5, <2>1, SeqEqual
<1>6. ASSUME w = k
      PROVE  /\ b <= Len(w) /\ SubSeq(w, 1, b) = p /\ Len(w) = b + l
             /\ SubSeq(w, b + 1, Len(w)) = q
  <2>1. Len(w) = b + l /\ b <= Len(w)
    BY <1>3, <1>4, <1>6
  <2>2. \A i \in 1 .. Len(w) : w[i] \in S
    BY <1>2
  <2>3. SubSeq(w, 1, b) = p
    <3>1. \A i \in 1 .. b : w[i] \in S
      BY <1>4, <2>1, <2>2
    <3>2. /\ SubSeq(w, 1, b) \in Seq(S)
          /\ Len(SubSeq(w, 1, b)) = b
          /\ \A i \in 1 .. b : SubSeq(w, 1, b)[i] = w[i]
      <4>1. /\ SubSeq(w, 1, b) \in Seq(S)
            /\ Len(SubSeq(w, 1, b)) = IF 1 <= b THEN b - 1 + 1 ELSE 0
            /\ \A i \in 1 .. b - 1 + 1 : SubSeq(w, 1, b)[i] = w[1 + i - 1]
        BY <1>4, <3>1, SubSeqProperties
      <4> QED
        BY <1>4, <4>1
    <3> DEFINE u == SubSeq(w, 1, b)
    <3> HIDE DEF u
    <3>3. u \in Seq(S) /\ Len(u) = Len(p) /\ \A i \in 1 .. Len(u) : u[i] = p[i]
      BY <1>3, <1>6, <3>2 DEF u
    <3>4. u = p
      BY <1>2, <3>3, SeqEqual
    <3> QED
      BY <3>4 DEF u
  <2>4. SubSeq(w, b + 1, Len(w)) = q
    <3> DEFINE u == SubSeq(w, b + 1, Len(w))
    <3>1. \A i \in b + 1 .. Len(w) : w[i] \in S
      BY <1>4, <2>1, <2>2
    <3>2. /\ u \in Seq(S)
          /\ Len(u) = IF b + 1 <= Len(w) THEN Len(w) - (b + 1) + 1 ELSE 0
          /\ \A i \in 1 .. Len(w) - (b + 1) + 1 : u[i] = w[b + 1 + i - 1]
      BY <1>4, <3>1, SubSeqProperties
    <3> HIDE DEF u
    <3>3. Len(u) = l
      BY <1>4, <2>1, <3>2
    <3>4. \A i \in 1 .. l : u[i] = q[i]
      <4>1. \A i \in 1 .. l : b + 1 + i - 1 = b + i /\ i \in 1 .. Len(w) - (b + 1) + 1
        BY <1>4, <2>1
      <4>2. \A i \in 1 .. l : u[i] = w[b + i]
        BY <3>2, <4>1
      <4> QED
        BY <1>3, <1>6, <4>2, Zenon
    <3>5. u = q
      BY <1>2, <1>3, <3>2, <3>3, <3>4, SeqEqual
    <3> QED
      BY <3>5 DEF u
  <2> QED
    BY <2>1, <2>3, <2>4
<1>7. w = k <=> (b <= Len(w) /\ SubSeq(w, 1, b) = p /\ Len(w) = b + l /\ SubSeq(w, b + 1, Len(w)) = q)
  BY <1>5, <1>6
<1> QED
  BY <1>3, <1>7 DEF p, q, b, l

Spelt(r, k) == r[5] = k[2] /\ Spells(r, k[1])

\* Every rule but those for "import" is that of a reserved word, and every word has one.
LEMMA RulesSpell ==
  /\ \A r \in KeywordRules : r[5] = "IMPORT" \/ \E k \in G!Keyword : Spelt(r, k)
  /\ \A k \in G!Keyword : \E r \in KeywordRules : Spelt(r, k)
<1>1. /\ \A r : r = <<<<"a", "n">>, 2, 1, <<"d">>, "AND">>
                => \E k \in G!Keyword : Spelt(r, k)
      /\ \A k : k = <<<<"a", "n", "d">>, "AND">>
                => \E r \in KeywordRules : Spelt(r, k)
  <2> SUFFICES ASSUME NEW r, r = <<<<"a", "n">>, 2, 1, <<"d">>, "AND">>,
                      NEW k, k = <<<<"a", "n", "d">>, "AND">>
               PROVE  r \in KeywordRules /\ k \in G!Keyword /\ Spelt(r, k)
    BY Zenon
  <2>1. Spelt(r, k)
    BY DEF Spelt, Spells, Letters
  <2>2. r \in KeywordRules
    BY Zenon DEF KeywordRules
  <2>3. k \in G!Keyword
    BY Zenon DEF G!Keyword
  <2> QED
    BY <2>1, <2>2, <2>3
<1>2. /\ \A r : r = <<<<"a", "s">>, 2, 0, <<>>, "AS">>
                => \E k \in G!Keyword : Spelt(r, k)
      /\ \A k : k = <<<<"a", "s">>, "AS">>
                => \E r \in KeywordRules : Spelt(r, k)
  <2> SUFFICES ASSUME NEW r, r = <<<<"a", "s">>, 2, 0, <<>>, "AS">>,
                      NEW k, k = <<<<"a", "s">>, "AS">>
               PROVE  r \in KeywordRules /\ k \in G!Keyword /\ Spelt(r, k)
    BY Zenon
  <2>1. Spelt(r, k)
    BY DEF Spelt, Spells, Letters
  <2>2. r \in KeywordRules
    BY Zenon DEF KeywordRules
  <2>3. k \in G!Keyword
    BY Zenon DEF G!Keyword
  <2> QED
    BY <2>1, <2>2, <2>3
<1>3. /\ \A r : r = <<<<"a", "s">>, 2, 4, <<"s", "e", "r", "t">>, "ASSERT">>
                => \E k \in G!Keyword : Spelt(r, k)
      /\ \A k : k = <<<<"a", "s", "s", "e", "r", "t">>, "ASSERT">>
                => \E r \in KeywordRules : Spelt(r, k)
  <2> SUFFICES ASSUME NEW r, r = <<<<"a", "s">>, 2, 4, <<"s", "e", "r", "t">>, "ASSERT">>,
                      NEW k, k = <<<<"a", "s", "s", "e", "r", "t">>, "ASSERT">>
               PROVE  r \in KeywordRules /\ k \in G!Keyword /\ Spelt(r, k)
    BY Zenon
  <2>1. Spelt(r, k)
    BY DEF Spelt, Spells, Letters
  <2>2. r \in KeywordRules
    BY Zenon DEF KeywordRules
  <2>3. k \in G!Keyword
    BY Zenon DEF G!Keyword
  <2> QED
    BY <2>1, <2>2, <2>3
<1>4. /\ \A r : r = <<<<"b">>, 1, 4, <<"r", "e", "a", "k">>, "BREAK">>
                => \E k \in G!Keyword : Spelt(r, k)
      /\ \A k : k = <<<<"b", "r", "e", "a", "k">>, "BREAK">>
                => \E r \in KeywordRules : Spelt(r, k)
  <2> SUFFICES ASSUME NEW r, r = <<<<"b">>, 1, 4, <<"r", "e", "a", "k">>, "BREAK">>,
                      NEW k, k = <<<<"b", "r", "e", "a", "k">>, "BREAK">>
               PROVE  r \in KeywordRules /\ k \in G!Keyword /\ Spelt(r, k)
    BY Zenon
  <2>1. Spelt(r, k)
    BY DEF Spelt, Spells, Letters
  <2>2. r \in KeywordRules
    BY Zenon DEF KeywordRules
  <2>3. k \in G!Keyword
    BY Zenon DEF G!Keyword
  <2> QED
    BY <2>1, <2>2, <2>3
<1>5. /\ \A r : r = <<<<"c">>, 1, 7, <<"o", "n", "t", "i", "n", "u", "e">>, "CONTINUE">>
                => \E k \in G!Keyword : Spelt(r, k)
      /\ \A k : k = <<<<"c", "o", "n", "t", "i", "n", "u", "e">>, "CONTINUE">>
                => \E r \in KeywordRules : Spelt(r, k)
  <2> SUFFICES ASSUME NEW r, r = <<<<"c">>, 1, 7, <<"o", "n", "t", "i", "n", "u", "e">>, "CONTINUE">>,
                      NEW k, k = <<<<"c", "o", "n", "t", "i", "n", "u", "e">>, "CONTINUE">>
               PROVE  r \in KeywordRules /\ k \in G!Keyword /\ Spelt(r, k)
    BY Zenon
  <2>1. Spelt(r, k)
    BY DEF Spelt, Spells, Letters
  <2>2. r \in KeywordRules
    BY Zenon DEF KeywordRules
  <2>3. k \in G!Keyword
    BY Zenon DEF G!Keyword
  <2> QED
    BY <2>1, <2>2, <2>3
<1>6. /\ \A r : r = <<<<"e">>, 1, 3, <<"l", "s", "e">>, "ELSE">>
                => \E k \in G!Keyword : Spelt(r, k)
      /\ \A k : k = <<<<"e", "l", "s", "e">>, "ELSE">>
                => \E r \in KeywordRules : Spelt(r, k)
  <2> SUFFICES ASSUME NEW r, r = <<<<"e">>, 1, 3, <<"l", "s", "e">>, "ELSE">>,
                      NEW k, k = <<<<"e", "l", "s", "e">>, "ELSE">>
               PROVE  r \in KeywordRules /\ k \in G!Keyword /\ Spelt(r, k)
    BY Zenon
  <2>1. Spelt(r, k)
    BY DEF Spelt, Spells, Letters
  <2>2. r \in KeywordRules
    BY Zenon DEF KeywordRules
  <2>3. k \in G!Keyword
    BY Zenon DEF G!Keyword
  <2> QED
    BY <2>1, <2>2, <2>3
<1>7. /\ \A r : r = <<<<"f", "n">>, 2, 0, <<>>, "FN">>
                => \E k \in G!Keyword : Spelt(r, k)
      /\ \A k : k = <<<<"f", "n">>, "FN">>
                => \E r \in KeywordRules : Spelt(r, k)
  <2> SUFFICES ASSUME NEW r, r = <<<<"f", "n">>, 2, 0, <<>>, "FN">>,
                      NEW k, k = <<<<"f", "n">>, "FN">>
               PROVE  r \in KeywordRules /\ k \in G!Keyword /\ Spelt(r, k)
    BY Zenon
  <2>1. Spelt(r, k)
    BY DEF Spelt, Spells, Letters
  <2>2. r \in KeywordRules
    BY Zenon DEF KeywordRules
  <2>3. k \in G!Keyword
    BY Zenon DEF G!Keyword
  <2> QED
    BY <2>1, <2>2, <2>3
<1>8. /\ \A r : r = <<<<"f", "a">>, 2, 3, <<"l", "s", "e">>, "FALSE">>
                => \E k \in G!Keyword : Spelt(r, k)
      /\ \A k : k = <<<<"f", "a", "l", "s", "e">>, "FALSE">>
                => \E r \in KeywordRules : Spelt(r, k)
  <2> SUFFICES ASSUME NEW r, r = <<<<"f", "a">>, 2, 3, <<"l", "s", "e">>, "FALSE">>,
                      NEW k, k = <<<<"f", "a", "l", "s", "e">>, "FALSE">>
               PROVE  r \in KeywordRules /\ k \in G!Keyword /\ Spelt(r, k)
    BY Zenon
  <2>1. Spelt(r, k)
    BY DEF Spelt, Spells, Letters
  <2>2. r \in KeywordRules
    BY Zenon DEF KeywordRules
  <2>3. k \in G!Keyword
    BY Zenon DEF G!Keyword
  <2> QED
    BY <2>1, <2>2, <2>3
<1>9. /\ \A r : r = <<<<"f", "o">>, 2, 1, <<"r">>, "FOR">>
                => \E k \in G!Keyword : Spelt(r, k)
      /\ \A k : k = <<<<"f", "o", "r">>, "FOR">>
                => \E r \in KeywordRules : Spelt(r, k)
  <2> SUFFICES ASSUME NEW r, r = <<<<"f", "o">>, 2, 1, <<"r">>, "FOR">>,
                      NEW k, k = <<<<"f", "o", "r">>, "FOR">>
               PROVE  r \in KeywordRules /\ k \in G!Keyword /\ Spelt(r, k)
    BY Zenon
  <2>1. Spelt(r, k)
    BY DEF Spelt, Spells, Letters
  <2>2. r \in KeywordRules
    BY Zenon DEF KeywordRules
  <2>3. k \in G!Keyword
    BY Zenon DEF G!Keyword
  <2> QED
    BY <2>1, <2>2, <2>3
<1>10. /\ \A r : r = <<<<"i", "f">>, 2, 0, <<>>, "IF">>
                => \E k \in G!Keyword : Spelt(r, k)
      /\ \A k : k = <<<<"i", "f">>, "IF">>
                => \E r \in KeywordRules : Spelt(r, k)
  <2> SUFFICES ASSUME NEW r, r = <<<<"i", "f">>, 2, 0, <<>>, "IF">>,
                      NEW k, k = <<<<"i", "f">>, "IF">>
               PROVE  r \in KeywordRules /\ k \in G!Keyword /\ Spelt(r, k)
    BY Zenon
  <2>1. Spelt(r, k)
    BY DEF Spelt, Spells, Letters
  <2>2. r \in KeywordRules
    BY Zenon DEF KeywordRules
  <2>3. k \in G!Keyword
    BY Zenon DEF G!Keyword
  <2> QED
    BY <2>1, <2>2, <2>3
<1>11. /\ \A r : r = <<<<"l", "e">>, 2, 1, <<"t">>, "LET">>
                => \E k \in G!Keyword : Spelt(r, k)
      /\ \A k : k = <<<<"l", "e", "t">>, "LET">>
                => \E r \in KeywordRules : Spelt(r, k)
  <2> SUFFICES ASSUME NEW r, r = <<<<"l", "e">>, 2, 1, <<"t">>, "LET">>,
                      NEW k, k = <<<<"l", "e", "t">>, "LET">>
               PROVE  r \in KeywordRules /\ k \in G!Keyword /\ Spelt(r, k)
    BY Zenon
  <2>1. Spelt(r, k)
    BY DEF Spelt, Spells, Letters
  <2>2. r \in KeywordRules
    BY Zenon DEF KeywordRules
  <2>3. k \in G!Keyword
    BY Zenon DEF G!Keyword
  <2> QED
    BY <2>1, <2>2, <2>3
<1>12. /\ \A r : r = <<<<"l", "e">>, 2, 4, <<"n", "g", "t", "h">>, "LENGTH">>
                => \E k \in G!Keyword : Spelt(r, k)
      /\ \A k : k = <<<<"l", "e", "n", "g", "t", "h">>, "LENGTH">>
                => \E r \in KeywordRules : Spelt(r, k)
  <2> SUFFICES ASSUME NEW r, r = <<<<"l", "e">>, 2, 4, <<"n", "g", "t", "h">>, "LENGTH">>,
                      NEW k, k = <<<<"l", "e", "n", "g", "t", "h">>, "LENGTH">>
               PROVE  r \in KeywordRules /\ k \in G!Keyword /\ Spelt(r, k)
    BY Zenon
  <2>1. Spelt(r, k)
    BY DEF Spelt, Spells, Letters
  <2>2. r \in KeywordRules
    BY Zenon DEF KeywordRules
  <2>3. k \in G!Keyword
    BY Zenon DEF G!Keyword
  <2> QED
    BY <2>1, <2>2, <2>3
<1>13. /\ \A r : r = <<<<"n">>, 1, 2, <<"i", "l">>, "NIL">>
                => \E k \in G!Keyword : Spelt(r, k)
      /\ \A k : k = <<<<"n", "i", "l">>, "NIL">>
                => \E r \in KeywordRules : Spelt(r, k)
  <2> SUFFICES ASSUME NEW r, r = <<<<"n">>, 1, 2, <<"i", "l">>, "NIL">>,
                      NEW k, k = <<<<"n", "i", "l">>, "NIL">>
               PROVE  r \in KeywordRules /\ k \in G!Keyword /\ Spelt(r, k)
    BY Zenon
  <2>1. Spelt(r, k)
    BY DEF Spelt, Spells, Letters
  <2>2. r \in KeywordRules
    BY Zenon DEF KeywordRules
  <2>3. k \in G!Keyword
    BY Zenon DEF G!Keyword
  <2> QED
    BY <2>1, <2>2, <2>3
<1>14. /\ \A r : r = <<<<"o">>, 1, 1, <<"r">>, "OR">>
                => \E k \in G!Keyword : Spelt(r, k)
      /\ \A k : k = <<<<"o", "r">>, "OR">>
                => \E r \in KeywordRules : Spelt(r, k)
  <2> SUFFICES ASSUME NEW r, r = <<<<"o">>, 1, 1, <<"r">>, "OR">>,
                      NEW k, k = <<<<"o", "r">>, "OR">>
               PROVE  r \in KeywordRules /\ k \in G!Keyword /\ Spelt(r, k)
    BY Zenon
  <2>1. Spelt(r, k)
    BY DEF Spelt, Spells, Letters
  <2>2. r \in KeywordRules
    BY Zenon DEF KeywordRules
  <2>3. k \in G!Keyword
    BY Zenon DEF G!Keyword
  <2> QED
    BY <2>1, <2>2, <2>3
<1>15. /\ \A r : r = <<<<"r">>, 1, 5, <<"e", "t", "u", "r", "n">>, "RETURN">>
                => \E k \in G!Keyword : Spelt(r, k)
      /\ \A k : k = <<<<"r", "e", "t", "u", "r", "n">>, "RETURN">>
                => \E r \in KeywordRules : Spelt(r, k)
  <2> SUFFICES ASSUME NEW r, r = <<<<"r">>, 1, 5, <<"e", "t", "u", "r", "n">>, "RETURN">>,
                      NEW k, k = <<<<"r", "e", "t", "u", "r", "n">>, "RETURN">>
               PROVE  r \in KeywordRules /\ k \in G!Keyword /\ Spelt(r, k)
    BY Zenon
  <2>1. Spelt(r, k)
    BY DEF Spelt, Spells, Letters
  <2>2. r \in KeywordRules
    BY Zenon DEF KeywordRules
  <2>3. k \in G!Keyword
    BY Zenon DEF G!Keyword
  <2> QED
    BY <2>1, <2>2, <2>3
<1>16. /\ \A r : r = <<<<"s">>, 1, 5, <<"t", "r", "u", "c", "t">>, "STRUCT">>
                => \E k \in G!Keyword : Spelt(r, k)
      /\ \A k : k = <<<<"s", "t", "r", "u", "c", "t">>, "STRUCT">>
                => \E r \in KeywordRules : Spelt(r, k)
  <2> SUFFICES ASSUME NEW r, r = <<<<"s">>, 1, 5, <<"t", "r", "u", "c", "t">>, "STRUCT">>,
                      NEW k, k = <<<<"s", "t", "r", "u", "c", "t">>, "STRUCT">>
               PROVE  r \in KeywordRules /\ k \in G!Keyword /\ Spelt(r, k)
    BY Zenon
  <2>1. Spelt(r, k)
    BY DEF Spelt, Spells, Letters
  <2>2. r \in KeywordRules
    BY Zenon DEF KeywordRules
  <2>3. k \in G!Keyword
    BY Zenon DEF G!Keyword
  <2> QED
    BY <2>1, <2>2, <2>3
<1>17. /\ \A r : r = <<<<"t", "r">>, 2, 2, <<"u", "e">>, "TRUE">>
                => \E k \in G!Keyword : Spelt(r, k)
      /\ \A k : k = <<<<"t", "r", "u", "e">>, "TRUE">>
                => \E r \in KeywordRules : Spelt(r, k)
  <2> SUFFICES ASSUME NEW r, r = <<<<"t", "r">>, 2, 2, <<"u", "e">>, "TRUE">>,
                      NEW k, k = <<<<"t", "r", "u", "e">>, "TRUE">>
               PROVE  r \in KeywordRules /\ k \in G!Keyword /\ Spelt(r, k)
    BY Zenon
  <2>1. Spelt(r, k)
    BY DEF Spelt, Spells, Letters
  <2>2. r \in KeywordRules
    BY Zenon DEF KeywordRules
  <2>3. k \in G!Keyword
    BY Zenon DEF G!Keyword
  <2> QED
    BY <2>1, <2>2, <2>3
<1>18. /\ \A r : r = <<<<"t", "y">>, 2, 4, <<"p", "e", "o", "f">>, "TYPEOF">>
                => \E k \in G!Keyword : Spelt(r, k)
      /\ \A k : k = <<<<"t", "y", "p", "e", "o", "f">>, "TYPEOF">>
                => \E r \in KeywordRules : Spelt(r, k)
  <2> SUFFICES ASSUME NEW r, r = <<<<"t", "y">>, 2, 4, <<"p", "e", "o", "f">>, "TYPEOF">>,
                      NEW k, k = <<<<"t", "y", "p", "e", "o", "f">>, "TYPEOF">>
               PROVE  r \in KeywordRules /\ k \in G!Keyword /\ Spelt(r, k)
    BY Zenon
  <2>1. Spelt(r, k)
    BY DEF Spelt, Spells, Letters
  <2>2. r \in KeywordRules
    BY Zenon DEF KeywordRules
  <2>3. k \in G!Keyword
    BY Zenon DEF G!Keyword
  <2> QED
    BY <2>1, <2>2, <2>3
<1>19. /\ \A r : r = <<<<"w">>, 1, 4, <<"h", "i", "l", "e">>, "WHILE">>
                => \E k \in G!Keyword : Spelt(r, k)
      /\ \A k : k = <<<<"w", "h", "i", "l", "e">>, "WHILE">>
                => \E r \in KeywordRules : Spelt(r, k)
  <2> SUFFICES ASSUME NEW r, r = <<<<"w">>, 1, 4, <<"h", "i", "l", "e">>, "WHILE">>,
                      NEW k, k = <<<<"w", "h", "i", "l", "e">>, "WHILE">>
               PROVE  r \in KeywordRules /\ k \in G!Keyword /\ Spelt(r, k)
    BY Zenon
  <2>1. Spelt(r, k)
    BY DEF Spelt, Spells, Letters
  <2>2. r \in KeywordRules
    BY Zenon DEF KeywordRules
  <2>3. k \in G!Keyword
    BY Zenon DEF G!Keyword
  <2> QED
    BY <2>1, <2>2, <2>3
<1>20. ASSUME NEW r \in KeywordRules, r[5] # "IMPORT"
       PROVE  \E k \in G!Keyword : Spelt(r, k)
  BY <1>20, <1>1, <1>2, <1>3, <1>4, <1>5, <1>6, <1>7, <1>8, <1>9, <1>10, <1>11, <1>12, <1>13, <1>14,
     <1>15, <1>16, <1>17, <1>18, <1>19 DEF KeywordRules
<1>21. ASSUME NEW k \in G!Keyword
       PROVE  \E r \in KeywordRules : Spelt(r, k)
  BY <1>1, <1>2, <1>3, <1>4, <1>5, <1>6, <1>7, <1>8, <1>9, <1>10, <1>11, <1>12, <1>13, <1>14,
     <1>15, <1>16, <1>17, <1>18, <1>19 DEF G!Keyword
<1> QED
  BY <1>20, <1>21

LEMMA SixOfSeven ==
  ASSUME NEW S, NEW w \in Seq(S)
  PROVE  Len(w) = 7 => Len(SubSeq(w, 2, Len(w))) = 6
<1>1. Len(w) \in Nat /\ \A i \in 2 .. Len(w) : w[i] \in S
  OBVIOUS
<1> DEFINE n == Len(w)
<1> HIDE DEF n
<1>2. Len(SubSeq(w, 2, n)) = IF 2 <= n THEN n - 2 + 1 ELSE 0
  BY <1>1, SubSeqProperties DEF n
<1>3. n = 7 => Len(SubSeq(w, 2, n)) = 6
  BY <1>2
<1> QED
  BY <1>3 DEF n

\* No text is given the type of "import": the rule for it looks for a word of seven
\* characters whose last five are six.
LEMMA NoImport ==
  ASSUME NEW w \in Seq(STRING), NEW r \in KeywordRules, r[5] = "IMPORT",
         Len(w) = r[2] + r[3], SubSeq(w, r[2] + 1, Len(w)) = r[4]
  PROVE  FALSE
<1>1. r[2] = 1 /\ r[3] = 6 /\ Len(r[4]) = 5
  BY DEF KeywordRules
<1>2. Len(w) = 7
  BY <1>1
<1>3. Len(SubSeq(w, 2, Len(w))) = 6
  <2> DEFINE S == STRING
  <2>1. w \in Seq(S)
    OBVIOUS
  <2> HIDE DEF S
  <2> QED
    BY <1>2, <2>1, SixOfSeven, Zenon
<1>4. SubSeq(w, 2, Len(w)) = r[4]
  BY <1>1
<1> QED
  BY <1>1, <1>2, <1>3, <1>4

LEMMA OneType ==
  ASSUME NEW k \in G!Keyword, NEW l \in G!Keyword, k[1] = l[1]
  PROVE  k = l
BY DEF G!Keyword

\* identifier_type tells the reserved words from all others.
LEMMA WordType ==
  ASSUME NEW w \in Seq(STRING)
  PROVE  IdentifierType(w) =
           IF \E k \in G!Keyword : k[1] = w THEN (CHOOSE k \in G!Keyword : k[1] = w)[2]
           ELSE "IDENTIFIER"
<1> DEFINE Chosen == {r \in KeywordRules :
                        /\ Len(r[1]) <= Len(w)
                        /\ SubSeq(w, 1, Len(r[1])) = r[1]
                        /\ Len(w) = r[2] + r[3]
                        /\ SubSeq(w, r[2] + 1, Len(w)) = r[4]}
<1>1. IdentifierType(w) = IF Chosen = {} THEN "IDENTIFIER" ELSE (CHOOSE r \in Chosen : TRUE)[5]
  BY Zenon DEF IdentifierType
<1>2. ASSUME NEW r \in KeywordRules, NEW k, Spells(r, k)
      PROVE  r \in Chosen <=> w = k
  BY <1>2, SpellsWord
<1>3. \A r \in Chosen : r \in KeywordRules /\ r[5] # "IMPORT"
  BY NoImport
<1> HIDE DEF Chosen
<1>4. CASE Chosen = {}
  <2>1. ASSUME NEW k \in G!Keyword, k[1] = w
        PROVE  FALSE
    <3>1. PICK r \in KeywordRules : Spelt(r, k)
      BY RulesSpell
    <3>2. r \in Chosen
      BY <1>2, <2>1, <3>1 DEF Spelt
    <3> QED
      BY <1>4, <3>2
  <2> QED
    BY <1>1, <1>4, <2>1, Zenon
<1>5. CASE Chosen # {}
  <2> DEFINE r == CHOOSE r \in Chosen : TRUE
             l == CHOOSE k \in G!Keyword : k[1] = w
  <2>1. r \in Chosen
    BY <1>5
  <2>2. IdentifierType(w) = r[5]
    BY <1>1, <1>5, Zenon
  <2> HIDE DEF r
  <2>3. r \in KeywordRules /\ r[5] # "IMPORT"
    BY <1>3, <2>1
  <2>4. PICK k \in G!Keyword : Spelt(r, k)
    BY <2>3, RulesSpell
  <2>5. k[1] = w
    BY <1>2, <2>1, <2>3, <2>4 DEF Spelt
  <2>6. l \in G!Keyword /\ l[1] = w
    BY <2>5, Zenon
  <2> HIDE DEF l
  <2>7. l = k
    BY <2>5, <2>6, OneType
  <2>8. l[2] = r[5]
    BY <2>4, <2>7 DEF Spelt
  <2> QED
    BY <2>2, <2>5, <2>8, Zenon DEF l
<1> QED
  BY <1>4, <1>5

-----------------------------------------------------------------------------
(* The ends and the types of tokens *)

\* The r characters before c, and no more of those behind i, are backslashes.
Run(s, i, c, r) ==
  /\ r \in Nat /\ r <= c - i - 1
  /\ \A m \in 1 .. r : G!At(s, c - m) = "\\"
  /\ r = c - i - 1 \/ G!At(s, c - r - 1) # "\\"

LEMMA RunFirst ==
  ASSUME NEW s, NEW i \in Nat
  PROVE  Run(s, i, i + 1, 0)
BY DEF Run

LEMMA RunNext ==
  ASSUME NEW s, NEW i \in Nat, NEW c \in Nat, i < c, NEW r, Run(s, i, c, r)
  PROVE  /\ G!At(s, c) = "\\" => Run(s, i, c + 1, r + 1)
         /\ G!At(s, c) # "\\" => Run(s, i, c + 1, 0)
<1>1. /\ r \in Nat /\ r <= c - i - 1
      /\ \A m \in 1 .. r : G!At(s, c - m) = "\\"
      /\ r = c - i - 1 \/ G!At(s, c - r - 1) # "\\"
  BY DEF Run
<1>2. ASSUME G!At(s, c) = "\\"
      PROVE  Run(s, i, c + 1, r + 1)
  <2>1. ASSUME NEW m \in 1 .. r + 1
        PROVE  G!At(s, (c + 1) - m) = "\\"
    <3>1. CASE m = 1
      <4>1. (c + 1) - m = c
        BY <3>1
      <4> QED
        BY <1>2, <4>1
    <3>2. CASE m # 1
      <4>1. m - 1 \in 1 .. r /\ c - (m - 1) = (c + 1) - m
        BY <1>1, <3>2
      <4> QED
        BY <1>1, <4>1
    <3> QED
      BY <3>1, <3>2
  <2>2. (c + 1) - (r + 1) - 1 = c - r - 1 /\ r + 1 \in Nat /\ r + 1 <= (c + 1) - i - 1
    BY <1>1
  <2>3. r + 1 = (c + 1) - i - 1 \/ G!At(s, (c + 1) - (r + 1) - 1) # "\\"
    BY <1>1, <2>2
  <2> QED
    BY <2>1, <2>2, <2>3 DEF Run
<1>3. ASSUME G!At(s, c) # "\\"
      PROVE  Run(s, i, c + 1, 0)
  <2>1. (c + 1) - 0 - 1 = c /\ 0 <= (c + 1) - i - 1
    OBVIOUS
  <2>2. G!At(s, (c + 1) - 0 - 1) # "\\"
    BY <1>3, <2>1
  <2> QED
    BY <2>1, <2>2 DEF Run
<1> QED
  BY <1>2, <1>3

LEMMA RunCloses ==
  ASSUME NEW s, NEW i \in Nat, NEW c \in Nat, i < c, NEW r, Run(s, i, c, r)
  PROVE  G!Closes(s, i, c) <=> (G!At(s, c) = "\"" /\ r % 2 = 0)
<1> DEFINE S == {n \in 0 .. c - i - 1 : \A m \in 1 .. n : G!At(s, c - m) = "\\"}
<1>1. /\ r \in Nat /\ r <= c - i - 1
      /\ \A m \in 1 .. r : G!At(s, c - m) = "\\"
      /\ r = c - i - 1 \/ G!At(s, c - r - 1) # "\\"
  BY DEF Run
<1>2. r \in S
  <2>1. r \in 0 .. c - i - 1
    BY <1>1
  <2> QED
    BY <1>1, <2>1
<1>3. ASSUME NEW n \in S
      PROVE  n <= r
  <2>1. n \in 0 .. c - i - 1 /\ \A m \in 1 .. n : G!At(s, c - m) = "\\"
    OBVIOUS
  <2> HIDE DEF S
  <2> SUFFICES ASSUME r < n
               PROVE  FALSE
    BY <1>1, <2>1
  <2>2. r + 1 \in 1 .. n /\ c - (r + 1) = c - r - 1
    BY <1>1, <2>1
  <2>3. G!At(s, c - r - 1) = "\\"
    BY <2>1, <2>2
  <2> QED
    BY <1>1, <2>1, <2>3
<1>4. S \in SUBSET Int
  OBVIOUS
<1>5. G!Closes(s, i, c) <=> (G!At(s, c) = "\"" /\ G!Max(S) % 2 = 0)
  BY Zenon DEF G!Closes
<1> HIDE DEF S
<1>6. G!Max(S) = r
  BY <1>2, <1>3, <1>4, GreatestIs
<1> QED
  BY <1>5, <1>6

\* What characters begin.
LEMMA Beginnings ==
  /\ Letters \cap (G!Gap \cup G!Mark \cup {"/"}) = {}
  /\ G!Digit \cap (G!Gap \cup G!Mark \cup {"/"}) = {}
  /\ G!Mark \cap G!Gap = {}
  /\ "\"" \notin G!Gap \cup G!Mark /\ "/" \in G!Mark
  /\ Nul \notin G!Gap \cup G!Mark
  /\ "\n" \in G!Gap
BY DEF Letters, G!Digit, G!Gap, G!Mark, G!Operator, Nul

LEMMA WordEnds ==
  ASSUME NEW s \in Seq(Chars), NEW i \in Nat, 1 <= i, NEW c \in Nat, i < c, c <= G!End(s),
         G!At(s, i) \in Letters,
         \A j \in Nat : i <= j /\ j < c => G!At(s, j) \in Letters \cup G!Digit,
         G!At(s, c) \notin Letters \cup G!Digit
  PROVE  /\ G!TokenEnd(s, i) = c /\ ~ G!IsGap(s, i) /\ G!IsToken(s, i)
         /\ G!Type(s, i) = IdentifierType(SubSeq(s, i, c - 1))
<1>1. G!End(s) \in Nat /\ G!End(s) = Len(s) + 1 /\ Len(s) \in Nat
  BY TextFacts
<1> DEFINE S == {j \in i .. G!End(s) : G!At(s, j) \notin Letters \cup G!Digit}
           w == SubSeq(s, i, c - 1)
<1>2. G!TokenEnd(s, i) = G!First(s, S)
  BY DEF G!TokenEnd
<1>3. c \in S /\ S \in SUBSET Int
  BY <1>1
<1>4. ASSUME NEW j \in S
      PROVE  c <= j
  BY <1>1
<1> HIDE DEF S
<1>5. G!First(s, S) = c
  BY <1>3, <1>4, FirstLeast
<1>6. ~ G!IsGap(s, i) /\ G!IsToken(s, i)
  BY Beginnings DEF G!IsGap, G!IsToken
<1>7. w \in Seq(STRING)
  <2> DEFINE R == STRING
  <2>1. \A j \in 1 .. Len(s) : s[j] \in R
    BY DEF Chars
  <2> HIDE DEF R
  <2>2. \A j \in i .. c - 1 : s[j] \in R
    BY <1>1, <2>1
  <2>3. w \in Seq(R)
    BY <2>2, SubSeqProperties
  <2> QED
    BY <2>3 DEF R
<1>8. G!TokenEnd(s, i) = c
  BY <1>2, <1>5
<1>9. G!Type(s, i) = IF \E k \in G!Keyword : k[1] = w
                     THEN (CHOOSE k \in G!Keyword : k[1] = w)[2] ELSE "IDENTIFIER"
  BY <1>8, Zenon DEF G!Type
<1> HIDE DEF w
<1>10. G!Type(s, i) = IdentifierType(w)
  BY <1>7, <1>9, WordType, Zenon
<1> QED
  BY <1>6, <1>8, <1>10 DEF w

LEMMA NumberEnds ==
  ASSUME NEW s \in Seq(Chars), NEW i \in Nat, 1 <= i, NEW c \in Nat, i < c, c <= G!End(s),
         G!At(s, i) \in G!Digit, G!Numeral(s, i, c), G!At(s, c) \notin G!Digit,
         \/ G!At(s, c) # "." \/ G!At(s, c + 1) \notin G!Digit
         \/ \E p \in Nat : i <= p /\ p < c /\ G!At(s, p) = "."
  PROVE  /\ G!TokenEnd(s, i) = c /\ ~ G!IsGap(s, i) /\ G!IsToken(s, i)
         /\ G!Type(s, i) = "NUMBER"
<1>1. G!End(s) \in Nat
  BY TextFacts
<1> DEFINE S == {j \in i + 1 .. G!End(s) : G!Numeral(s, i, j)}
<1>2. G!TokenEnd(s, i) = G!Max(S)
  BY LetterDigit DEF G!TokenEnd
<1>3. c \in S /\ S \in SUBSET Int
  BY <1>1
<1>4. ASSUME NEW j \in S
      PROVE  j <= c
  <2>1. j \in Nat /\ G!Numeral(s, i, j)
    BY <1>1
  <2> HIDE DEF S
  <2> SUFFICES ASSUME c < j
               PROVE  FALSE
    BY <2>1
  <2>2. /\ \A k \in Nat : i <= k /\ k < j => G!At(s, k) \in G!Digit \cup {"."}
        /\ \A k, l \in Nat : /\ i <= k /\ k < j /\ G!At(s, k) = "."
                             /\ i <= l /\ l < j /\ G!At(s, l) = "."
                             => k = l
        /\ G!At(s, j - 1) # "."
    <3>1. \A k \in Nat : i <= k /\ k < j => k \in i .. j - 1
      BY <2>1
    <3>2. /\ \A k \in i .. j - 1 : G!At(s, k) \in G!Digit \cup {"."}
          /\ \A k, l \in i .. j - 1 : G!At(s, k) = "." /\ G!At(s, l) = "." => k = l
          /\ G!At(s, j - 1) # "."
      BY <2>1, Zenon DEF G!Numeral
    <3> QED
      BY <3>1, <3>2
  <2>3. G!At(s, c) = "."
    BY <2>2
  <2>4. ~ \E p \in Nat : i <= p /\ p < c /\ G!At(s, p) = "."
    BY <2>1, <2>2, <2>3
  <2>5. c + 1 # j
    <3>1. c + 1 = j => j - 1 = c
      OBVIOUS
    <3> QED
      BY <2>2, <2>3, <3>1
  <2>6. c + 1 \in Nat /\ i <= c + 1 /\ c + 1 < j
    BY <2>1, <2>5
  <2>7. G!At(s, c + 1) # "."
    BY <2>2, <2>3, <2>6
  <2>8. G!At(s, c + 1) \in G!Digit
    BY <2>2, <2>6, <2>7
  <2> QED
    BY <2>3, <2>4, <2>8
<1> HIDE DEF S
<1>5. G!Max(S) = c
  BY <1>3, <1>4, GreatestIs
<1>6. ~ G!IsGap(s, i) /\ G!IsToken(s, i)
  BY Beginnings DEF G!IsGap, G!IsToken
<1>7. G!Type(s, i) = "NUMBER"
  BY LetterDigit DEF G!Type
<1> QED
  BY <1>2, <1>5, <1>6, <1>7

LEMMA ClosingIs ==
  ASSUME NEW s \in Seq(Chars), NEW i \in Nat
  PROVE  /\ G!Closing(s, i) \in SUBSET Int
         /\ \A j \in Int : j \in G!Closing(s, i) <=> (i < j /\ j < G!End(s) /\ G!Closes(s, i, j))
<1> DEFINE n == Len(s)
<1>1. n \in Nat /\ G!End(s) = n + 1
  BY TextFacts
<1>2. G!Closing(s, i) = {j \in i + 1 .. n : G!Closes(s, i, j)}
  BY Zenon DEF G!Closing
<1> HIDE DEF n
<1> DEFINE e == G!End(s)
<1>3. e = n + 1
  BY <1>1
<1> HIDE DEF e
<1>4. \A j \in Int : j \in i + 1 .. n <=> (i < j /\ j < e)
  BY <1>1, <1>3
<1>5. i + 1 .. n \in SUBSET Int
  BY <1>1
<1> QED
  BY <1>2, <1>4, <1>5 DEF e

LEMMA RunClosing ==
  ASSUME NEW s \in Seq(Chars), NEW i \in Nat, NEW c \in Nat, i < c, c < G!End(s),
         NEW r, Run(s, i, c, r)
  PROVE  c \in G!Closing(s, i) <=> (G!At(s, c) = "\"" /\ r % 2 = 0)
<1>1. G!Closes(s, i, c) <=> (G!At(s, c) = "\"" /\ r % 2 = 0)
  BY RunCloses
<1>2. c \in Int
  OBVIOUS
<1> QED
  BY <1>1, <1>2, ClosingIs, Zenon

LEMMA StringEnds ==
  ASSUME NEW s \in Seq(Chars), NEW i \in Nat, NEW c \in Nat,
         G!At(s, i) = "\"", c \in G!Closing(s, i), \A j \in G!Closing(s, i) : c <= j
  PROVE  /\ G!TokenEnd(s, i) = c + 1 /\ ~ G!IsGap(s, i) /\ G!IsToken(s, i)
         /\ G!Type(s, i) = "STRING"
<1> DEFINE S == G!Closing(s, i)
<1>1. G!TokenEnd(s, i) = IF S = {} THEN G!End(s) ELSE G!Min(S) + 1
  BY LetterDigit DEF G!TokenEnd
<1>2. S \in SUBSET Int
  BY ClosingIs
<1>3. G!IsToken(s, i)
  BY DEF G!IsToken
<1> HIDE DEF S
<1>4. c \in S /\ \A j \in S : c <= j
  BY DEF S
<1>5. G!Min(S) = c
  BY <1>2, <1>4, LeastIs
<1>6. G!TokenEnd(s, i) = c + 1
  BY <1>1, <1>4, <1>5
<1>7. ~ G!IsGap(s, i)
  BY Beginnings DEF G!IsGap
<1>8. G!Type(s, i) = "STRING"
  BY LetterDigit DEF G!Type
<1> QED
  BY <1>3, <1>6, <1>7, <1>8

LEMMA StringOpen ==
  ASSUME NEW s \in Seq(Chars), NEW i \in Nat, G!At(s, i) = "\"", G!Closing(s, i) = {}
  PROVE  /\ G!TokenEnd(s, i) = G!End(s) /\ ~ G!IsGap(s, i) /\ ~ G!IsToken(s, i)
         /\ G!Error(s, i) = [start |-> i, line |-> G!LineAt(s, G!End(s))]
<1>1. G!TokenEnd(s, i) = G!End(s)
  BY LetterDigit DEF G!TokenEnd
<1>2. ~ G!IsGap(s, i) /\ ~ G!IsToken(s, i)
  BY LetterDigit, Beginnings DEF G!IsGap, G!IsToken
<1>3. G!Error(s, i) = [start |-> i, line |-> G!LineAt(s, G!End(s))]
  BY Zenon DEF G!Error
<1> QED
  BY <1>1, <1>2, <1>3

LEMMA MarkEnds ==
  ASSUME NEW s \in Seq(Chars), NEW i \in Nat, G!At(s, i) \in G!Mark,
         ~ (G!At(s, i) = "/" /\ G!At(s, i + 1) \in {"/", "*"})
  PROVE  /\ G!TokenEnd(s, i) = IF G!At(s, i) \in G!Operator /\ G!At(s, i + 1) = "=" THEN i + 2
                               ELSE i + 1
         /\ ~ G!IsGap(s, i) /\ G!IsToken(s, i)
         /\ G!Type(s, i) = IF G!TokenEnd(s, i) = i + 2 THEN G!At(s, i) \o "=" ELSE G!At(s, i)
<1>1. G!At(s, i) \notin Letters /\ G!At(s, i) \notin G!Digit /\ G!At(s, i) # "\""
  BY Beginnings
<1>2. G!TokenEnd(s, i) = IF G!At(s, i) \in G!Operator /\ G!At(s, i + 1) = "=" THEN i + 2
                         ELSE i + 1
  BY <1>1, Zenon DEF G!TokenEnd
<1>3. ~ G!IsGap(s, i) /\ G!IsToken(s, i)
  BY Beginnings DEF G!IsGap, G!IsToken
<1>4. G!Type(s, i) = IF G!TokenEnd(s, i) = i + 2 THEN G!At(s, i) \o "=" ELSE G!At(s, i)
  BY <1>1, Zenon DEF G!Type
<1> QED
  BY <1>2, <1>3, <1>4

LEMMA NothingBegins ==
  ASSUME NEW s \in Seq(Chars), NEW i \in Nat,
         G!At(s, i) \notin Letters \cup G!Digit \cup G!Mark \cup G!Gap \cup {"\""}
  PROVE  /\ G!TokenEnd(s, i) = i + 1 /\ ~ G!IsGap(s, i) /\ ~ G!IsToken(s, i)
         /\ G!Error(s, i) = [start |-> i, line |-> G!LineAt(s, i)]
<1>1. G!TokenEnd(s, i) = i + 1
  <2>1. G!At(s, i) \notin G!Operator
    BY DEF G!Mark
  <2> QED
    BY <2>1, Zenon DEF G!TokenEnd
<1>2. ~ G!IsGap(s, i) /\ ~ G!IsToken(s, i)
  BY Beginnings DEF G!IsGap, G!IsToken
<1>3. G!Error(s, i) = [start |-> i, line |-> G!LineAt(s, i)]
  <2>1. G!At(s, i) # "\""
    OBVIOUS
  <2> QED
    BY <2>1, Zenon DEF G!Error
<1> QED
  BY <1>1, <1>2, <1>3

-----------------------------------------------------------------------------
(* Where in the text the scanner is *)

\* What is in the source and where in it the scanner is; a line feed is a
\* character, so there are no more lines than characters read.
Within(n, from, at, lines) ==
  /\ n \in Nat /\ at \in 1 .. n + 1
  /\ from \in 1 .. at
  /\ lines \in 1 .. at

\* The loops that are behind the first character of a token.
Inside == {"identifier", "number", "fraction", "string"}

Outside == {"skip", "line comment", "block comment", "done"}

InLoop(m, from, at) == m \in Outside \/ (m \in Inside /\ from < at)

Placed(ts) ==
  /\ \E S : ts \in Seq(S)
  /\ \A i \in 1 .. Len(ts) : ts[i].start \in 1 .. ts[i].end

Reported(es, n) == \A e \in es : e.start \in 1 .. n

IndInv ==
  /\ source \in Sources
  /\ Within(Len(source), start, current, line)
  /\ InLoop(mode, start, current)
  /\ Placed(tokens)
  /\ Reported(errors, Len(source))

-----------------------------------------------------------------------------
(* Every step keeps it there *)

\* Only behind the text is there a terminator, and nothing is read behind it.
LEMMA Reading ==
  ASSUME IndInv
  PROVE  /\ Peek # Nul => current + 1 <= Len(source) + 1
         /\ PeekNext # Nul => current + 2 <= Len(source) + 1
<1>1. Len(source) \in Nat /\ current \in 1 .. Len(source) + 1
  BY DEF IndInv, Within
<1>2. Peek # Nul => current <= Len(source)
  BY DEF Peek, CharAt
<1>3. PeekNext # Nul => current + 1 <= Len(source)
  BY <1>2 DEF PeekNext, CharAt
<1> QED
  BY <1>1, <1>2, <1>3

\* A token more.
LEMMA PlacedAppend ==
  ASSUME NEW ts, Placed(ts), NEW t, t.start \in 1 .. t.end
  PROVE  Placed(Append(ts, t))
<1>1. PICK S : ts \in Seq(S)
  BY DEF Placed
<1> DEFINE S2 == S \cup {t}
           ts2 == Append(ts, t)
<1>2. ts \in Seq(S2) /\ t \in S2 /\ Len(ts) \in Nat
  <2>1. ts \in Seq(S2)
    BY <1>1, SeqMonotonic, S \subseteq S2
  <2> QED
    BY <1>1, <2>1
<1>3. /\ ts2 \in Seq(S2) /\ Len(ts2) = Len(ts) + 1
      /\ \A i \in 1 .. Len(ts) : ts2[i] = ts[i]
      /\ ts2[Len(ts) + 1] = t
  <2> HIDE DEF S2
  <2> QED
    BY <1>2, AppendProperties
<1> HIDE DEF ts2
<1>4. ASSUME NEW i \in 1 .. Len(ts2)
      PROVE  ts2[i].start \in 1 .. ts2[i].end
  <2>1. CASE i \in 1 .. Len(ts)
    BY <1>3, <2>1 DEF Placed
  <2>2. CASE i = Len(ts) + 1
    BY <1>3, <2>2
  <2> QED
    BY <1>2, <1>3, <2>1, <2>2
<1>5. Placed(ts2)
  <2>1. \E R : ts2 \in Seq(R)
    BY <1>3
  <2> QED
    BY <1>4, <2>1 DEF Placed
<1> QED
  BY <1>5 DEF ts2

\* Between tokens anything goes; in a token its first character is behind.
LEMMA Loops ==
  ASSUME NEW m, NEW from \in Int, NEW at \in Int
  PROVE  /\ m \in Outside => InLoop(m, from, at)
         /\ m \in Inside /\ from < at => InLoop(m, from, at)
         /\ InLoop(m, from, at) => \A to \in Int : at <= to => InLoop(m, from, to)
BY DEF InLoop

\* What a step has to keep.
LEMMA StaysWithin ==
  ASSUME IndInv, source' = source,
         NEW at \in Int, current' = at, current <= at, at <= Len(source) + 1,
         NEW from \in Int, start' = from, 1 <= from, from <= at,
         line' \in {line} \/ (line' \in {line, line + 1} /\ current + 1 <= at),
         InLoop(mode', from, at), Placed(tokens'), Reported(errors', Len(source))
  PROVE  IndInv'
<1> DEFINE n == Len(source)
<1>1. n \in Nat /\ current \in 1 .. n + 1 /\ line \in 1 .. current /\ at <= n + 1
  BY DEF IndInv, Within
<1>2. Within(n, from, at, line')
  <2> HIDE DEF n
  <2>1. line' \in 1 .. at
    BY <1>1
  <2> QED
    BY <1>1, <2>1 DEF Within
<1> QED
  BY <1>2 DEF IndInv

LEMMA InvInitially ==
  Init => IndInv
<1> SUFFICES ASSUME Init
             PROVE  IndInv
  OBVIOUS
<1>1. source \in Sources /\ Len(source) \in Nat
  BY SourcesAssumption, TextFacts DEF Init, Chars
<1>2. Placed(tokens)
  <2>1. <<>> \in Seq({})
    BY EmptySeq
  <2>2. \E S : tokens \in Seq(S)
    BY <2>1 DEF Init
  <2>3. Len(tokens) = 0
    BY EmptySeq DEF Init
  <2> QED
    BY <2>2, <2>3 DEF Placed
<1>3. Within(Len(source), start, current, line)
  BY <1>1 DEF Init, Within
<1>4. Reported(errors, Len(source))
  BY DEF Init, Reported
<1>5. InLoop(mode, start, current)
  BY DEF Init, Outside, InLoop
<1> QED
  BY <1>1, <1>2, <1>3, <1>4, <1>5 DEF IndInv

LEMMA InvKept ==
  IndInv /\ [Next]_vars => IndInv'
<1> SUFFICES ASSUME IndInv, [Next]_vars
             PROVE  IndInv'
  OBVIOUS
<1> DEFINE n == Len(source)
<1>1. /\ n \in Nat /\ current \in Int /\ 1 <= current /\ current <= n + 1
      /\ start \in Int /\ 1 <= start /\ start <= current
  BY DEF IndInv, Within
<1>2. Placed(tokens) /\ Reported(errors, n) /\ InLoop(mode, start, current)
  BY DEF IndInv
<1>3. /\ Peek # Nul => current + 1 <= n + 1
      /\ PeekNext # Nul => current + 2 <= n + 1
  BY Reading
<1>4. ASSUME source' = source, tokens' = tokens, errors' = errors, start' = start,
             current' = current + 1, Peek # Nul, mode' = mode, line' \in {line, line + 1}
      PROVE  IndInv'
  <2>1. InLoop(mode', start, current + 1)
    BY <1>1, <1>2, <1>4, Loops
  <2>2. current + 1 <= n + 1
    BY <1>3, <1>4
  <2> QED
    BY <1>1, <1>2, <1>4, <2>1, <2>2, StaysWithin
<1>5. ASSUME source' = source, tokens' = tokens, errors' = errors, start' = start,
             current' = current, line' = line, mode' \in Outside
      PROVE  IndInv'
  <2>1. InLoop(mode', start, current)
    BY <1>5 DEF InLoop
  <2> QED
    BY <1>1, <1>2, <1>5, <2>1, StaysWithin
<1>6. ASSUME source' = source, tokens' = tokens, errors' = errors, start' = start,
             current' = current + 2, line' = line, mode' \in Outside, PeekNext # Nul
      PROVE  IndInv'
  <2>1. InLoop(mode', start, current + 2)
    BY <1>6 DEF InLoop
  <2>2. current + 2 <= n + 1
    BY <1>3, <1>6
  <2> QED
    BY <1>1, <1>2, <1>6, <2>1, <2>2, StaysWithin
<1>7. ASSUME source' = source, NEW end \in Int, current <= end, end <= n + 1, current' = end,
             NEW from \in Int, 1 <= from, from <= current, start' = from, NEW type, NEW at,
             tokens' = Append(tokens, [type |-> type, start |-> from, end |-> end, line |-> at]),
             errors' = errors, line' = line, mode' \in Outside
      PROVE  IndInv'
  <2> DEFINE t == [type |-> type, start |-> from, end |-> end, line |-> at]
  <2>1. t.start \in 1 .. t.end
    BY <1>1, <1>7
  <2>2. Placed(tokens')
    <3> HIDE DEF t
    <3>1. tokens' = Append(tokens, t)
      BY <1>7 DEF t
    <3> QED
      BY <1>2, <2>1, <3>1, PlacedAppend
  <2>3. InLoop(mode', from, end)
    BY <1>7 DEF InLoop
  <2>4. from <= end
    BY <1>1, <1>7
  <2> QED
    BY <1>2, <1>7, <2>2, <2>3, <2>4, StaysWithin
<1>8. ASSUME source' = source, tokens' = tokens, NEW from \in 1 .. n, NEW at,
             errors' = errors \cup {[start |-> from, line |-> at]}, start' = from,
             NEW to \in Int, current' = to, current <= to, from <= to, to <= n + 1,
             line' = line, mode' \in Outside
      PROVE  IndInv'
  <2>1. Reported(errors', n)
    BY <1>2, <1>8 DEF Reported
  <2>2. InLoop(mode', from, to)
    BY <1>8 DEF InLoop
  <2>3. from \in Int /\ 1 <= from
    BY <1>1, <1>8
  <2> QED
    BY <1>1, <1>2, <1>8, <2>1, <2>2, <2>3, StaysWithin
<1> HIDE DEF n
<1>10. CASE SkipBlank
  <2>1. Peek # Nul
    BY <1>10 DEF SkipBlank, Blanks, Nul
  <2>2. /\ source' = source /\ current' = current + 1 /\ start' = start /\ tokens' = tokens
        /\ errors' = errors /\ mode' = mode /\ line' \in {line, line + 1}
    BY <1>10 DEF SkipBlank
  <2> QED
    BY <1>4, <2>1, <2>2
<1>11. CASE EnterComment
  <2>1. /\ source' = source /\ start' = start /\ tokens' = tokens /\ errors' = errors /\ line' = line
        /\ mode' \in Outside
        /\ current' = current \/ (current' = current + 2 /\ PeekNext # Nul)
    BY <1>11 DEF EnterComment, Outside, Nul
  <2> QED
    BY <1>5, <1>6, <2>1
<1>12. CASE LineComment
  <2>1. /\ source' = source /\ start' = start /\ tokens' = tokens /\ errors' = errors /\ line' = line
        /\ \/ current' = current + 1 /\ mode' = mode /\ Peek # Nul
           \/ current' = current /\ mode' \in Outside
    BY <1>12 DEF LineComment, Outside
  <2> QED
    BY <1>4, <1>5, <2>1
<1>13. CASE BlockComment
  <2>1. /\ source' = source /\ start' = start /\ tokens' = tokens /\ errors' = errors
        /\ \/ current' = current + 1 /\ line' \in {line, line + 1} /\ mode' = mode /\ Peek # Nul
           \/ current' = current + 2 /\ line' = line /\ mode' \in Outside /\ PeekNext # Nul
           \/ current' = current /\ line' = line /\ mode' \in Outside
    BY <1>13 DEF BlockComment, Outside, Nul
  <2> QED
    BY <1>4, <1>5, <1>6, <2>1
<1>14. CASE ScanEnd
  <2>1. /\ source' = source /\ start' = current /\ current' = current /\ errors' = errors /\ line' = line
        /\ mode' \in Outside
        /\ tokens' = Append(tokens, [type |-> "EOF", start |-> current, end |-> current, line |-> line])
    BY <1>14 DEF ScanEnd, Outside
  <2> QED
    BY <1>1, <1>7, <2>1
<1>15. CASE ScanBegin
  <2>1. /\ source' = source /\ start' = current /\ current' = current + 1 /\ errors' = errors
        /\ line' = line /\ tokens' = tokens /\ mode' \in Inside
    BY <1>15 DEF ScanBegin, Inside
  <2>2. Peek # Nul
    BY <1>15 DEF ScanBegin, Letters, Digits, Nul
  <2>3. InLoop(mode', current, current + 1)
    BY <1>1, <2>1, Loops
  <2>4. current + 1 <= Len(source) + 1
    BY <1>3, <2>2 DEF n
  <2> QED
    BY <1>1, <1>2, <2>1, <2>3, <2>4, StaysWithin DEF n
<1>16. CASE ScanPunctuation
  <2> DEFINE end == IF Peek \in Compound /\ PeekNext = "=" THEN current + 2 ELSE current + 1
  <2>1. /\ source' = source /\ start' = current /\ current' = end /\ errors' = errors
        /\ line' = line /\ mode' \in Outside
        /\ tokens' = Append(tokens, [type |-> IF end = current + 2 THEN Peek \o "=" ELSE Peek,
                                     start |-> current, end |-> end, line |-> line])
    BY <1>16 DEF ScanPunctuation, Outside
  <2>2. Peek # Nul
    BY <1>16 DEF ScanPunctuation, Single, Compound, Nul
  <2>3. end \in Int /\ current <= end /\ end <= n + 1
    <3>1. current + 1 <= n + 1 /\ (PeekNext = "=" => current + 2 <= n + 1)
      BY <1>3, <2>2 DEF Nul
    <3> QED
      BY <1>1, <3>1
  <2> HIDE DEF end
  <2> QED
    BY <1>1, <1>7, <2>1, <2>3
<1>17. CASE ScanUnexpected
  <2>1. /\ source' = source /\ start' = current /\ current' = current + 1 /\ tokens' = tokens
        /\ line' = line /\ mode' \in Outside /\ Peek # Nul
        /\ errors' = errors \cup {[start |-> current, line |-> line]}
    BY <1>17 DEF ScanUnexpected, Outside
  <2>2. current + 1 <= n + 1
    BY <1>3, <2>1
  <2>3. current \in 1 .. n
    BY <1>1, <2>2
  <2> QED
    BY <1>1, <1>8, <2>1, <2>2, <2>3
<1>18. CASE ScanIdentifier
  <2>1. CASE Peek \in Letters \cup Digits
    <3>1. /\ source' = source /\ start' = start /\ errors' = errors /\ line' = line
          /\ current' = current + 1 /\ mode' = mode /\ tokens' = tokens
      BY <1>18, <2>1 DEF ScanIdentifier
    <3>2. Peek # Nul
      BY <2>1 DEF Letters, Digits, Nul
    <3> QED
      BY <1>4, <3>1, <3>2
  <2>2. CASE Peek \notin Letters \cup Digits
    <3>1. /\ source' = source /\ start' = start /\ errors' = errors /\ line' = line
          /\ current' = current /\ mode' \in Outside
          /\ tokens' = Append(tokens, [type |-> IdentifierType(Text), start |-> start,
                                       end |-> current, line |-> line])
      BY <1>18, <2>2 DEF ScanIdentifier, MakeToken, Outside
    <3> QED
      BY <1>1, <1>7, <3>1
  <2> QED
    BY <2>1, <2>2
<1>19. CASE ScanNumber
  <2>1. source' = source /\ start' = start /\ errors' = errors /\ line' = line /\ mode \in Inside
    BY <1>19 DEF ScanNumber, Inside
  <2>2. CASE Peek \in Digits \/ (mode = "number" /\ Peek = "." /\ PeekNext \in Digits)
    <3>1. current' = current + 1 /\ tokens' = tokens /\ mode' \in Inside
      BY <1>19, <2>2 DEF ScanNumber, Digits, Inside
    <3>2. Peek # Nul
      BY <2>2 DEF Digits, Nul
    <3>3. start < current
      BY <1>2, <2>1 DEF InLoop, Inside, Outside
    <3>4. InLoop(mode', start, current + 1)
      BY <1>1, <3>1, <3>3, Loops
    <3>5. current + 1 <= Len(source) + 1
      BY <1>3, <3>2 DEF n
    <3> QED
      BY <1>1, <1>2, <2>1, <3>1, <3>4, <3>5, StaysWithin DEF n
  <2>3. CASE ~ (Peek \in Digits \/ (mode = "number" /\ Peek = "." /\ PeekNext \in Digits))
    <3>1. /\ current' = current /\ mode' \in Outside
          /\ tokens' = Append(tokens, [type |-> "NUMBER", start |-> start,
                                       end |-> current, line |-> line])
      BY <1>19, <2>3 DEF ScanNumber, MakeToken, Outside
    <3> QED
      BY <1>1, <1>7, <2>1, <3>1
  <2> QED
    BY <2>2, <2>3
<1>20. CASE ScanString
  <2>1. source' = source /\ start' = start /\ mode = "string"
    BY <1>20 DEF ScanString
  <2>2. mode \in Inside /\ start < current
    BY <1>2, <2>1 DEF InLoop, Inside, Outside
  <2>3. CASE Peek \notin {"\"", Nul}
    <3> DEFINE taken == IF Peek = "\\" /\ PeekNext # Nul THEN current + 1 ELSE current
    <3>1. /\ line' \in {line, line + 1} /\ current' = taken + 1
          /\ mode' = mode /\ tokens' = tokens /\ errors' = errors
      BY <1>20, <2>3 DEF ScanString
    <3>2. taken \in Int /\ current <= taken /\ taken + 1 <= n + 1
      <4>1. current + 1 <= n + 1 /\ (PeekNext # Nul => current + 2 <= n + 1)
        BY <1>3, <2>3
      <4> QED
        BY <1>1, <4>1
    <3> HIDE DEF taken
    <3>3. InLoop(mode', start, taken + 1)
      BY <1>1, <2>2, <3>1, <3>2, Loops
    <3>4. taken + 1 \in Int /\ current + 1 <= taken + 1 /\ current <= taken + 1 /\ start <= taken + 1
      BY <1>1, <3>2
    <3> QED
      BY <1>1, <1>2, <2>1, <3>1, <3>2, <3>3, <3>4, StaysWithin DEF n
  <2>4. CASE Peek = Nul
    <3>1. /\ errors' = errors \cup {[start |-> start, line |-> line]}
          /\ mode' \in Outside /\ current' = current /\ line' = line /\ tokens' = tokens
      BY <1>20, <2>4 DEF ScanString, Outside, Nul
    <3>2. start \in 1 .. n
      BY <1>1, <2>2
    <3> QED
      BY <1>1, <1>8, <2>1, <3>1, <3>2
  <2>5. CASE Peek = "\""
    <3>1. /\ current' = current + 1 /\ mode' \in Outside /\ line' = line /\ errors' = errors
          /\ tokens' = Append(tokens, [type |-> "STRING", start |-> start, end |-> current + 1,
                                       line |-> line])
      BY <1>20, <2>5 DEF ScanString, MakeToken, Outside, Nul
    <3>2. Peek # Nul
      BY <2>5 DEF Nul
    <3>3. current + 1 \in Int /\ current <= current + 1 /\ current + 1 <= n + 1
      BY <1>1, <1>3, <3>2
    <3> QED
      BY <1>1, <1>7, <2>1, <3>1, <3>3
  <2> QED
    BY <2>3, <2>4, <2>5
<1>21. CASE UNCHANGED vars
  BY <1>21 DEF vars, IndInv
<1> QED
  BY <1>10, <1>11, <1>12, <1>13, <1>14, <1>15, <1>16, <1>17, <1>18, <1>19, <1>20, <1>21 DEF Next

-----------------------------------------------------------------------------
(* The invariant behind TokensRight: where in each loop the scanner is *)

LineEnd(s, c) == G!First(s, {j \in c .. G!End(s) : G!At(s, j) = "\n"})

BlockEnd(s, c) ==
  G!First(s, {j \in c + 2 .. G!End(s) : G!At(s, j - 2) = "*" /\ G!At(s, j - 1) = "/"})

InWord(s, i, c) ==
  /\ G!At(s, i) \in Letters
  /\ \A j \in Nat : i <= j /\ j < c => G!At(s, j) \in Letters \cup G!Digit

InDigits(s, i, c) == \A j \in Nat : i <= j /\ j < c => G!At(s, j) \in G!Digit

\* The point is behind a digit and in front of one.
InFraction(s, i, c) ==
  \E p \in Nat :
    /\ i < p /\ p < c /\ G!At(s, p) = "."
    /\ \A j \in Nat : i <= j /\ j < c => j = p \/ G!At(s, j) \in G!Digit
    /\ p # c - 1 \/ G!At(s, c) \in G!Digit

\* The string is not closed before c, where an escape has not begun.
InString(s, i, c) ==
  /\ G!At(s, i) = "\""
  /\ \A j \in G!Closing(s, i) : c <= j
  /\ c = G!End(s) \/ \E r : Run(s, i, c, r) /\ r % 2 = 0

InPlace(m, s, i, c, ts, es) ==
  /\ m = "skip" => Whole(s, ts, es, c)
  /\ m = "line comment" => Whole(s, ts, es, LineEnd(s, c))
  /\ m = "block comment" => Whole(s, ts, es, BlockEnd(s, c))
  /\ m = "identifier" => Whole(s, ts, es, i) /\ InWord(s, i, c)
  /\ m = "number" => Whole(s, ts, es, i) /\ InDigits(s, i, c)
  /\ m = "fraction" => Whole(s, ts, es, i) /\ InFraction(s, i, c)
  /\ m = "string" => Whole(s, ts, es, i) /\ InString(s, i, c)
  /\ m = "done" => ts = G!Scan(s)[1].tokens /\ es = G!Scan(s)[1].errors

Scanned ==
  /\ line = G!LineAt(source, current)
  /\ InPlace(mode, source, start, current, tokens, errors)

LEMMA Places ==
  ASSUME NEW s, NEW i, NEW c, NEW ts, NEW es
  PROVE  /\ InPlace("skip", s, i, c, ts, es) <=> Whole(s, ts, es, c)
         /\ InPlace("line comment", s, i, c, ts, es) <=> Whole(s, ts, es, LineEnd(s, c))
         /\ InPlace("block comment", s, i, c, ts, es) <=> Whole(s, ts, es, BlockEnd(s, c))
         /\ InPlace("identifier", s, i, c, ts, es) <=> Whole(s, ts, es, i) /\ InWord(s, i, c)
         /\ InPlace("number", s, i, c, ts, es) <=> Whole(s, ts, es, i) /\ InDigits(s, i, c)
         /\ InPlace("fraction", s, i, c, ts, es) <=> Whole(s, ts, es, i) /\ InFraction(s, i, c)
         /\ InPlace("string", s, i, c, ts, es) <=> Whole(s, ts, es, i) /\ InString(s, i, c)
         /\ InPlace("done", s, i, c, ts, es) <=>
              ts = G!Scan(s)[1].tokens /\ es = G!Scan(s)[1].errors
BY DEF InPlace

\* What the scanner reads are the characters of the text.
LEMMA Seen ==
  ASSUME IndInv
  PROVE  /\ source \in Seq(Chars)
         /\ start \in Nat /\ 1 <= start /\ start <= current
         /\ current \in Nat /\ 1 <= current /\ current <= G!End(source) /\ G!End(source) \in Nat
         /\ Peek = G!At(source, current) /\ PeekNext = G!At(source, current + 1)
         /\ Peek = Nul <=> current = G!End(source)
         /\ PeekNext # Nul => current + 2 <= G!End(source)
         /\ mode \in Inside => start < current
<1>1. source \in Seq(Chars)
  BY SourcesAssumption DEF IndInv, Chars
<1> DEFINE e == G!End(source)
<1>2. /\ e = Len(source) + 1 /\ e \in Nat
      /\ \A i \in Int : G!At(source, i) # Nul <=> (1 <= i /\ i < e)
      /\ \A i \in Nat : 1 <= i => G!At(source, i) = CharAt(source, i)
  BY <1>1, TextFacts
<1>3. /\ start \in Nat /\ 1 <= start /\ start <= current
      /\ current \in Nat /\ 1 <= current /\ current <= e
  BY <1>2 DEF IndInv, Within
<1> HIDE DEF e
<1>4. Peek = G!At(source, current)
  BY <1>2, <1>3 DEF Peek
<1>5. Peek = Nul <=> current = e
  BY <1>2, <1>3, <1>4
<1>6. current + 1 \in Nat /\ 1 <= current + 1
  BY <1>3
<1>7. CharAt(source, current + 1) = G!At(source, current + 1)
  BY <1>2, <1>6
<1>8. current = e => G!At(source, current + 1) = Nul
  BY <1>2, <1>3, <1>6
<1>9. PeekNext = G!At(source, current + 1)
  BY <1>5, <1>7, <1>8 DEF PeekNext
<1>10. PeekNext # Nul => current + 2 <= e
  BY <1>2, <1>3, <1>9
<1>11. mode \in Inside => start < current
  BY DEF IndInv, InLoop, Inside, Outside
<1> QED
  BY <1>1, <1>2, <1>3, <1>4, <1>5, <1>9, <1>10, <1>11 DEF e

LEMMA SameChars ==
  /\ G!Digit = Digits /\ G!Gap = Blanks \cup {"\n"} /\ G!Operator = Compound
  /\ G!Mark = Single \cup Compound
BY DEF G!Digit, Digits, G!Gap, Blanks, G!Operator, Compound, G!Mark, Single

\* The line after a character.
LEMMA LineCounts ==
  ASSUME IndInv, Scanned
  PROVE  /\ G!LineAt(source, current + 1) = IF Peek = "\n" THEN line + 1 ELSE line
         /\ Peek # "\n" /\ PeekNext # "\n" => G!LineAt(source, current + 2) = line
<1>1. current \in Nat /\ 1 <= current /\ Peek = G!At(source, current)
      /\ PeekNext = G!At(source, current + 1)
  BY Seen
<1>2. line = G!LineAt(source, current)
  BY DEF Scanned
<1>3. G!LineAt(source, current + 1) = IF Peek = "\n" THEN line + 1 ELSE line
  BY <1>1, <1>2, LineNext
<1>4. current + 1 \in Nat /\ 1 <= current + 1 /\ (current + 1) + 1 = current + 2
  BY <1>1
<1>5. G!LineAt(source, (current + 1) + 1) = IF PeekNext = "\n" THEN G!LineAt(source, current + 1) + 1
                                            ELSE G!LineAt(source, current + 1)
  BY <1>1, <1>4, LineNext
<1> QED
  BY <1>3, <1>4, <1>5

LEMMA TokenIs ==
  ASSUME NEW s, NEW i, NEW c, NEW t, NEW l, G!Type(s, i) = t, G!TokenEnd(s, i) = c,
         G!LineAt(s, c) = l
  PROVE  G!Token(s, i) = [type |-> t, start |-> i, end |-> c, line |-> l]
BY Zenon DEF G!Token

-----------------------------------------------------------------------------
(* Every step keeps it *)

LEMMA ScannedInitially ==
  Init => Scanned
<1> SUFFICES ASSUME Init
             PROVE  Scanned
  OBVIOUS
<1>1. source \in Seq(Chars)
  BY SourcesAssumption DEF Init, Chars
<1>2. Whole(source, <<>>, {}, 1)
  BY <1>1, WholeFirst
<1>3. InPlace("skip", source, start, 1, <<>>, {})
  BY <1>2, Places
<1>4. G!LineAt(source, 1) = 1
  BY LineFirst
<1> QED
  BY <1>3, <1>4 DEF Init, Scanned

LEMMA SkipBlankScanned ==
  ASSUME IndInv, Scanned, SkipBlank
  PROVE  Scanned'
<1> DEFINE s == source
           c == current
<1>1. mode = "skip" /\ Peek \in G!Gap
  BY SameChars DEF SkipBlank
<1>2. /\ s \in Seq(Chars) /\ c \in Nat /\ 1 <= c /\ Peek = G!At(s, c)
      /\ Peek # Nul => c < G!End(s)
  BY Seen
<1>3. c < G!End(s)
  BY <1>1, <1>2, Beginnings
<1>4. G!IsGap(s, c) /\ G!GapEnd(s, c) = c + 1
  BY <1>1, <1>2 DEF G!IsGap, G!GapEnd
<1>5. Whole(s, tokens, errors, c)
  BY <1>1, Places DEF Scanned
<1>6. Whole(s, tokens, errors, c + 1)
  BY <1>2, <1>3, <1>4, <1>5, WholeGap
<1>7. InPlace("skip", s, start, c + 1, tokens, errors)
  BY <1>6, Places
<1>8. G!LineAt(s, c + 1) = IF Peek = "\n" THEN line + 1 ELSE line
  BY LineCounts
<1> QED
  BY <1>1, <1>7, <1>8 DEF Scanned, SkipBlank

LEMMA EnterCommentScanned ==
  ASSUME IndInv, Scanned, EnterComment
  PROVE  Scanned'
<1> DEFINE s == source
           c == current
<1>1. mode = "skip" /\ Peek = "/" /\ PeekNext \in {"/", "*"}
  BY DEF EnterComment
<1>2. /\ s \in Seq(Chars) /\ c \in Nat /\ 1 <= c /\ Peek = G!At(s, c)
      /\ PeekNext = G!At(s, c + 1) /\ (Peek # Nul => c < G!End(s))
  BY Seen
<1>3. c < G!End(s)
  BY <1>1, <1>2 DEF Nul
<1>4. G!At(s, c) \notin G!Gap
  BY <1>1, <1>2, Beginnings
<1>5. G!IsGap(s, c)
  BY <1>1, <1>2 DEF G!IsGap
<1>6. Whole(s, tokens, errors, c)
  BY <1>1, Places DEF Scanned
<1>7. Whole(s, tokens, errors, G!GapEnd(s, c))
  BY <1>2, <1>3, <1>5, <1>6, WholeGap
<1>8. UNCHANGED <<source, start, line, tokens, errors>>
  BY DEF EnterComment
<1>9. CASE PeekNext = "/"
  <2>1. G!GapEnd(s, c) = LineEnd(s, c)
    BY <1>2, <1>4, <1>9, Zenon DEF G!GapEnd, LineEnd
  <2>2. InPlace("line comment", s, start, c, tokens, errors)
    <3>1. Whole(s, tokens, errors, LineEnd(s, c))
      BY <1>7, <2>1, Zenon
    <3> QED
      BY <3>1, Places
  <2>3. mode' = "line comment" /\ current' = c
    BY <1>9 DEF EnterComment
  <2> QED
    BY <1>8, <2>2, <2>3 DEF Scanned
<1>10. CASE PeekNext = "*"
  <2> DEFINE a == c + 4
  <2>1. G!At(s, c + 1) # "/"
    BY <1>2, <1>10
  <2>2. G!GapEnd(s, c) = G!First(s, {j \in a .. G!End(s) : G!At(s, j - 2) = "*" /\ G!At(s, j - 1) = "/"})
    BY <1>4, <2>1, Zenon DEF G!GapEnd
  <2>3. a = (c + 2) + 2
    BY <1>2
  <2> HIDE DEF a
  <2>4. G!GapEnd(s, c) = BlockEnd(s, c + 2)
    BY <2>2, <2>3, Zenon DEF BlockEnd
  <2>5. InPlace("block comment", s, start, c + 2, tokens, errors)
    <3>1. Whole(s, tokens, errors, BlockEnd(s, c + 2))
      BY <1>7, <2>4, Zenon
    <3> QED
      BY <3>1, Places
  <2>6. mode' = "block comment" /\ current' = c + 2
    BY <1>10 DEF EnterComment
  <2>7. G!LineAt(s, c + 2) = line
    <3>1. Peek # "\n" /\ PeekNext # "\n"
      BY <1>1
    <3> QED
      BY <3>1, LineCounts
  <2> QED
    BY <1>8, <2>5, <2>6, <2>7 DEF Scanned
<1> QED
  BY <1>1, <1>9, <1>10

LEMMA LineCommentScanned ==
  ASSUME IndInv, Scanned, LineComment
  PROVE  Scanned'
<1> DEFINE s == source
           c == current
           e == G!End(s)
           S == {j \in c .. e : G!At(s, j) = "\n"}
<1>1. mode = "line comment" /\ UNCHANGED <<source, start, line, tokens, errors>>
  BY DEF LineComment
<1>2. /\ s \in Seq(Chars) /\ c \in Nat /\ 1 <= c /\ c <= e /\ e \in Nat /\ Peek = G!At(s, c)
      /\ Peek = Nul <=> c = e
  BY Seen
<1>3. Whole(s, tokens, errors, LineEnd(s, c))
  BY <1>1, Places DEF Scanned
<1>4. LineEnd(s, c) = G!First(s, S)
  BY Zenon DEF LineEnd
<1>5. CASE Peek \notin {"\n", Nul}
  <2> DEFINE S2 == {j \in c + 1 .. e : G!At(s, j) = "\n"}
  <2>1. LineEnd(s, c + 1) = G!First(s, S2)
    BY Zenon DEF LineEnd
  <2> HIDE DEF e
  <2>2. S = S2
    BY <1>2, <1>5
  <2>3. InPlace("line comment", s, start, c + 1, tokens, errors)
    BY <1>3, <1>4, <2>1, <2>2, Places
  <2>4. mode' = "line comment" /\ current' = c + 1
    BY <1>5 DEF LineComment
  <2>5. G!LineAt(s, c + 1) = line
    BY <1>5, LineCounts
  <2> QED
    BY <1>1, <2>3, <2>4, <2>5 DEF Scanned
<1>6. CASE Peek \in {"\n", Nul}
  <2>1. LineEnd(s, c) = c
    <3>1. CASE Peek = "\n"
      <4> HIDE DEF e
      <4>1. c \in c .. e
        BY <1>2
      <4>2. c \in S
        BY <1>2, <3>1, <4>1
      <4>3. S \in SUBSET Int /\ \A j \in S : c <= j
        BY <1>2
      <4> HIDE DEF S
      <4> QED
        BY <1>4, <4>2, <4>3, FirstLeast
    <3>2. CASE Peek = Nul
      <4>1. c = e /\ G!At(s, c) # "\n"
        BY <1>2, <3>2 DEF Nul
      <4>2. S = {}
        BY <1>2, <4>1
      <4> QED
        BY <1>4, <4>1, <4>2, FirstNone
    <3> QED
      BY <1>6, <3>1, <3>2
  <2>2. InPlace("skip", s, start, c, tokens, errors)
    <3>1. Whole(s, tokens, errors, c)
      BY <1>3, <2>1, Zenon
    <3> QED
      BY <3>1, Places
  <2>3. mode' = "skip" /\ current' = c
    BY <1>6 DEF LineComment
  <2> QED
    BY <1>1, <2>2, <2>3 DEF Scanned
<1> QED
  BY <1>5, <1>6

LEMMA BlockCommentScanned ==
  ASSUME IndInv, Scanned, BlockComment
  PROVE  Scanned'
<1> DEFINE s == source
           c == current
           e == G!End(s)
           S == {j \in c + 2 .. e : G!At(s, j - 2) = "*" /\ G!At(s, j - 1) = "/"}
<1>1. mode = "block comment" /\ UNCHANGED <<source, start, tokens, errors>>
  BY DEF BlockComment
<1>2. /\ s \in Seq(Chars) /\ c \in Nat /\ 1 <= c /\ c <= e /\ e \in Nat /\ Peek = G!At(s, c)
      /\ PeekNext = G!At(s, c + 1)
      /\ Peek = Nul <=> c = e
      /\ PeekNext # Nul => c + 2 <= e
  BY Seen
<1>3. Whole(s, tokens, errors, BlockEnd(s, c))
  BY <1>1, Places DEF Scanned
<1>4. BlockEnd(s, c) = G!First(s, S)
  BY Zenon DEF BlockEnd
<1>5. CASE Peek # Nul /\ ~ (Peek = "*" /\ PeekNext = "/")
  <2> DEFINE S2 == {j \in (c + 1) + 2 .. e : G!At(s, j - 2) = "*" /\ G!At(s, j - 1) = "/"}
  <2>1. BlockEnd(s, c + 1) = G!First(s, S2)
    BY Zenon DEF BlockEnd
  <2> HIDE DEF e
  <2>2. ~ (G!At(s, (c + 2) - 2) = "*" /\ G!At(s, (c + 2) - 1) = "/")
    <3>1. (c + 2) - 2 = c /\ (c + 2) - 1 = c + 1
      BY <1>2
    <3> QED
      BY <1>2, <1>5, <3>1
  <2>3. S = S2
    <3>1. \A j \in Int : (c + 2 <= j /\ j <= e /\ j # c + 2) <=> ((c + 1) + 2 <= j /\ j <= e)
      BY <1>2
    <3> QED
      BY <1>2, <2>2, <3>1
  <2>4. InPlace("block comment", s, start, c + 1, tokens, errors)
    BY <1>3, <1>4, <2>1, <2>3, Places
  <2>5. /\ mode' = "block comment" /\ current' = c + 1
        /\ line' = IF Peek = "\n" THEN line + 1 ELSE line
    BY <1>5 DEF BlockComment
  <2>6. G!LineAt(s, c + 1) = IF Peek = "\n" THEN line + 1 ELSE line
    BY LineCounts
  <2> QED
    BY <1>1, <2>4, <2>5, <2>6 DEF Scanned
<1>6. CASE Peek = "*" /\ PeekNext = "/"
  <2>1. c + 2 <= e /\ Peek # Nul /\ Peek # "\n" /\ PeekNext # "\n"
    BY <1>2, <1>6 DEF Nul
  <2>2. BlockEnd(s, c) = c + 2
    <3>1. (c + 2) - 2 = c /\ (c + 2) - 1 = c + 1
      BY <1>2
    <3> HIDE DEF e
    <3>2. c + 2 \in c + 2 .. e
      BY <1>2, <2>1
    <3>3. G!At(s, (c + 2) - 2) = "*" /\ G!At(s, (c + 2) - 1) = "/"
      BY <1>2, <1>6, <3>1
    <3>4. c + 2 \in S
      BY <3>2, <3>3
    <3>5. S \in SUBSET Int /\ \A j \in S : c + 2 <= j
      BY <1>2
    <3> HIDE DEF S
    <3> QED
      BY <1>4, <3>4, <3>5, FirstLeast
  <2>3. InPlace("skip", s, start, c + 2, tokens, errors)
    <3>1. Whole(s, tokens, errors, c + 2)
      BY <1>3, <2>2, Zenon
    <3> QED
      BY <3>1, Places
  <2>4. mode' = "skip" /\ current' = c + 2 /\ line' = line
    BY <1>6, <2>1 DEF BlockComment
  <2>5. G!LineAt(s, c + 2) = line
    BY <2>1, LineCounts
  <2> QED
    BY <1>1, <2>3, <2>4, <2>5 DEF Scanned
<1>7. CASE Peek = Nul
  <2>1. c = e
    BY <1>2, <1>7
  <2>2. S = {}
    BY <1>2, <2>1
  <2>3. BlockEnd(s, c) = c
    BY <1>4, <2>1, <2>2, FirstNone
  <2>4. InPlace("skip", s, start, c, tokens, errors)
    <3>1. Whole(s, tokens, errors, c)
      BY <1>3, <2>3, Zenon
    <3> QED
      BY <3>1, Places
  <2>5. mode' = "skip" /\ current' = c /\ line' = line
    BY <1>7 DEF BlockComment
  <2> QED
    BY <1>1, <2>4, <2>5 DEF Scanned
<1> QED
  BY <1>5, <1>6, <1>7

LEMMA ScanEndScanned ==
  ASSUME IndInv, Scanned, ScanEnd
  PROVE  Scanned'
<1> DEFINE s == source
           c == current
           e == G!End(s)
<1>1. /\ mode = "skip" /\ mode' = "done" /\ Peek = Nul
      /\ UNCHANGED <<source, current, line, errors>>
      /\ tokens' = Append(tokens, [type |-> "EOF", start |-> c, end |-> c, line |-> line])
  BY DEF ScanEnd
<1>2. s \in Seq(Chars) /\ (Peek = Nul <=> c = e)
  BY Seen
<1>3. c = e
  BY <1>1, <1>2
<1>4. Whole(s, tokens, errors, e)
  <2>1. Whole(s, tokens, errors, c)
    BY <1>1, Places DEF Scanned
  <2> QED
    BY <1>3, <2>1, Zenon
<1>5. line = G!LineAt(s, e)
  BY <1>3 DEF Scanned
<1>6. [type |-> "EOF", start |-> c, end |-> c, line |-> line] = G!Last(s)
  BY <1>3, <1>5, Zenon DEF G!Last
<1>7. Append(tokens, G!Last(s)) = G!Scan(s)[1].tokens /\ errors = G!Scan(s)[1].errors
  BY <1>2, <1>4, WholeEnd
<1>8. tokens' = G!Scan(s)[1].tokens
  BY <1>1, <1>6, <1>7, Zenon
<1>9. InPlace("done", s, start', c, tokens', errors)
  BY <1>7, <1>8, Places
<1>10. line = G!LineAt(s, c)
  BY DEF Scanned
<1> QED
  BY <1>1, <1>9, <1>10 DEF Scanned

LEMMA ScanBeginScanned ==
  ASSUME IndInv, Scanned, ScanBegin
  PROVE  Scanned'
<1> DEFINE s == source
           c == current
<1>1. /\ mode = "skip" /\ UNCHANGED <<source, line, tokens, errors>>
      /\ start' = c /\ current' = c + 1
      /\ Peek \in Letters \cup G!Digit \cup {"\""}
      /\ mode' = IF Peek \in Letters THEN "identifier"
                 ELSE IF Peek \in G!Digit THEN "number" ELSE "string"
  BY SameChars DEF ScanBegin
<1>2. s \in Seq(Chars) /\ c \in Nat /\ 1 <= c /\ Peek = G!At(s, c)
  BY Seen
<1>3. Whole(s, tokens, errors, c)
  BY <1>1, Places DEF Scanned
<1>4. \A j \in Nat : c <= j /\ j < c + 1 => j = c
  BY <1>2
<1>5. InPlace(mode', s, c, c + 1, tokens, errors)
  <2>1. CASE Peek \in Letters
    <3>1. InWord(s, c, c + 1)
      BY <1>2, <1>4, <2>1 DEF InWord
    <3>2. mode' = "identifier"
      BY <1>1, <2>1
    <3>3. InPlace("identifier", s, c, c + 1, tokens, errors)
      BY <1>3, <3>1, Places
    <3> QED
      BY <3>2, <3>3
  <2>2. CASE Peek \notin Letters /\ Peek \in G!Digit
    <3>1. InDigits(s, c, c + 1)
      BY <1>2, <1>4, <2>2 DEF InDigits
    <3>2. mode' = "number"
      BY <1>1, <2>2
    <3>3. InPlace("number", s, c, c + 1, tokens, errors)
      BY <1>3, <3>1, Places
    <3> QED
      BY <3>2, <3>3
  <2>3. CASE Peek \notin Letters /\ Peek \notin G!Digit
    <3>1. Peek = "\"" /\ mode' = "string"
      BY <1>1, <2>3
    <3>2. ASSUME NEW j \in G!Closing(s, c)
          PROVE  c + 1 <= j
      <4>1. j \in Int /\ c < j
        BY <1>2, ClosingIs
      <4> QED
        BY <1>2, <4>1
    <3>3. Run(s, c, c + 1, 0) /\ 0 % 2 = 0
      BY <1>2, RunFirst
    <3>4. \E r : Run(s, c, c + 1, r) /\ r % 2 = 0
      BY <3>3, Zenon
    <3>5. G!At(s, c) = "\""
      BY <1>2, <3>1
    <3>6. InString(s, c, c + 1)
      BY <3>2, <3>4, <3>5, Zenon DEF InString
    <3>7. InPlace("string", s, c, c + 1, tokens, errors)
      BY <1>3, <3>6, Places
    <3> QED
      BY <3>1, <3>7
  <2> QED
    BY <2>1, <2>2, <2>3
<1>6. G!LineAt(s, c + 1) = line
  <2>1. Peek # "\n"
    BY <1>1, LetterDigit
  <2> QED
    BY <2>1, LineCounts
<1> QED
  BY <1>1, <1>5, <1>6 DEF Scanned

LEMMA ScanPunctuationScanned ==
  ASSUME IndInv, Scanned, ScanPunctuation
  PROVE  Scanned'
<1> DEFINE s == source
           c == current
           end == IF Peek \in Compound /\ PeekNext = "=" THEN c + 2 ELSE c + 1
           type == IF end = c + 2 THEN Peek \o "=" ELSE Peek
<1>1. /\ mode = "skip" /\ UNCHANGED <<source, line, mode, errors>>
      /\ start' = c /\ current' = end
      /\ Peek \in G!Mark /\ ~ (Peek = "/" /\ PeekNext \in {"/", "*"})
      /\ tokens' = Append(tokens, [type |-> type, start |-> c, end |-> end, line |-> line])
  BY SameChars DEF ScanPunctuation
<1>2. /\ s \in Seq(Chars) /\ c \in Nat /\ 1 <= c /\ Peek = G!At(s, c)
      /\ PeekNext = G!At(s, c + 1)
      /\ Peek # Nul => c < G!End(s)
  BY Seen
<1>3. c < G!End(s)
  BY <1>1, <1>2, Beginnings
<1>4. Whole(s, tokens, errors, c)
  BY <1>1, Places DEF Scanned
<1>5. /\ G!TokenEnd(s, c) = IF G!At(s, c) \in G!Operator /\ G!At(s, c + 1) = "=" THEN c + 2
                            ELSE c + 1
      /\ ~ G!IsGap(s, c) /\ G!IsToken(s, c)
      /\ G!Type(s, c) = IF G!TokenEnd(s, c) = c + 2 THEN G!At(s, c) \o "=" ELSE G!At(s, c)
  BY <1>1, <1>2, MarkEnds
<1>6. G!TokenEnd(s, c) = end
  BY <1>2, <1>5, SameChars, Zenon
<1>7. G!Type(s, c) = type
  BY <1>2, <1>5, <1>6, Zenon
<1>8. G!LineAt(s, end) = line
  <2>1. Peek # "\n" /\ (PeekNext = "=" => PeekNext # "\n")
    BY <1>1, Beginnings
  <2>2. G!LineAt(s, c + 1) = line /\ (PeekNext = "=" => G!LineAt(s, c + 2) = line)
    BY <2>1, LineCounts
  <2> QED
    BY <2>2
<1>9. G!Token(s, c) = [type |-> type, start |-> c, end |-> end, line |-> line]
  BY <1>6, <1>7, <1>8, TokenIs
<1>10. Whole(s, Append(tokens, G!Token(s, c)), errors, G!TokenEnd(s, c))
  BY <1>2, <1>3, <1>4, <1>5, WholeToken
<1>11. Whole(s, tokens', errors, end)
  BY <1>1, <1>6, <1>9, <1>10, Zenon
<1> HIDE DEF end, type
<1>12. InPlace("skip", s, c, end, tokens', errors)
  BY <1>11, Places
<1> QED
  BY <1>1, <1>8, <1>12 DEF Scanned

LEMMA ScanUnexpectedScanned ==
  ASSUME IndInv, Scanned, ScanUnexpected
  PROVE  Scanned'
<1> DEFINE s == source
           c == current
           error == [start |-> c, line |-> line]
<1>1. /\ mode = "skip" /\ UNCHANGED <<source, line, mode, tokens>>
      /\ start' = c /\ current' = c + 1 /\ errors' = errors \cup {error}
      /\ Peek \notin Letters \cup G!Digit \cup G!Mark \cup G!Gap \cup {"\""}
      /\ Peek # Nul
  BY SameChars DEF ScanUnexpected
<1>2. /\ s \in Seq(Chars) /\ c \in Nat /\ 1 <= c /\ Peek = G!At(s, c)
      /\ Peek # Nul => c < G!End(s)
  BY Seen
<1>3. Whole(s, tokens, errors, c)
  BY <1>1, Places DEF Scanned
<1>4. /\ G!TokenEnd(s, c) = c + 1 /\ ~ G!IsGap(s, c) /\ ~ G!IsToken(s, c)
      /\ G!Error(s, c) = [start |-> c, line |-> G!LineAt(s, c)]
  BY <1>1, <1>2, NothingBegins
<1>5. line = G!LineAt(s, c)
  BY DEF Scanned
<1>6. G!Error(s, c) = error
  BY <1>4, <1>5, Zenon
<1>7. Whole(s, tokens, errors \cup {G!Error(s, c)}, G!TokenEnd(s, c))
  BY <1>1, <1>2, <1>3, <1>4, WholeError
<1>8. Whole(s, tokens, errors', c + 1)
  BY <1>1, <1>4, <1>6, <1>7, Zenon
<1>9. InPlace("skip", s, c, c + 1, tokens, errors')
  BY <1>8, Places
<1>10. G!LineAt(s, c + 1) = line
  <2>1. Peek # "\n"
    BY <1>1, Beginnings
  <2> QED
    BY <2>1, LineCounts
<1> QED
  BY <1>1, <1>9, <1>10 DEF Scanned

LEMMA ScanIdentifierScanned ==
  ASSUME IndInv, Scanned, ScanIdentifier
  PROVE  Scanned'
<1> DEFINE s == source
           i == start
           c == current
<1>1. mode = "identifier" /\ UNCHANGED <<source, start, line, errors>>
  BY DEF ScanIdentifier
<1>2. /\ s \in Seq(Chars) /\ i \in Nat /\ 1 <= i /\ c \in Nat /\ Peek = G!At(s, c)
      /\ c <= G!End(s) /\ G!End(s) \in Nat /\ (mode \in Inside => i < c)
  BY Seen
<1>3. i < c /\ i < G!End(s)
  BY <1>1, <1>2 DEF Inside
<1>4. Whole(s, tokens, errors, i) /\ InWord(s, i, c)
  BY <1>1, Places DEF Scanned
<1>5. CASE Peek \in Letters \cup G!Digit
  <2>1. mode' = "identifier" /\ current' = c + 1 /\ tokens' = tokens
    BY <1>1, <1>5, SameChars DEF ScanIdentifier
  <2>2. \A j \in Nat : i <= j /\ j < c + 1 => j < c \/ j = c
    BY <1>2
  <2>3. InWord(s, i, c + 1)
    BY <1>2, <1>4, <1>5, <2>2 DEF InWord
  <2>4. InPlace("identifier", s, i, c + 1, tokens, errors)
    BY <1>4, <2>3, Places
  <2>5. G!LineAt(s, c + 1) = line
    <3>1. Peek # "\n"
      BY <1>5, LetterDigit
    <3> QED
      BY <3>1, LineCounts
  <2> QED
    BY <1>1, <2>1, <2>4, <2>5 DEF Scanned
<1>6. CASE Peek \notin Letters \cup G!Digit
  <2> DEFINE type == IdentifierType(SubSeq(s, i, c - 1))
  <2>1. /\ mode' = "skip" /\ current' = c
        /\ tokens' = Append(tokens, [type |-> type, start |-> i, end |-> c, line |-> line])
    BY <1>6, SameChars DEF ScanIdentifier, MakeToken, Text
  <2>2. /\ G!At(s, i) \in Letters
        /\ \A j \in Nat : i <= j /\ j < c => G!At(s, j) \in Letters \cup G!Digit
    BY <1>4, Zenon DEF InWord
  <2>3. /\ G!TokenEnd(s, i) = c /\ ~ G!IsGap(s, i) /\ G!IsToken(s, i)
        /\ G!Type(s, i) = type
    BY <1>2, <1>3, <1>6, <2>2, WordEnds
  <2>4. G!LineAt(s, c) = line
    BY DEF Scanned
  <2>5. G!Token(s, i) = [type |-> type, start |-> i, end |-> c, line |-> line]
    BY <2>3, <2>4, TokenIs
  <2>6. Whole(s, Append(tokens, G!Token(s, i)), errors, G!TokenEnd(s, i))
    BY <1>2, <1>3, <1>4, <2>3, WholeToken
  <2>7. Whole(s, tokens', errors, c)
    BY <2>1, <2>3, <2>5, <2>6, Zenon
  <2>8. InPlace("skip", s, i, c, tokens', errors)
    BY <2>7, Places
  <2> QED
    BY <1>1, <2>1, <2>4, <2>8 DEF Scanned
<1> QED
  BY <1>5, <1>6

\* Digits alone are a number, and so are digits around a point.
LEMMA Numerals ==
  ASSUME NEW s, NEW i \in Nat, NEW c \in Nat, i < c
  PROVE  /\ InDigits(s, i, c) => G!Numeral(s, i, c)
         /\ \A p \in Nat :
              /\ i < p /\ p < c /\ G!At(s, p) = "." /\ G!At(s, c - 1) \in G!Digit
              /\ \A j \in Nat : i <= j /\ j < c => j = p \/ G!At(s, j) \in G!Digit
              => G!Numeral(s, i, c)
<1>1. i .. c - 1 \subseteq Nat /\ \A j \in Nat : j \in i .. c - 1 <=> (i <= j /\ j < c)
  OBVIOUS
<1>2. i \in i .. c - 1 /\ c - 1 \in i .. c - 1
  OBVIOUS
<1>3. ASSUME InDigits(s, i, c)
      PROVE  G!Numeral(s, i, c)
  <2>1. \A j \in i .. c - 1 : G!At(s, j) \in G!Digit /\ G!At(s, j) # "."
    BY <1>1, <1>3, LetterDigit DEF InDigits
  <2> QED
    BY <1>2, <2>1 DEF G!Numeral
<1>4. ASSUME NEW p \in Nat, i < p, p < c, G!At(s, p) = ".", G!At(s, c - 1) \in G!Digit,
             \A j \in Nat : i <= j /\ j < c => j = p \/ G!At(s, j) \in G!Digit
      PROVE  G!Numeral(s, i, c)
  <2>1. \A j \in i .. c - 1 : j = p \/ (G!At(s, j) \in G!Digit /\ G!At(s, j) # ".")
    BY <1>1, <1>4, LetterDigit
  <2>2. \A j \in i .. c - 1 : G!At(s, j) \in G!Digit \cup {"."}
    BY <1>4, <2>1
  <2>3. \A j, k \in i .. c - 1 : G!At(s, j) = "." /\ G!At(s, k) = "." => j = k
    BY <2>1
  <2>4. G!At(s, i) # "." /\ G!At(s, c - 1) # "."
    <3>1. i # p
      BY <1>4
    <3>2. G!At(s, i) # "."
      BY <1>2, <2>1, <3>1
    <3> QED
      BY <1>4, <3>2, LetterDigit
  <2> QED
    BY <2>2, <2>3, <2>4 DEF G!Numeral
<1> QED
  BY <1>3, <1>4

LEMMA ScanNumberScanned ==
  ASSUME IndInv, Scanned, ScanNumber
  PROVE  Scanned'
<1> DEFINE s == source
           i == start
           c == current
<1>1. mode \in {"number", "fraction"} /\ UNCHANGED <<source, start, line, errors>>
  BY DEF ScanNumber
<1>2. /\ s \in Seq(Chars) /\ i \in Nat /\ 1 <= i /\ c \in Nat /\ Peek = G!At(s, c)
      /\ PeekNext = G!At(s, c + 1)
      /\ c <= G!End(s) /\ G!End(s) \in Nat /\ (mode \in Inside => i < c)
  BY Seen
<1>3. i < c /\ i < G!End(s)
  BY <1>1, <1>2 DEF Inside
<1>4. /\ Whole(s, tokens, errors, i)
      /\ mode = "number" => InDigits(s, i, c)
      /\ mode = "fraction" => InFraction(s, i, c)
  <2>1. InPlace(mode, s, i, c, tokens, errors)
    BY DEF Scanned
  <2>2. CASE mode = "number"
    BY <2>1, <2>2, Places
  <2>3. CASE mode = "fraction"
    BY <2>1, <2>3, Places
  <2> QED
    BY <1>1, <2>2, <2>3
<1>5. line = G!LineAt(s, c)
  BY DEF Scanned
<1>6. ASSUME Peek # "\n"
      PROVE  G!LineAt(s, c + 1) = line
  BY <1>6, LineCounts
<1>7. \A j \in Nat : i <= j /\ j < c + 1 => j < c \/ j = c
  BY <1>2
<1>8. CASE Peek \in G!Digit
  <2>1. mode' = mode /\ current' = c + 1 /\ tokens' = tokens
    BY <1>8, SameChars, LetterDigit DEF ScanNumber
  <2>2. CASE mode = "number"
    <3>1. InDigits(s, i, c + 1)
      BY <1>2, <1>4, <1>7, <1>8, <2>2 DEF InDigits
    <3>2. InPlace("number", s, i, c + 1, tokens, errors)
      BY <1>4, <3>1, Places
    <3> QED
      BY <1>1, <1>6, <1>8, <2>1, <2>2, <3>2, LetterDigit DEF Scanned
  <2>3. CASE mode = "fraction"
    <3>1. PICK p \in Nat :
            /\ i < p /\ p < c /\ G!At(s, p) = "."
            /\ \A j \in Nat : i <= j /\ j < c => j = p \/ G!At(s, j) \in G!Digit
      BY <1>4, <2>3, Zenon DEF InFraction
    <3>2. p < c + 1 /\ p # (c + 1) - 1
      BY <1>2, <3>1
    <3>3. \A j \in Nat : i <= j /\ j < c + 1 => j = p \/ G!At(s, j) \in G!Digit
      BY <1>2, <1>7, <1>8, <3>1
    <3>4. InFraction(s, i, c + 1)
      BY <3>1, <3>2, <3>3, Zenon DEF InFraction
    <3>5. InPlace("fraction", s, i, c + 1, tokens, errors)
      BY <1>4, <3>4, Places
    <3> QED
      BY <1>1, <1>6, <1>8, <2>1, <2>3, <3>5, LetterDigit DEF Scanned
  <2> QED
    BY <1>1, <2>2, <2>3
<1>9. CASE mode = "number" /\ Peek = "." /\ PeekNext \in G!Digit
  <2>1. mode' = "fraction" /\ current' = c + 1 /\ tokens' = tokens
    BY <1>9, SameChars, LetterDigit DEF ScanNumber
  <2>2. \A j \in Nat : i <= j /\ j < c => G!At(s, j) \in G!Digit
    BY <1>4, <1>9, Zenon DEF InDigits
  <2>3. i < c /\ c < c + 1 /\ G!At(s, c) = "." /\ G!At(s, c + 1) \in G!Digit
    BY <1>2, <1>3, <1>9
  <2>4. \A j \in Nat : i <= j /\ j < c + 1 => j = c \/ G!At(s, j) \in G!Digit
    BY <1>7, <2>2
  <2>5. InFraction(s, i, c + 1)
    BY <1>2, <2>3, <2>4, Zenon DEF InFraction
  <2>6. InPlace("fraction", s, i, c + 1, tokens, errors)
    BY <1>4, <2>5, Places
  <2>7. Peek # "\n"
    BY <1>9
  <2> QED
    BY <1>1, <1>6, <2>1, <2>6, <2>7 DEF Scanned
<1>10. CASE Peek \notin G!Digit /\ ~ (mode = "number" /\ Peek = "." /\ PeekNext \in G!Digit)
  <2>1. /\ mode' = "skip" /\ current' = c
        /\ tokens' = Append(tokens, [type |-> "NUMBER", start |-> i, end |-> c, line |-> line])
    BY <1>10, SameChars DEF ScanNumber, MakeToken
  <2>2. /\ G!At(s, i) \in G!Digit /\ G!Numeral(s, i, c)
        /\ \/ G!At(s, c) # "." \/ G!At(s, c + 1) \notin G!Digit
           \/ \E p \in Nat : i <= p /\ p < c /\ G!At(s, p) = "."
    <3>1. CASE mode = "number"
      <4>1. InDigits(s, i, c)
        BY <1>4, <3>1
      <4>2. G!At(s, i) \in G!Digit
        BY <1>2, <1>3, <4>1 DEF InDigits
      <4>3. G!Numeral(s, i, c)
        BY <1>2, <1>3, <4>1, Numerals
      <4>4. G!At(s, c) # "." \/ G!At(s, c + 1) \notin G!Digit
        BY <1>2, <1>10, <3>1
      <4> QED
        BY <4>2, <4>3, <4>4
    <3>2. CASE mode = "fraction"
      <4>1. PICK p \in Nat :
              /\ i < p /\ p < c /\ G!At(s, p) = "."
              /\ \A j \in Nat : i <= j /\ j < c => j = p \/ G!At(s, j) \in G!Digit
              /\ p # c - 1 \/ G!At(s, c) \in G!Digit
        BY <1>4, <3>2, Zenon DEF InFraction
      <4>2. i # p /\ i <= i
        BY <1>2, <4>1
      <4>3. G!At(s, i) \in G!Digit
        BY <1>2, <1>3, <4>1, <4>2
      <4>4. p # c - 1
        BY <1>2, <1>10, <4>1
      <4>5. c - 1 \in Nat /\ i <= c - 1 /\ c - 1 < c
        BY <1>2, <1>3
      <4>6. G!At(s, c - 1) \in G!Digit
        BY <4>1, <4>4, <4>5
      <4>7. G!Numeral(s, i, c)
        BY <1>2, <1>3, <4>1, <4>6, Numerals
      <4>8. i <= p
        BY <1>2, <4>1
      <4> QED
        BY <4>1, <4>3, <4>7, <4>8
    <3> QED
      BY <1>1, <3>1, <3>2
  <2>3. /\ G!TokenEnd(s, i) = c /\ ~ G!IsGap(s, i) /\ G!IsToken(s, i)
        /\ G!Type(s, i) = "NUMBER"
    BY <1>2, <1>3, <1>10, <2>2, NumberEnds
  <2>4. G!Token(s, i) = [type |-> "NUMBER", start |-> i, end |-> c, line |-> line]
    BY <1>5, <2>3, TokenIs
  <2>5. Whole(s, Append(tokens, G!Token(s, i)), errors, G!TokenEnd(s, i))
    BY <1>2, <1>3, <1>4, <2>3, WholeToken
  <2>6. Whole(s, tokens', errors, c)
    BY <2>1, <2>3, <2>4, <2>5, Zenon
  <2>7. InPlace("skip", s, i, c, tokens', errors)
    BY <2>6, Places
  <2> QED
    BY <1>1, <1>5, <2>1, <2>7 DEF Scanned
<1> QED
  BY <1>8, <1>9, <1>10

LEMMA ScanStringScanned ==
  ASSUME IndInv, Scanned, ScanString
  PROVE  Scanned'
<1> DEFINE s == source
           i == start
           c == current
           e == G!End(s)
<1>1. mode = "string" /\ UNCHANGED <<source, start>>
  BY DEF ScanString
<1>2. /\ s \in Seq(Chars) /\ i \in Nat /\ 1 <= i /\ c \in Nat /\ 1 <= c /\ c <= e /\ e \in Nat
      /\ Peek = G!At(s, c) /\ PeekNext = G!At(s, c + 1)
      /\ Peek = Nul <=> c = e
      /\ PeekNext # Nul => c + 2 <= e
      /\ mode \in Inside => i < c
  BY Seen
<1>3. i < c /\ i < e
  BY <1>1, <1>2 DEF Inside
<1>4. Whole(s, tokens, errors, i) /\ InString(s, i, c)
  BY <1>1, Places DEF Scanned
<1>5. line = G!LineAt(s, c)
  BY DEF Scanned
<1>6. /\ G!At(s, i) = "\"" /\ \A j \in G!Closing(s, i) : c <= j
      /\ c = e \/ \E r : Run(s, i, c, r) /\ r % 2 = 0
  BY <1>4, Zenon DEF InString
<1>7. \A j \in G!Closing(s, i) : j \in Int /\ j < e
  BY <1>2, ClosingIs
<1> HIDE DEF e
<1>8. Peek # Nul => c < e
  <2>1. c # e => c < e
    BY <1>2
  <2> QED
    BY <1>2, <2>1
<1>9. CASE Peek \notin {"\"", Nul}
  <2>1. PICK r : Run(s, i, c, r) /\ r % 2 = 0
    BY <1>2, <1>6, <1>9
  <2>2. r \in Nat
    BY <2>1 DEF Run
  <2>3. ASSUME NEW j \in G!Closing(s, i)
        PROVE  c + 1 <= j
    <3>1. c \notin G!Closing(s, i)
      <4>1. c < e
        BY <1>8, <1>9
      <4>2. c \in G!Closing(s, i) <=> (G!At(s, c) = "\"" /\ r % 2 = 0)
        BY <1>2, <1>3, <2>1, <4>1, RunClosing DEF e
      <4> QED
        BY <1>2, <1>9, <4>2
    <3>2. j \in Int /\ c <= j /\ j # c
      BY <1>6, <1>7, <3>1
    <3> QED
      BY <1>2, <3>2
  <2>4. mode' = "string" /\ tokens' = tokens /\ errors' = errors
    BY <1>1, <1>9 DEF ScanString
  <2>5. CASE Peek = "\\" /\ PeekNext # Nul
    <3>1. current' = (c + 1) + 1 /\ line' = IF CharAt(source, c + 1) = "\n" THEN line + 1 ELSE line
      BY <1>9, <2>5 DEF ScanString
    <3>2. Run(s, i, c + 1, r + 1)
      BY <1>2, <1>3, <2>1, <2>5, RunNext
    <3>3. (r + 1) % 2 # 0 /\ ((r + 1) + 1) % 2 = 0 /\ 0 % 2 = 0
      BY <2>1, <2>2
    <3>4. c + 1 \in Nat /\ i < c + 1 /\ c + 1 < e
      BY <1>2, <1>3, <2>5
    <3>5. c + 1 \notin G!Closing(s, i)
      <4>1. c + 1 \in G!Closing(s, i) <=> (G!At(s, c + 1) = "\"" /\ (r + 1) % 2 = 0)
        BY <1>2, <3>2, <3>4, RunClosing DEF e
      <4> QED
        BY <3>3, <4>1
    <3>6. ASSUME NEW j \in G!Closing(s, i)
          PROVE  (c + 1) + 1 <= j
      <4>1. j \in Int /\ c + 1 <= j /\ j # c + 1
        BY <1>7, <2>3, <3>5
      <4> QED
        BY <1>2, <4>1
    <3>7. \E q : Run(s, i, (c + 1) + 1, q) /\ q % 2 = 0
      <4>1. /\ G!At(s, c + 1) = "\\" => Run(s, i, (c + 1) + 1, (r + 1) + 1)
            /\ G!At(s, c + 1) # "\\" => Run(s, i, (c + 1) + 1, 0)
        BY <1>2, <3>2, <3>4, RunNext
      <4> QED
        BY <3>3, <4>1, Zenon
    <3>8. InString(s, i, (c + 1) + 1)
      BY <1>6, <3>6, <3>7, Zenon DEF InString
    <3>9. InPlace("string", s, i, (c + 1) + 1, tokens, errors)
      BY <1>4, <3>8, Places
    <3>10. G!LineAt(s, (c + 1) + 1) = line'
      <4>1. G!LineAt(s, c + 1) = line
        <5>1. Peek # "\n"
          BY <2>5
        <5> QED
          BY <5>1, LineCounts
      <4>2. 1 <= c + 1
        BY <1>2
      <4>3. G!LineAt(s, (c + 1) + 1) = IF G!At(s, c + 1) = "\n" THEN G!LineAt(s, c + 1) + 1
                                       ELSE G!LineAt(s, c + 1)
        BY <3>4, <4>2, LineNext
      <4>4. CharAt(source, c + 1) = G!At(s, c + 1)
        BY <1>2, <3>4, <4>2, TextFacts
      <4> QED
        BY <3>1, <4>1, <4>3, <4>4, Zenon
    <3> QED
      BY <1>1, <2>4, <3>1, <3>9, <3>10 DEF Scanned
  <2>6. CASE ~ (Peek = "\\" /\ PeekNext # Nul)
    <3>1. current' = c + 1 /\ line' = IF CharAt(source, c) = "\n" THEN line + 1 ELSE line
      BY <1>9, <2>6 DEF ScanString
    <3>2. c + 1 = e \/ \E q : Run(s, i, c + 1, q) /\ q % 2 = 0
      <4>1. CASE Peek = "\\"
        <5>1. G!At(s, c + 1) = Nul /\ c + 1 <= e /\ c + 1 \in Nat /\ 1 <= c + 1
          BY <1>2, <1>9, <2>6, <4>1
        <5>2. G!At(s, c + 1) # Nul <=> (1 <= c + 1 /\ c + 1 < e)
          BY <1>2, <5>1, TextFacts DEF e
        <5> QED
          BY <1>2, <5>1, <5>2
      <4>2. CASE Peek # "\\"
        <5>1. Run(s, i, c + 1, 0)
          BY <1>2, <1>3, <2>1, <4>2, RunNext
        <5>2. 0 % 2 = 0
          OBVIOUS
        <5> QED
          BY <5>1, <5>2, Zenon
      <4> QED
        BY <4>1, <4>2
    <3>3. InString(s, i, c + 1)
      BY <1>6, <2>3, <3>2, Zenon DEF InString, e
    <3>4. InPlace("string", s, i, c + 1, tokens, errors)
      BY <1>4, <3>3, Places
    <3>5. G!LineAt(s, c + 1) = line'
      <4>1. CharAt(source, c) = Peek
        BY DEF Peek
      <4> QED
        BY <3>1, <4>1, LineCounts
    <3> QED
      BY <1>1, <2>4, <3>1, <3>4, <3>5 DEF Scanned
  <2> QED
    BY <2>5, <2>6
<1>10. CASE Peek = Nul
  <2> DEFINE error == [start |-> i, line |-> line]
  <2>1. /\ errors' = errors \cup {error} /\ mode' = "skip"
        /\ current' = c /\ line' = line /\ tokens' = tokens
    BY <1>10 DEF ScanString, Nul
  <2>2. c = e
    BY <1>2, <1>10
  <2>3. G!Closing(s, i) = {}
    <3> SUFFICES ASSUME NEW j \in G!Closing(s, i)
                 PROVE  FALSE
      OBVIOUS
    <3>1. j \in Int /\ j < e /\ c <= j
      BY <1>6, <1>7
    <3> QED
      BY <1>2, <2>2, <3>1
  <2>4. /\ G!TokenEnd(s, i) = e /\ ~ G!IsGap(s, i) /\ ~ G!IsToken(s, i)
        /\ G!Error(s, i) = [start |-> i, line |-> G!LineAt(s, e)]
    BY <1>2, <1>6, <2>3, StringOpen DEF e
  <2>5. G!Error(s, i) = error
    BY <1>5, <2>2, <2>4, Zenon
  <2>6. Whole(s, tokens, errors \cup {G!Error(s, i)}, G!TokenEnd(s, i))
    BY <1>2, <1>3, <1>4, <2>4, WholeError DEF e
  <2>7. Whole(s, tokens, errors', c)
    BY <2>1, <2>2, <2>4, <2>5, <2>6, Zenon
  <2>8. InPlace("skip", s, i, c, tokens, errors')
    BY <2>7, Places
  <2> QED
    BY <1>1, <1>5, <2>1, <2>8 DEF Scanned
<1>11. CASE Peek = "\""
  <2>1. /\ current' = c + 1 /\ mode' = "skip" /\ line' = line /\ errors' = errors
        /\ tokens' = Append(tokens, [type |-> "STRING", start |-> i, end |-> c + 1, line |-> line])
    BY <1>11 DEF ScanString, MakeToken, Nul
  <2>2. c # e
    BY <1>2, <1>11 DEF Nul
  <2>3. PICK r : Run(s, i, c, r) /\ r % 2 = 0
    BY <1>6, <2>2
  <2>4. c \in G!Closing(s, i)
    <3>1. c < e
      BY <1>8, <1>11 DEF Nul
    <3>2. c \in G!Closing(s, i) <=> (G!At(s, c) = "\"" /\ r % 2 = 0)
      BY <1>2, <1>3, <2>3, <3>1, RunClosing DEF e
    <3> QED
      BY <1>2, <1>11, <2>3, <3>2
  <2>5. /\ G!TokenEnd(s, i) = c + 1 /\ ~ G!IsGap(s, i) /\ G!IsToken(s, i)
        /\ G!Type(s, i) = "STRING"
    BY <1>2, <1>6, <2>4, StringEnds
  <2>6. G!LineAt(s, c + 1) = line
    <3>1. Peek # "\n"
      BY <1>11
    <3> QED
      BY <3>1, LineCounts
  <2>7. G!Token(s, i) = [type |-> "STRING", start |-> i, end |-> c + 1, line |-> line]
    BY <2>5, <2>6, TokenIs
  <2>8. Whole(s, Append(tokens, G!Token(s, i)), errors, G!TokenEnd(s, i))
    BY <1>2, <1>3, <1>4, <2>5, WholeToken DEF e
  <2>9. Whole(s, tokens', errors, c + 1)
    BY <2>1, <2>5, <2>7, <2>8, Zenon
  <2>10. InPlace("skip", s, i, c + 1, tokens', errors)
    BY <2>9, Places
  <2> QED
    BY <1>1, <2>1, <2>6, <2>10 DEF Scanned
<1> QED
  BY <1>9, <1>10, <1>11

LEMMA ScannedKept ==
  IndInv /\ Scanned /\ [Next]_vars => Scanned'
<1> SUFFICES ASSUME IndInv, Scanned, [Next]_vars
             PROVE  Scanned'
  OBVIOUS
<1>1. CASE UNCHANGED vars
  BY <1>1 DEF vars, Scanned
<1>2. CASE Next
  BY <1>2, SkipBlankScanned, EnterCommentScanned, LineCommentScanned, BlockCommentScanned,
     ScanEndScanned, ScanBeginScanned, ScanPunctuationScanned, ScanUnexpectedScanned,
     ScanIdentifierScanned, ScanNumberScanned, ScanStringScanned DEF Next
<1> QED
  BY <1>1, <1>2

-----------------------------------------------------------------------------
(* Progress: what is left to do *)

\* What a loop has still to do at a character.  A line comment is entered at its first
\* "/" and left in front of what is none.
Weight ==
  IF mode = "done" THEN 0
  ELSE IF mode = "skip" THEN (IF Peek = "/" /\ PeekNext = "/" THEN 3 ELSE 1)
  ELSE IF mode = "line comment" THEN 2 ELSE 4

Left == 5 * (G!End(source) - current) + Weight

LEMMA WeightIs ==
  Weight \in {0, 1, 2, 3, 4}
BY Zenon DEF Weight

LEMMA Advances ==
  ASSUME IndInv, IndInv', source' = source, current + 1 <= current'
  PROVE  Left' \in Nat /\ Left' < Left
<1> DEFINE e == G!End(source)
           c == current
           d == current'
           w == Weight
           v == Weight'
<1>1. c \in Nat /\ c <= e /\ e \in Nat
  BY Seen
<1>2. d \in Nat /\ d <= e
  <2>1. Within(Len(source'), start', current', line') /\ source' \in Seq(Chars)
    BY SourcesAssumption DEF IndInv, Chars
  <2> DEFINE n == Len(source)
  <2>2. n \in Nat /\ e = n + 1
    BY <2>1, TextFacts
  <2>3. current' \in 1 .. n + 1
    BY <2>1 DEF Within
  <2> HIDE DEF n
  <2> QED
    BY <2>2, <2>3
<1>3. w \in {0, 1, 2, 3, 4} /\ v \in {0, 1, 2, 3, 4}
  <2>1. (Weight \in {0, 1, 2, 3, 4})'
    BY Zenon DEF Weight
  <2> QED
    BY <2>1, WeightIs
<1>4. Left = 5 * (e - c) + w /\ Left' = 5 * (e - d) + v
  BY DEF Left
<1>5. c + 1 <= d
  OBVIOUS
<1> HIDE DEF e, c, d, w, v
<1> QED
  BY <1>1, <1>2, <1>3, <1>4, <1>5

LEMMA Settles ==
  ASSUME IndInv, source' = source, current' = current,
         \/ Weight = 4 /\ Weight' \in {1, 3}
         \/ Weight = 3 /\ Weight' = 2
         \/ Weight = 2 /\ Weight' = 1
         \/ Weight = 1 /\ Weight' = 0
  PROVE  Left' \in Nat /\ Left' < Left
<1> DEFINE e == G!End(source)
           c == current
           w == Weight
           v == Weight'
<1>1. c \in Nat /\ c <= e /\ e \in Nat
  BY Seen
<1>2. Left = 5 * (e - c) + w /\ Left' = 5 * (e - c) + v
  BY DEF Left
<1>3. \/ w = 4 /\ v \in {1, 3}
      \/ w = 3 /\ v = 2
      \/ w = 2 /\ v = 1
      \/ w = 1 /\ v = 0
  OBVIOUS
<1> HIDE DEF e, c, w, v
<1> QED
  BY <1>1, <1>2, <1>3

LEMMA StepsLessen ==
  ASSUME IndInv, Next
  PROVE  Left' \in Nat /\ Left' < Left
<1>1. IndInv'
  BY InvKept
<1>2. /\ current \in Nat /\ source' = source
      /\ current' = current => Peek' = Peek /\ PeekNext' = PeekNext
  <2>1. source' = source
    BY DEF Next, SkipBlank, EnterComment, LineComment, BlockComment, ScanEnd, ScanBegin,
       ScanPunctuation, ScanUnexpected, ScanIdentifier, ScanNumber, ScanString
  <2> QED
    BY <2>1, Seen DEF Peek, PeekNext
<1>3. ASSUME current' = current + 1 \/ current' = current + 2 \/ current' = (current + 1) + 1
      PROVE  Left' \in Nat /\ Left' < Left
  <2>1. current + 1 <= current'
    BY <1>2, <1>3
  <2> QED
    BY <1>1, <1>2, <2>1, Advances
<1>4. ASSUME current' = current, mode' = "skip", mode \notin {"skip", "done"},
             mode = "line comment" => Peek # "/"
      PROVE  Left' \in Nat /\ Left' < Left
  <2>1. \/ Weight = 2 /\ Weight' = 1
        \/ Weight = 4 /\ Weight' = 1
        \/ Weight = 4 /\ Weight' = 3
    BY <1>2, <1>4 DEF Weight
  <2> QED
    BY <1>2, <1>4, <2>1, Settles
<1>5. CASE SkipBlank
  BY <1>3, <1>5 DEF SkipBlank
<1>6. CASE EnterComment
  <2>1. CASE PeekNext = "/"
    <3>1. current' = current /\ mode = "skip" /\ mode' = "line comment" /\ Peek = "/"
      BY <1>6, <2>1 DEF EnterComment
    <3>2. Weight = 3 /\ Weight' = 2
      BY <2>1, <3>1 DEF Weight
    <3> QED
      BY <1>2, <3>1, <3>2, Settles
  <2>2. CASE PeekNext # "/"
    BY <1>3, <1>6, <2>2 DEF EnterComment
  <2> QED
    BY <2>1, <2>2
<1>7. CASE LineComment
  <2>1. CASE Peek \notin {"\n", Nul}
    BY <1>3, <1>7, <2>1 DEF LineComment
  <2>2. CASE Peek \in {"\n", Nul}
    <3>1. Peek # "/"
      BY <2>2 DEF Nul
    <3>2. current' = current /\ mode' = "skip" /\ mode = "line comment"
      BY <1>7, <2>2 DEF LineComment
    <3> QED
      BY <1>4, <3>1, <3>2
  <2> QED
    BY <2>1, <2>2
<1>8. CASE BlockComment
  <2>1. CASE Peek # Nul
    <3>1. current' = current + 1 \/ current' = current + 2
      BY <1>8, <2>1 DEF BlockComment
    <3> QED
      BY <1>3, <3>1
  <2>2. CASE Peek = Nul
    <3>1. current' = current /\ mode' = "skip" /\ mode = "block comment"
      BY <1>8, <2>2 DEF BlockComment
    <3> QED
      BY <1>4, <3>1
  <2> QED
    BY <2>1, <2>2
<1>9. CASE ScanEnd
  <2>1. current' = current /\ mode = "skip" /\ mode' = "done" /\ Peek = Nul
    BY <1>9 DEF ScanEnd
  <2>2. Weight = 1 /\ Weight' = 0
    BY <2>1 DEF Weight, Nul
  <2> QED
    BY <1>2, <2>1, <2>2, Settles
<1>10. CASE ScanBegin
  BY <1>3, <1>10 DEF ScanBegin
<1>11. CASE ScanPunctuation
  BY <1>3, <1>11 DEF ScanPunctuation
<1>12. CASE ScanUnexpected
  BY <1>3, <1>12 DEF ScanUnexpected
<1>13. CASE ScanIdentifier
  <2>1. CASE Peek \in Letters \cup Digits
    BY <1>3, <1>13, <2>1 DEF ScanIdentifier
  <2>2. CASE Peek \notin Letters \cup Digits
    <3>1. current' = current /\ mode' = "skip" /\ mode = "identifier"
      BY <1>13, <2>2 DEF ScanIdentifier
    <3> QED
      BY <1>4, <3>1
  <2> QED
    BY <2>1, <2>2
<1>14. CASE ScanNumber
  <2>1. \/ current' = current + 1
        \/ current' = current /\ mode' = "skip" /\ mode \in {"number", "fraction"}
    BY <1>14 DEF ScanNumber
  <2> QED
    BY <1>3, <1>4, <2>1
<1>15. CASE ScanString
  <2>1. mode = "string"
    BY <1>15 DEF ScanString
  <2>2. CASE Peek \notin {"\"", Nul}
    <3>1. current' = current + 1 \/ current' = (current + 1) + 1
      BY <1>15, <2>2 DEF ScanString
    <3> QED
      BY <1>3, <3>1
  <2>3. CASE Peek = Nul
    <3>1. current' = current /\ mode' = "skip"
      BY <1>15, <2>3 DEF ScanString, Nul
    <3> QED
      BY <1>4, <2>1, <3>1
  <2>4. CASE Peek = "\""
    <3>1. current' = current + 1
      BY <1>15, <2>4 DEF ScanString, Nul
    <3> QED
      BY <1>3, <3>1
  <2> QED
    BY <2>2, <2>3, <2>4
<1> QED
  BY <1>5, <1>6, <1>7, <1>8, <1>9, <1>10, <1>11, <1>12, <1>13, <1>14, <1>15 DEF Next

-----------------------------------------------------------------------------
(* The theorems *)

\* The scanner stays within the text, between its characters and the terminator.
THEOREM LexerInv ==
  Spec => []IndInv
<1> QED
  BY InvInitially, InvKept, PTL DEF Spec

\* Whatever comment, escape, number or string the text breaks off in, no index
\* passes the terminator; every token and every error is within the text.
THEOREM LexerTypeOK ==
  Spec => []TypeOK
<1>1. IndInv => TypeOK
  <2> SUFFICES ASSUME IndInv
               PROVE  TypeOK
    OBVIOUS
  <2>1. source \in Seq(STRING)
    <3> DEFINE R == STRING
               S == R \ {Nul}
    <3>1. source \in Seq(S)
      BY SourcesAssumption DEF IndInv
    <3> HIDE DEF R
    <3>2. source \in Seq(R)
      BY <3>1, SeqMonotonic
    <3> QED
      BY <3>2 DEF R
  <2>2. DOMAIN tokens = 1 .. Len(tokens)
    BY DEF IndInv, Placed
  <2>3. \A i \in DOMAIN tokens : tokens[i].start \in 1 .. tokens[i].end
    BY <2>2 DEF IndInv, Placed
  <2>4. /\ current \in 1 .. Len(source) + 1 /\ start \in 1 .. current
        /\ line \in 1 .. Len(source) + 1
    BY DEF IndInv, Within
  <2> QED
    BY <2>1, <2>3, <2>4 DEF IndInv, InLoop, Outside, Inside, Reported, TypeOK
<1> QED
  BY <1>1, LexerInv, PTL

\* At the end of the text the parser has been handed exactly the tokens of the lexical
\* rules, with their types and lines, and told of exactly the errors: no loop of the
\* scanner stops a character early or late, and no token is lost, repeated or reordered.
THEOREM LexerTokensRight ==
  Spec => []TokensRight
<1>1. Scanned => TokensRight
  <2> SUFFICES ASSUME Scanned, mode = "done"
               PROVE  tokens = G!Scan(source)[1].tokens /\ errors = G!Scan(source)[1].errors
    BY DEF TokensRight
  <2> QED
    BY Places DEF Scanned
<1>2. Spec => []Scanned
  BY LexerInv, ScannedInitially, ScannedKept, PTL DEF Spec
<1> QED
  BY <1>1, <1>2, PTL

\* No loop of the scanner turns without getting on, whatever comment, string or character
\* the text has: every step lessens what is left, so a text of n characters is scanned in at
\* most 5 n + 3 steps.
THEOREM LexerProgress ==
  Spec => [][Left' \in Nat /\ Left' < Left]_vars
<1>1. IndInv /\ [Next]_vars => [Left' \in Nat /\ Left' < Left]_vars
  BY StepsLessen
<1> QED
  BY <1>1, LexerInv, PTL DEF Spec
=============================================================================
