---------------------------- MODULE ScopesProofs ----------------------------
(***************************************************************************)
(* Proofs about Scopes, for any identifiers, any source text and any       *)
(* bounds: the compiler finds every variable where it will be at run time. *)
(***************************************************************************)
EXTENDS Scopes, SequenceTheorems, FiniteSetTheorems, WellFoundedInduction, TLAPS

-----------------------------------------------------------------------------
(* The inductive invariant *)

LocalTypes ==
  [name : Names \cup {NoName}, depth : -1 .. MaxScopes, isCaptured : BOOLEAN,
   var : 0 .. MaxDeclarations, slot : Int]

UpvalueTypes == [index : Nat \ {0}, isLocal : BOOLEAN, var : Nat]

CompilerTypes ==
  [locals : Seq(LocalTypes), upvalues : Seq(UpvalueTypes), scope : 0 .. MaxScopes,
   height : Int, inParameters : BOOLEAN, defines : BOOLEAN]

\* Every compiler has the local of the function itself, and no more than fits a byte.
Shaped(cs) ==
  /\ cs \in Seq(CompilerTypes) /\ Len(cs) \in 1 .. MaxFunctions
  /\ \A c \in 1 .. Len(cs) :
       /\ Len(cs[c].locals) \in 1 .. MaxLocals
       /\ cs[c].locals[1].name = NoName /\ cs[c].locals[1].depth = 0 /\ cs[c].locals[1].var = 0
       /\ Len(cs[c].upvalues) <= MaxUpvalues
  /\ cs[1].upvalues = <<>>

\* Later declarations are further in: no two locals are the same declaration.
Ordered(cs, n) ==
  /\ \A c \in 1 .. Len(cs) : \A i \in 2 .. Len(cs[c].locals) : cs[c].locals[i].var \in 1 .. n
  /\ \A c, d \in 1 .. Len(cs) : \A i \in 2 .. Len(cs[c].locals) : \A j \in 2 .. Len(cs[d].locals) :
       c < d \/ (c = d /\ i < j) => cs[c].locals[i].var < cs[d].locals[j].var

\* Only the newest local can be without its initializer, and no parameter is.
Filled(x) ==
  /\ \A i \in 1 .. Len(x.locals) - 1 : x.locals[i].depth >= 0
  /\ x.inParameters => x.locals[Len(x.locals)].depth >= 0

\* Nor is the local that names the function being compiled.
Initialized(cs) ==
  \A c \in 1 .. Len(cs) :
    /\ Filled(cs[c])
    /\ c < Len(cs) /\ cs[c + 1].defines => cs[c].locals[Len(cs[c].locals)].depth >= 0

\* One step from an upvalue towards its variable: to a local or an upvalue of
\* the function around it, which are of the same variable.
LeadsOn(cs, c, u) ==
  IF u.isLocal
    THEN u.index \in 1 .. Len(cs[c - 1].locals) /\ cs[c - 1].locals[u.index].var = u.var
    ELSE u.index \in 1 .. Len(cs[c - 1].upvalues) /\ cs[c - 1].upvalues[u.index].var = u.var

Leading(cs) ==
  \A c \in 2 .. Len(cs) : \A k \in 1 .. Len(cs[c].upvalues) : LeadsOn(cs, c, cs[c].upvalues[k])

Marked(cs, vs) ==
  \A c \in 1 .. Len(cs) : \A i \in 1 .. Len(cs[c].locals) :
    cs[c].locals[i].var \in vs => cs[c].locals[i].isCaptured

\* The newest local's value is not on the stack yet.
Awaited(cs, c) ==
  \/ cs[c].locals[Len(cs[c].locals)].depth = -1
  \/ c < Len(cs) /\ cs[c + 1].defines

Slotted(cs) ==
  \A c \in 1 .. Len(cs) :
    /\ \A i \in 1 .. Len(cs[c].locals) : cs[c].locals[i].depth >= 0 => cs[c].locals[i].slot = i
    /\ cs[c].height = IF Awaited(cs, c) THEN Len(cs[c].locals) - 1 ELSE Len(cs[c].locals)

Flags ==
  /\ failed \in BOOLEAN /\ unpopped \in BOOLEAN
  /\ declared \in 0 .. MaxDeclarations
  /\ captured \subseteq 1 .. declared

Kept(cs, n, vs) ==
  /\ Shaped(cs)
  /\ Ordered(cs, n)
  /\ Initialized(cs)
  /\ Leading(cs)
  /\ Marked(cs, vs)

IndInv ==
  /\ Flags
  /\ Kept(compilers, declared, captured)
  /\ ~ unpopped /\ ~ failed => Slotted(compilers)
  /\ LexicalScope

-----------------------------------------------------------------------------
(* Lemmas about numbers and sequences *)

\* A nonempty set of naturals has a least element.
LEMMA LeastNatural ==
  ASSUME NEW S \in SUBSET Nat, S # {}
  PROVE  \E n \in S : \A m \in S : n <= m
<1> DEFINE T == {0 .. n : n \in S}
<1>1. T \subseteq FiniteSubsetsOf(Nat) /\ T # {}
  <2>1. \A n \in S : IsFiniteSet(0 .. n) /\ 0 .. n \subseteq Nat
    BY FS_Interval
  <2> QED
    BY <2>1 DEF FiniteSubsetsOf
<1>2. PICK t \in T : \A u \in T : ~ (<<u, t>> \in StrictSubsetOrdering(Nat))
  <2> HIDE DEF T
  <2>1. IsWellFoundedOn(StrictSubsetOrdering(Nat), FiniteSubsetsOf(Nat))
    BY FS_StrictSubsetOrderingWellFounded
  <2> QED
    BY <1>1, <2>1, WFMin, Zenon
<1>3. PICK n \in S : t = 0 .. n
  OBVIOUS
<1>4. ASSUME NEW m \in S, m < n
      PROVE  FALSE
  <2>1. n \in 0 .. n /\ n \notin 0 .. m /\ 0 .. m \subseteq 0 .. n
    BY <1>4
  <2>2. <<0 .. m, t>> \in StrictSubsetOrdering(Nat)
    BY <1>3, <2>1 DEF StrictSubsetOrdering
  <2> QED
    BY <1>2, <2>2
<1> QED
  BY <1>4

\* A nonempty set of numbers up to n has a greatest element.
LEMMA GreatestNumber ==
  ASSUME NEW n \in Nat, NEW S \in SUBSET (0 .. n), S # {}
  PROVE  \E i \in S : \A j \in S : j <= i
<1> DEFINE T == {n - i : i \in S}
<1>1. T \in SUBSET Nat /\ T # {}
  OBVIOUS
<1>2. PICK t \in T : \A u \in T : t <= u
  <2> HIDE DEF T
  <2> QED
    BY <1>1, LeastNatural
<1>3. PICK i \in S : t = n - i
  OBVIOUS
<1>4. ASSUME NEW j \in S
      PROVE  j <= i
  <2>1. n - j \in T
    OBVIOUS
  <2>2. n - i <= n - j
    BY <1>2, <1>3, <2>1
  <2> QED
    BY <2>2
<1> QED
  BY <1>4

\* What Append does to a sequence.
LEMMA Appended ==
  ASSUME NEW S, NEW s \in Seq(S), NEW e \in S
  PROVE  /\ Append(s, e) \in Seq(S)
         /\ Len(Append(s, e)) = Len(s) + 1
         /\ \A i \in 1 .. Len(s) : Append(s, e)[i] = s[i]
         /\ Append(s, e)[Len(s) + 1] = e
OBVIOUS

\* What is left of a sequence whose end is cut off.
LEMMA Prefix ==
  ASSUME NEW S, NEW s \in Seq(S), NEW n \in 0 .. Len(s)
  PROVE  /\ SubSeq(s, 1, n) \in Seq(S)
         /\ Len(SubSeq(s, 1, n)) = n
         /\ \A i \in 1 .. n : SubSeq(s, 1, n)[i] = s[i]
<1>1. Len(s) \in Nat /\ \A i \in 1 .. Len(s) : s[i] \in S
  BY ElementOfSeq, LenProperties
<1>2. /\ SubSeq(s, 1, n) \in Seq(S)
      /\ Len(SubSeq(s, 1, n)) = IF 1 <= n THEN n - 1 + 1 ELSE 0
      /\ \A i \in 1 .. n - 1 + 1 : SubSeq(s, 1, n)[i] = s[1 + i - 1]
  BY <1>1, SubSeqProperties
<1> QED
  BY <1>1, <1>2

\* A sequence whose last element is replaced.
Replaced(s, e) == [s EXCEPT ![Len(s)] = e]

LEMMA Replacing ==
  ASSUME NEW S, NEW s \in Seq(S), NEW e \in S, Len(s) > 0
  PROVE  /\ Replaced(s, e) \in Seq(S)
         /\ Len(Replaced(s, e)) = Len(s)
         /\ \A i \in 1 .. Len(s) : Replaced(s, e)[i] = IF i = Len(s) THEN e ELSE s[i]
<1>1. Len(s) \in 1 .. Len(s)
  BY LenProperties
<1> QED
  BY <1>1, ExceptSeq DEF Replaced

-----------------------------------------------------------------------------
(* Lemmas about types *)

LEMMA CompilerType ==
  ASSUME NEW x \in CompilerTypes
  PROVE  /\ x.locals \in Seq(LocalTypes) /\ Len(x.locals) \in Nat
         /\ \A i \in 1 .. Len(x.locals) : x.locals[i] \in LocalTypes
         /\ x.upvalues \in Seq(UpvalueTypes) /\ Len(x.upvalues) \in Nat
         /\ \A k \in 1 .. Len(x.upvalues) : x.upvalues[k] \in UpvalueTypes
         /\ x.scope \in 0 .. MaxScopes /\ x.height \in Int
         /\ x.inParameters \in BOOLEAN /\ x.defines \in BOOLEAN
<1>1. /\ x.locals \in Seq(LocalTypes) /\ x.upvalues \in Seq(UpvalueTypes)
      /\ x.scope \in 0 .. MaxScopes /\ x.height \in Int
      /\ x.inParameters \in BOOLEAN /\ x.defines \in BOOLEAN
  BY DEF CompilerTypes
<1>2. Len(x.locals) \in Nat /\ Len(x.upvalues) \in Nat
  BY <1>1, LenProperties
<1>3. \A i \in 1 .. Len(x.locals) : x.locals[i] \in LocalTypes
  BY <1>1, ElementOfSeq
<1>4. \A k \in 1 .. Len(x.upvalues) : x.upvalues[k] \in UpvalueTypes
  BY <1>1, ElementOfSeq
<1> QED
  BY <1>1, <1>2, <1>3, <1>4

LEMMA LocalFields ==
  ASSUME NEW l \in LocalTypes
  PROVE  /\ l.name \in Names \cup {NoName} /\ l.depth \in Int /\ l.depth >= -1 /\ l.depth <= MaxScopes
         /\ l.isCaptured \in BOOLEAN /\ l.var \in Nat /\ l.var <= MaxDeclarations /\ l.slot \in Int
BY ScopesAssumption DEF LocalTypes

LEMMA ShapedTypes ==
  ASSUME NEW cs, Shaped(cs)
  PROVE  /\ Len(cs) \in Nat \ {0} /\ Len(cs) <= MaxFunctions
         /\ \A c \in 1 .. Len(cs) : cs[c] \in CompilerTypes
         /\ \A c \in 1 .. Len(cs) : Len(cs[c].locals) \in Nat \ {0} /\ Len(cs[c].upvalues) \in Nat
         /\ \A c \in 1 .. Len(cs) : \A i \in 1 .. Len(cs[c].locals) : cs[c].locals[i] \in LocalTypes
<1>1. cs \in Seq(CompilerTypes) /\ Len(cs) \in Nat \ {0} /\ Len(cs) <= MaxFunctions
  BY ScopesAssumption DEF Shaped
<1>2. \A c \in 1 .. Len(cs) : cs[c] \in CompilerTypes
  BY <1>1, ElementOfSeq
<1>3. ASSUME NEW c \in 1 .. Len(cs)
      PROVE  /\ Len(cs[c].locals) \in Nat \ {0} /\ Len(cs[c].upvalues) \in Nat
             /\ \A i \in 1 .. Len(cs[c].locals) : cs[c].locals[i] \in LocalTypes
  <2>1. Len(cs[c].locals) \in 1 .. MaxLocals
    BY DEF Shaped
  <2> QED
    BY <1>2, <2>1, CompilerType
<1> QED
  BY <1>1, <1>2, <1>3

-----------------------------------------------------------------------------
(* The current function's compiler is changed *)

\* The first local is that of the function itself.
Rooted(x) == x.locals[1].name = NoName /\ x.locals[1].depth = 0 /\ x.locals[1].var = 0

\* x is old with other depths, slots, scope and height, with locals dropped at
\* the end or with the m-th declaration added there.
Edited(old, x, n, m) ==
  /\ x \in CompilerTypes /\ Len(x.locals) \in 1 .. MaxLocals /\ Rooted(x)
  /\ x.upvalues = old.upvalues /\ x.defines = old.defines
  /\ m \in {n, n + 1}
  /\ \A i \in 1 .. Len(x.locals) :
       IF i <= Len(old.locals)
         THEN x.locals[i].var = old.locals[i].var /\ x.locals[i].isCaptured = old.locals[i].isCaptured
         ELSE i = Len(old.locals) + 1 /\ m = n + 1 /\ x.locals[i].var = m

\* cs2 is cs with x as the current compiler.
WithTop(cs, cs2, x) ==
  /\ cs2 \in Seq(CompilerTypes) /\ Len(cs2) = Len(cs)
  /\ cs2[Len(cs)] = x
  /\ \A c \in 1 .. Len(cs) - 1 : cs2[c] = cs[c]

\* The locals before the last have their values, the last may wait for it.
AtTop(x) ==
  /\ \A i \in 1 .. Len(x.locals) : x.locals[i].depth >= 0 => x.locals[i].slot = i
  /\ x.height = IF x.locals[Len(x.locals)].depth = -1 THEN Len(x.locals) - 1 ELSE Len(x.locals)

SlottedBelow(cs) ==
  \A c \in 1 .. Len(cs) - 1 :
    /\ \A i \in 1 .. Len(cs[c].locals) : cs[c].locals[i].depth >= 0 => cs[c].locals[i].slot = i
    /\ cs[c].height = IF Awaited(cs, c) THEN Len(cs[c].locals) - 1 ELSE Len(cs[c].locals)

LEMMA EditShaped ==
  ASSUME NEW cs, NEW cs2, NEW x, NEW n \in Nat, NEW m, Shaped(cs),
         Edited(cs[Len(cs)], x, n, m), WithTop(cs, cs2, x)
  PROVE  Shaped(cs2)
<1>1. Len(cs) \in Nat \ {0} /\ Len(cs) <= MaxFunctions
  BY ShapedTypes
<1>2. /\ Len(x.locals) \in 1 .. MaxLocals /\ Rooted(x) /\ x.upvalues = cs[Len(cs)].upvalues
      /\ cs2 \in Seq(CompilerTypes) /\ Len(cs2) = Len(cs) /\ cs2[Len(cs)] = x
      /\ \A c \in 1 .. Len(cs) - 1 : cs2[c] = cs[c]
  BY DEF Edited, WithTop
<1>3. ASSUME NEW c \in 1 .. Len(cs)
      PROVE  /\ Len(cs2[c].locals) \in 1 .. MaxLocals
             /\ cs2[c].locals[1].name = NoName /\ cs2[c].locals[1].depth = 0 /\ cs2[c].locals[1].var = 0
             /\ cs2[c].upvalues = cs[c].upvalues
  <2>1. CASE c = Len(cs)
    BY <1>2, <2>1 DEF Rooted
  <2>2. CASE c # Len(cs)
    <3>1. c \in 1 .. Len(cs) - 1
      BY <1>1, <2>2
    <3> QED
      BY <1>2, <3>1 DEF Shaped
  <2> QED
    BY <2>1, <2>2
<1>4. \A c \in 1 .. Len(cs) : Len(cs[c].upvalues) <= MaxUpvalues
  BY DEF Shaped
<1>5. cs[1].upvalues = <<>> /\ 1 \in 1 .. Len(cs)
  BY <1>1 DEF Shaped
<1> QED
  BY <1>1, <1>2, <1>3, <1>4, <1>5 DEF Shaped

LEMMA EditOrdered ==
  ASSUME NEW cs, NEW cs2, NEW x, NEW n \in Nat, NEW m, Shaped(cs),
         Edited(cs[Len(cs)], x, n, m), WithTop(cs, cs2, x), Ordered(cs, n)
  PROVE  Ordered(cs2, m)
<1>1. Len(cs) \in Nat \ {0} /\ \A c \in 1 .. Len(cs) : Len(cs[c].locals) \in Nat \ {0}
  BY ShapedTypes
<1>2. /\ Len(x.locals) \in Nat /\ m \in {n, n + 1} /\ Len(cs2) = Len(cs)
      /\ cs2[Len(cs)] = x /\ \A c \in 1 .. Len(cs) - 1 : cs2[c] = cs[c]
  BY ScopesAssumption DEF Edited, WithTop
<1>3. \A i \in 1 .. Len(x.locals) :
         IF i <= Len(cs[Len(cs)].locals)
           THEN x.locals[i].var = cs[Len(cs)].locals[i].var
           ELSE i = Len(cs[Len(cs)].locals) + 1 /\ m = n + 1 /\ x.locals[i].var = m
  BY DEF Edited
<1>4. ASSUME NEW c \in 1 .. Len(cs), NEW i \in 2 .. Len(cs2[c].locals)
      PROVE  \/ i \in 2 .. Len(cs[c].locals) /\ cs2[c].locals[i].var = cs[c].locals[i].var
             \/ /\ c = Len(cs) /\ i = Len(cs[c].locals) + 1
                /\ m = n + 1 /\ cs2[c].locals[i].var = m
  <2>1. CASE c = Len(cs)
    BY <1>1, <1>2, <1>3, <2>1
  <2>2. CASE c # Len(cs)
    <3>1. c \in 1 .. Len(cs) - 1
      BY <1>1, <2>2
    <3> QED
      BY <1>2, <3>1
  <2> QED
    BY <2>1, <2>2
<1>5. \A c \in 1 .. Len(cs) : \A i \in 2 .. Len(cs[c].locals) : cs[c].locals[i].var \in 1 .. n
  BY DEF Ordered
<1>6. \A c, d \in 1 .. Len(cs) : \A i \in 2 .. Len(cs[c].locals) : \A j \in 2 .. Len(cs[d].locals) :
         c < d \/ (c = d /\ i < j) => cs[c].locals[i].var < cs[d].locals[j].var
  BY DEF Ordered
<1>7. ASSUME NEW c \in 1 .. Len(cs), NEW i \in 2 .. Len(cs2[c].locals)
      PROVE  cs2[c].locals[i].var \in 1 .. m
  <2>1. CASE i \in 2 .. Len(cs[c].locals) /\ cs2[c].locals[i].var = cs[c].locals[i].var
    <3>1. cs[c].locals[i].var \in 1 .. n
      BY <1>5, <2>1
    <3> QED
      BY <1>2, <2>1, <3>1
  <2>2. CASE m = n + 1 /\ cs2[c].locals[i].var = m
    BY <2>2
  <2> QED
    BY <1>4, <2>1, <2>2
<1>8. ASSUME NEW c \in 1 .. Len(cs), NEW d \in 1 .. Len(cs),
             NEW i \in 2 .. Len(cs2[c].locals), NEW j \in 2 .. Len(cs2[d].locals),
             c < d \/ (c = d /\ i < j)
      PROVE  cs2[c].locals[i].var < cs2[d].locals[j].var
  <2>1. CASE j \in 2 .. Len(cs[d].locals) /\ cs2[d].locals[j].var = cs[d].locals[j].var
    <3>1. i \in 2 .. Len(cs[c].locals) /\ cs2[c].locals[i].var = cs[c].locals[i].var
      BY <1>1, <1>4, <1>8, <2>1
    <3> QED
      BY <1>6, <1>8, <2>1, <3>1
  <2>2. CASE /\ d = Len(cs) /\ j = Len(cs[d].locals) + 1
             /\ m = n + 1 /\ cs2[d].locals[j].var = m
    <3>1. i \in 2 .. Len(cs[c].locals) /\ cs2[c].locals[i].var = cs[c].locals[i].var
      BY <1>1, <1>4, <1>8, <2>2
    <3> QED
      BY <1>5, <2>2, <3>1
  <2> QED
    BY <1>4, <2>1, <2>2
<1> QED
  BY <1>2, <1>7, <1>8 DEF Ordered

LEMMA EditInitialized ==
  ASSUME NEW cs, NEW cs2, NEW x, NEW n \in Nat, NEW m, Shaped(cs),
         Edited(cs[Len(cs)], x, n, m), WithTop(cs, cs2, x), Initialized(cs),
         Filled(x)
  PROVE  Initialized(cs2)
<1>1. Len(cs) \in Nat \ {0}
  BY ShapedTypes
<1>2. /\ Len(cs2) = Len(cs) /\ cs2[Len(cs)] = x /\ x.defines = cs[Len(cs)].defines
      /\ \A c \in 1 .. Len(cs) - 1 : cs2[c] = cs[c]
  BY DEF Edited, WithTop
<1>3. ASSUME NEW c \in 1 .. Len(cs)
      PROVE  /\ Filled(cs2[c])
             /\ c < Len(cs) /\ cs2[c + 1].defines => cs2[c].locals[Len(cs2[c].locals)].depth >= 0
  <2>1. CASE c = Len(cs)
    BY <1>1, <1>2, <2>1
  <2>2. CASE c # Len(cs)
    <3>1. c \in 1 .. Len(cs) - 1 /\ c + 1 \in 1 .. Len(cs)
      BY <1>1, <2>2
    <3>2. cs2[c] = cs[c] /\ cs2[c + 1].defines = cs[c + 1].defines
      <4>1. c + 1 = Len(cs) \/ c + 1 \in 1 .. Len(cs) - 1
        BY <1>1, <3>1
      <4> QED
        BY <1>2, <3>1, <4>1
    <3> QED
      BY <3>1, <3>2 DEF Initialized
  <2> QED
    BY <2>1, <2>2
<1> QED
  BY <1>2, <1>3 DEF Initialized

LEMMA EditLeading ==
  ASSUME NEW cs, NEW cs2, NEW x, NEW n \in Nat, NEW m, Shaped(cs),
         Edited(cs[Len(cs)], x, n, m), WithTop(cs, cs2, x), Leading(cs)
  PROVE  Leading(cs2)
<1>1. Len(cs) \in Nat \ {0}
  BY ShapedTypes
<1>2. /\ Len(cs2) = Len(cs) /\ cs2[Len(cs)] = x /\ x.upvalues = cs[Len(cs)].upvalues
      /\ \A c \in 1 .. Len(cs) - 1 : cs2[c] = cs[c]
  BY DEF Edited, WithTop
<1>3. ASSUME NEW c \in 2 .. Len(cs), NEW k \in 1 .. Len(cs2[c].upvalues)
      PROVE  LeadsOn(cs2, c, cs2[c].upvalues[k])
  <2>1. cs2[c - 1] = cs[c - 1]
    <3>1. c - 1 \in 1 .. Len(cs) - 1
      BY <1>1
    <3> QED
      BY <1>2, <3>1
  <2>2. cs2[c].upvalues = cs[c].upvalues
    <3>1. c = Len(cs) \/ c \in 1 .. Len(cs) - 1
      BY <1>1
    <3> QED
      BY <1>2, <3>1
  <2>3. LeadsOn(cs, c, cs[c].upvalues[k])
    BY <2>2 DEF Leading
  <2> QED
    BY <2>1, <2>2, <2>3 DEF LeadsOn
<1> QED
  BY <1>2, <1>3 DEF Leading

LEMMA EditMarked ==
  ASSUME NEW cs, NEW cs2, NEW x, NEW n \in Nat, NEW m, Shaped(cs),
         Edited(cs[Len(cs)], x, n, m), WithTop(cs, cs2, x),
         NEW vs \in SUBSET (1 .. n), Marked(cs, vs)
  PROVE  Marked(cs2, vs)
<1>1. Len(cs) \in Nat \ {0} /\ \A c \in 1 .. Len(cs) : Len(cs[c].locals) \in Nat \ {0}
  BY ShapedTypes
<1>2. Len(cs2) = Len(cs) /\ cs2[Len(cs)] = x /\ \A c \in 1 .. Len(cs) - 1 : cs2[c] = cs[c]
  BY DEF WithTop
<1>3. ASSUME NEW c \in 1 .. Len(cs), NEW i \in 1 .. Len(cs2[c].locals), cs2[c].locals[i].var \in vs
      PROVE  cs2[c].locals[i].isCaptured
  <2>1. CASE c = Len(cs)
    <3>1. i \in 1 .. Len(x.locals) /\ cs2[c].locals = x.locals
      BY <1>2, <2>1
    <3>2. x.locals[i].var # n + 1
      BY <1>3, <3>1
    <3>3. /\ i <= Len(cs[c].locals)
          /\ x.locals[i].var = cs[c].locals[i].var /\ x.locals[i].isCaptured = cs[c].locals[i].isCaptured
      BY <2>1, <3>1, <3>2 DEF Edited
    <3>4. i \in 1 .. Len(cs[c].locals) /\ cs[c].locals[i].var \in vs
      BY <1>1, <1>3, <3>1, <3>3
    <3> QED
      BY <3>1, <3>3, <3>4 DEF Marked
  <2>2. CASE c # Len(cs)
    <3>1. c \in 1 .. Len(cs) - 1
      BY <1>1, <2>2
    <3>2. cs2[c] = cs[c]
      BY <1>2, <3>1
    <3> QED
      BY <1>3, <3>2 DEF Marked
  <2> QED
    BY <2>1, <2>2
<1> QED
  BY <1>2, <1>3 DEF Marked

LEMMA EditSlotted ==
  ASSUME NEW cs, NEW cs2, NEW x, NEW n \in Nat, NEW m, Shaped(cs),
         Edited(cs[Len(cs)], x, n, m), WithTop(cs, cs2, x), Slotted(cs)
  PROVE  SlottedBelow(cs2) /\ (AtTop(x) => Slotted(cs2))
<1>1. Len(cs) \in Nat \ {0}
  BY ShapedTypes
<1>2. /\ Len(cs2) = Len(cs) /\ cs2[Len(cs)] = x /\ x.defines = cs[Len(cs)].defines
      /\ \A c \in 1 .. Len(cs) - 1 : cs2[c] = cs[c]
  BY DEF Edited, WithTop
<1>3. ASSUME NEW c \in 1 .. Len(cs) - 1
      PROVE  /\ \A i \in 1 .. Len(cs2[c].locals) :
                  cs2[c].locals[i].depth >= 0 => cs2[c].locals[i].slot = i
             /\ cs2[c].height = IF Awaited(cs2, c) THEN Len(cs2[c].locals) - 1 ELSE Len(cs2[c].locals)
  <2>1. cs2[c] = cs[c] /\ c \in 1 .. Len(cs)
    BY <1>1, <1>2
  <2>2. cs2[c + 1].defines = cs[c + 1].defines
    <3>1. c + 1 = Len(cs) \/ c + 1 \in 1 .. Len(cs) - 1
      BY <1>1
    <3> QED
      BY <1>2, <3>1
  <2>3. Awaited(cs2, c) <=> Awaited(cs, c)
    BY <1>2, <2>1, <2>2 DEF Awaited
  <2> QED
    BY <2>1, <2>3 DEF Slotted
<1>4. SlottedBelow(cs2)
  BY <1>2, <1>3 DEF SlottedBelow
<1>5. ASSUME AtTop(x)
      PROVE  Slotted(cs2)
  <2>1. Awaited(cs2, Len(cs)) <=> x.locals[Len(x.locals)].depth = -1
    BY <1>1, <1>2 DEF Awaited
  <2>2. /\ \A i \in 1 .. Len(cs2[Len(cs)].locals) :
             cs2[Len(cs)].locals[i].depth >= 0 => cs2[Len(cs)].locals[i].slot = i
        /\ cs2[Len(cs)].height = IF Awaited(cs2, Len(cs)) THEN Len(cs2[Len(cs)].locals) - 1
                                 ELSE Len(cs2[Len(cs)].locals)
    BY <1>2, <1>5, <2>1 DEF AtTop
  <2>3. \A c \in 1 .. Len(cs2) : c = Len(cs) \/ c \in 1 .. Len(cs) - 1
    BY <1>1, <1>2
  <2> QED
    BY <1>3, <2>2, <2>3 DEF Slotted
<1> QED
  BY <1>4, <1>5

\* In a state without an open expression the current function is at its locals.
LEMMA SlottedAtTop ==
  ASSUME NEW cs, Shaped(cs), Slotted(cs)
  PROVE  AtTop(cs[Len(cs)])
<1>1. Len(cs) \in 1 .. Len(cs) /\ ~ Len(cs) < Len(cs)
  BY ShapedTypes
<1> QED
  BY <1>1 DEF Slotted, AtTop, Awaited

-----------------------------------------------------------------------------
(* A function is begun *)

LEMMA NewCompilerShape ==
  ASSUME NEW scope \in {0, 1}, NEW b \in BOOLEAN
  PROVE  /\ NewCompiler(scope, b) \in CompilerTypes
         /\ Len(NewCompiler(scope, b).locals) = 1 /\ Rooted(NewCompiler(scope, b))
         /\ NewCompiler(scope, b).locals[1].slot = 1
         /\ NewCompiler(scope, b).upvalues = <<>> /\ NewCompiler(scope, b).height = 1
         /\ NewCompiler(scope, b).defines = b
<1>1. Local(NoName, 0, 0, 1) \in LocalTypes
  BY ScopesAssumption DEF Local, LocalTypes
<1>2. <<Local(NoName, 0, 0, 1)>> \in Seq(LocalTypes) /\ <<>> \in Seq(UpvalueTypes)
  BY <1>1
<1>3. NewCompiler(scope, b) \in CompilerTypes
  BY <1>2, ScopesAssumption DEF NewCompiler, CompilerTypes
<1> QED
  BY <1>3 DEF NewCompiler, Local, Rooted

\* cs2 is cs with the compiler of a new function, y, inside.
Within(cs, cs2, y) ==
  /\ cs2 \in Seq(CompilerTypes) /\ Len(cs2) = Len(cs) + 1 /\ cs2[Len(cs) + 1] = y
  /\ \A c \in 1 .. Len(cs) : cs2[c] = cs[c]

LEMMA PushShaped ==
  ASSUME NEW cs, NEW cs2, NEW b \in BOOLEAN, Shaped(cs), Len(cs) < MaxFunctions,
         Within(cs, cs2, NewCompiler(1, b))
  PROVE  Shaped(cs2)
<1> DEFINE y == NewCompiler(1, b)
<1>1. Len(cs) \in Nat \ {0} /\ Len(cs) <= MaxFunctions
  BY ShapedTypes
<1>2. Len(y.locals) = 1 /\ Rooted(y) /\ y.upvalues = <<>>
  BY NewCompilerShape
<1> HIDE DEF y
<1>3. /\ cs2 \in Seq(CompilerTypes) /\ Len(cs2) = Len(cs) + 1 /\ cs2[Len(cs) + 1] = y
      /\ \A c \in 1 .. Len(cs) : cs2[c] = cs[c]
  BY DEF Within, y
<1>4. ASSUME NEW c \in 1 .. Len(cs) + 1
      PROVE  /\ Len(cs2[c].locals) \in 1 .. MaxLocals
             /\ cs2[c].locals[1].name = NoName /\ cs2[c].locals[1].depth = 0 /\ cs2[c].locals[1].var = 0
             /\ Len(cs2[c].upvalues) <= MaxUpvalues
  <2>1. CASE c = Len(cs) + 1
    <3>1. Len(<<>>) = 0
      OBVIOUS
    <3>2. cs2[c] = y
      BY <1>3, <2>1
    <3>3. 1 \in 1 .. MaxLocals /\ 0 <= MaxUpvalues
      BY ScopesAssumption
    <3> QED
      BY <1>2, <3>1, <3>2, <3>3 DEF Rooted
  <2>2. CASE c # Len(cs) + 1
    <3>1. c \in 1 .. Len(cs)
      BY <1>1, <2>2
    <3> QED
      BY <1>3, <3>1 DEF Shaped
  <2> QED
    BY <2>1, <2>2
<1>5. cs2[1].upvalues = <<>>
  <2>1. 1 \in 1 .. Len(cs)
    BY <1>1
  <2> QED
    BY <1>3, <2>1 DEF Shaped
<1> QED
  BY <1>1, <1>3, <1>4, <1>5, ScopesAssumption DEF Shaped

LEMMA PushOrdered ==
  ASSUME NEW cs, NEW cs2, NEW b \in BOOLEAN, NEW n \in Nat, Shaped(cs), Ordered(cs, n),
         Within(cs, cs2, NewCompiler(1, b))
  PROVE  Ordered(cs2, n)
<1>1. Len(cs) \in Nat \ {0}
  BY ShapedTypes
<1>2. /\ Len(cs2) = Len(cs) + 1 /\ Len(cs2[Len(cs) + 1].locals) = 1
      /\ \A c \in 1 .. Len(cs) : cs2[c] = cs[c]
  BY NewCompilerShape DEF Within
<1>3. ASSUME NEW c \in 1 .. Len(cs2), NEW i \in 2 .. Len(cs2[c].locals)
      PROVE  c \in 1 .. Len(cs) /\ i \in 2 .. Len(cs[c].locals) /\ cs2[c] = cs[c]
  <2>1. ASSUME c = Len(cs) + 1
        PROVE  FALSE
    <3>1. Len(cs2[c].locals) = 1
      BY <1>2, <2>1
    <3> QED
      BY <3>1
  <2>2. c \in 1 .. Len(cs)
    BY <1>1, <1>2, <2>1
  <2> QED
    BY <1>2, <2>2
<1> QED
  BY <1>3 DEF Ordered

LEMMA PushInitialized ==
  ASSUME NEW cs, NEW cs2, NEW b \in BOOLEAN, Shaped(cs), Initialized(cs),
         b => cs[Len(cs)].locals[Len(cs[Len(cs)].locals)].depth >= 0,
         Within(cs, cs2, NewCompiler(1, b))
  PROVE  Initialized(cs2)
<1>1. Len(cs) \in Nat \ {0}
  BY ShapedTypes
<1>2. /\ Len(cs2) = Len(cs) + 1 /\ Len(cs2[Len(cs) + 1].locals) = 1 /\ cs2[Len(cs) + 1].defines = b
      /\ cs2[Len(cs) + 1].locals[1].depth = 0
      /\ \A c \in 1 .. Len(cs) : cs2[c] = cs[c]
  BY NewCompilerShape DEF Within, Rooted
<1>3. ASSUME NEW c \in 1 .. Len(cs2)
      PROVE  /\ Filled(cs2[c])
             /\ c < Len(cs2) /\ cs2[c + 1].defines => cs2[c].locals[Len(cs2[c].locals)].depth >= 0
  <2>1. CASE c = Len(cs) + 1
    <3>1. Len(cs2[c].locals) = 1 /\ cs2[c].locals[1].depth = 0 /\ ~ c < Len(cs2)
      BY <1>1, <1>2, <2>1
    <3>2. Filled(cs2[c])
      BY <3>1 DEF Filled
    <3> QED
      BY <3>1, <3>2
  <2>2. CASE c = Len(cs)
    <3>1. cs2[c] = cs[c] /\ c \in 1 .. Len(cs)
      BY <1>1, <1>2, <2>2
    <3> QED
      BY <1>2, <2>2, <3>1 DEF Initialized
  <2>3. CASE c \in 1 .. Len(cs) - 1
    <3>1. c \in 1 .. Len(cs) /\ c + 1 \in 1 .. Len(cs)
      BY <1>1, <2>3
    <3>2. cs2[c] = cs[c] /\ cs2[c + 1] = cs[c + 1] /\ c < Len(cs)
      BY <1>1, <1>2, <2>3, <3>1
    <3> QED
      BY <3>1, <3>2 DEF Initialized
  <2> QED
    BY <1>1, <1>2, <2>1, <2>2, <2>3
<1> QED
  BY <1>3 DEF Initialized

LEMMA PushLeading ==
  ASSUME NEW cs, NEW cs2, NEW b \in BOOLEAN, Shaped(cs), Leading(cs),
         Within(cs, cs2, NewCompiler(1, b))
  PROVE  Leading(cs2)
<1>1. Len(cs) \in Nat \ {0}
  BY ShapedTypes
<1>2. /\ Len(cs2) = Len(cs) + 1 /\ cs2[Len(cs) + 1].upvalues = <<>>
      /\ \A c \in 1 .. Len(cs) : cs2[c] = cs[c]
  BY NewCompilerShape DEF Within
<1>3. ASSUME NEW c \in 2 .. Len(cs2), NEW k \in 1 .. Len(cs2[c].upvalues)
      PROVE  LeadsOn(cs2, c, cs2[c].upvalues[k])
  <2>1. c # Len(cs) + 1
    BY <1>2
  <2>2. c \in 2 .. Len(cs) /\ c \in 1 .. Len(cs) /\ c - 1 \in 1 .. Len(cs)
    BY <1>1, <1>2, <2>1
  <2>3. cs2[c] = cs[c] /\ cs2[c - 1] = cs[c - 1]
    BY <1>2, <2>2
  <2>4. LeadsOn(cs, c, cs[c].upvalues[k])
    BY <2>2, <2>3 DEF Leading
  <2> QED
    BY <2>3, <2>4 DEF LeadsOn
<1> QED
  BY <1>3 DEF Leading

LEMMA PushMarked ==
  ASSUME NEW cs, NEW cs2, NEW b \in BOOLEAN, NEW n \in Nat, NEW vs \in SUBSET (1 .. n),
         Shaped(cs), Marked(cs, vs), Within(cs, cs2, NewCompiler(1, b))
  PROVE  Marked(cs2, vs)
<1>1. Len(cs) \in Nat \ {0}
  BY ShapedTypes
<1>2. /\ Len(cs2) = Len(cs) + 1 /\ Len(cs2[Len(cs) + 1].locals) = 1
      /\ cs2[Len(cs) + 1].locals[1].var = 0
      /\ \A c \in 1 .. Len(cs) : cs2[c] = cs[c]
  BY NewCompilerShape DEF Within, Rooted
<1>3. ASSUME NEW c \in 1 .. Len(cs2), NEW i \in 1 .. Len(cs2[c].locals), cs2[c].locals[i].var \in vs
      PROVE  cs2[c].locals[i].isCaptured
  <2>1. c # Len(cs) + 1
    <3>1. SUFFICES ASSUME c = Len(cs) + 1
                   PROVE  FALSE
      OBVIOUS
    <3>2. Len(cs2[c].locals) = 1 /\ cs2[c].locals[1].var = 0
      BY <1>2, <3>1
    <3>3. 0 \in vs
      <4>1. i = 1
        BY <3>2
      <4> QED
        BY <1>3, <3>2, <4>1
    <3> QED
      BY <3>3
  <2>2. c \in 1 .. Len(cs)
    BY <1>1, <1>2, <2>1
  <2>3. cs2[c] = cs[c]
    BY <1>2, <2>2
  <2> QED
    BY <1>3, <2>2, <2>3 DEF Marked
<1> QED
  BY <1>3 DEF Marked

\* A named function's closure will be pushed where its name's slot is.
LEMMA PushSlotted ==
  ASSUME NEW cs, NEW cs2, NEW b \in BOOLEAN, Shaped(cs), SlottedBelow(cs),
         Within(cs, cs2, NewCompiler(1, b)),
         LET x == cs[Len(cs)]
         IN  /\ \A i \in 1 .. Len(x.locals) : x.locals[i].depth >= 0 => x.locals[i].slot = i
             /\ x.height = IF b \/ x.locals[Len(x.locals)].depth = -1
                             THEN Len(x.locals) - 1 ELSE Len(x.locals)
  PROVE  Slotted(cs2)
<1> DEFINE x == cs[Len(cs)]
<1>1. Len(cs) \in Nat \ {0}
  BY ShapedTypes
<1>2. /\ Len(cs2) = Len(cs) + 1 /\ Len(cs2[Len(cs) + 1].locals) = 1
      /\ cs2[Len(cs) + 1].locals[1].depth = 0 /\ cs2[Len(cs) + 1].locals[1].slot = 1
      /\ cs2[Len(cs) + 1].height = 1 /\ cs2[Len(cs) + 1].defines = b
      /\ \A c \in 1 .. Len(cs) : cs2[c] = cs[c]
  BY NewCompilerShape DEF Within, Rooted
<1>3. /\ \A i \in 1 .. Len(x.locals) : x.locals[i].depth >= 0 => x.locals[i].slot = i
      /\ x.height = IF b \/ x.locals[Len(x.locals)].depth = -1
                      THEN Len(x.locals) - 1 ELSE Len(x.locals)
  OBVIOUS
<1>4. ASSUME NEW c \in 1 .. Len(cs2)
      PROVE  /\ \A i \in 1 .. Len(cs2[c].locals) :
                  cs2[c].locals[i].depth >= 0 => cs2[c].locals[i].slot = i
             /\ cs2[c].height = IF Awaited(cs2, c) THEN Len(cs2[c].locals) - 1 ELSE Len(cs2[c].locals)
  <2>1. CASE c = Len(cs) + 1
    <3>1. /\ Len(cs2[c].locals) = 1 /\ cs2[c].locals[1].depth = 0
          /\ cs2[c].locals[1].slot = 1 /\ cs2[c].height = 1 /\ ~ c < Len(cs2)
      BY <1>1, <1>2, <2>1
    <3>2. ~ Awaited(cs2, c)
      BY <3>1 DEF Awaited
    <3>3. \A i \in 1 .. Len(cs2[c].locals) : i = 1
      BY <3>1
    <3> QED
      BY <3>1, <3>2, <3>3
  <2>2. CASE c = Len(cs)
    <3>1. cs2[c] = x
      BY <1>1, <1>2, <2>2
    <3>2. Awaited(cs2, c) <=> (b \/ x.locals[Len(x.locals)].depth = -1)
      BY <1>1, <1>2, <2>2, <3>1 DEF Awaited
    <3> HIDE DEF x
    <3> QED
      BY <1>3, <3>1, <3>2
  <2>3. CASE c \in 1 .. Len(cs) - 1
    <3>1. c \in 1 .. Len(cs) /\ c + 1 \in 1 .. Len(cs)
      BY <1>1, <2>3
    <3>2. cs2[c] = cs[c] /\ cs2[c + 1] = cs[c + 1]
      BY <1>2, <3>1
    <3>3. Awaited(cs2, c) <=> Awaited(cs, c)
      BY <1>1, <1>2, <3>1, <3>2 DEF Awaited
    <3> QED
      BY <2>3, <3>2, <3>3 DEF SlottedBelow
  <2> QED
    BY <1>1, <1>2, <2>1, <2>2, <2>3
<1> QED
  BY <1>4 DEF Slotted

-----------------------------------------------------------------------------
(* A function is ended *)

\* cs2 is cs without its last compiler.
Outside(cs, cs2) ==
  /\ cs2 \in Seq(CompilerTypes) /\ Len(cs) = Len(cs2) + 1 /\ Len(cs2) > 0
  /\ \A c \in 1 .. Len(cs2) : cs2[c] = cs[c]

LEMMA PopKeeps ==
  ASSUME NEW cs, NEW cs2, NEW n \in Nat, NEW vs, Shaped(cs), Outside(cs, cs2),
         Ordered(cs, n), Initialized(cs), Leading(cs), Marked(cs, vs)
  PROVE  /\ Shaped(cs2) /\ Ordered(cs2, n) /\ Initialized(cs2) /\ Leading(cs2) /\ Marked(cs2, vs)
         /\ Slotted(cs) => SlottedBelow(cs2)
<1>1. Len(cs) \in Nat /\ Len(cs) <= MaxFunctions
  BY ShapedTypes
<1>2. /\ cs2 \in Seq(CompilerTypes) /\ Len(cs) = Len(cs2) + 1 /\ Len(cs2) > 0
      /\ \A c \in 1 .. Len(cs2) : cs2[c] = cs[c]
  BY DEF Outside
<1>3. Len(cs2) \in Nat \ {0}
  BY <1>2, LenProperties
<1>4. /\ \A c \in 1 .. Len(cs2) : c \in 1 .. Len(cs)
      /\ \A c \in 2 .. Len(cs2) : c \in 2 .. Len(cs) /\ c \in 1 .. Len(cs2) /\ c - 1 \in 1 .. Len(cs2)
      /\ \A c \in 1 .. Len(cs2) - 1 : c \in 1 .. Len(cs2) /\ c + 1 \in 1 .. Len(cs2)
      /\ \A c \in 1 .. Len(cs2) : c < Len(cs2) => c + 1 \in 1 .. Len(cs2) /\ c < Len(cs)
      /\ 1 \in 1 .. Len(cs2)
  BY <1>2, <1>3
<1>5. Shaped(cs2)
  <2>1. Len(cs2) \in 1 .. MaxFunctions
    BY <1>1, <1>2, <1>3, ScopesAssumption
  <2> QED
    BY <1>2, <1>4, <2>1 DEF Shaped
<1>6. Ordered(cs2, n)
  BY <1>2, <1>4 DEF Ordered
<1>7. Initialized(cs2)
  BY <1>2, <1>4 DEF Initialized
<1>8. ASSUME NEW c \in 2 .. Len(cs2), NEW k \in 1 .. Len(cs2[c].upvalues)
      PROVE  LeadsOn(cs2, c, cs2[c].upvalues[k])
  <2>1. c \in 2 .. Len(cs) /\ cs2[c] = cs[c] /\ cs2[c - 1] = cs[c - 1]
    BY <1>2, <1>4
  <2>2. LeadsOn(cs, c, cs[c].upvalues[k])
    BY <2>1 DEF Leading
  <2> QED
    BY <2>1, <2>2 DEF LeadsOn
<1>9. Marked(cs2, vs)
  BY <1>2, <1>4 DEF Marked
<1>10. ASSUME Slotted(cs)
       PROVE  SlottedBelow(cs2)
  <2>1. ASSUME NEW c \in 1 .. Len(cs2) - 1
        PROVE  c \in 1 .. Len(cs) /\ cs2[c] = cs[c] /\ (Awaited(cs2, c) <=> Awaited(cs, c))
    <3>1. c \in 1 .. Len(cs2) /\ c + 1 \in 1 .. Len(cs2) /\ c < Len(cs2) /\ c < Len(cs)
      BY <1>2, <1>3, <1>4
    <3> QED
      BY <1>2, <1>4, <3>1 DEF Awaited
  <2> QED
    BY <1>10, <2>1 DEF Slotted, SlottedBelow
<1>11. Leading(cs2)
  BY <1>8 DEF Leading
<1> QED
  BY <1>5, <1>6, <1>7, <1>9, <1>10, <1>11

-----------------------------------------------------------------------------
(* Each way the current compiler changes *)

LEMMA EditKeeps ==
  ASSUME NEW cs, NEW cs2, NEW x, NEW n \in Nat, NEW m, NEW vs \in SUBSET (1 .. n), Kept(cs, n, vs),
         Edited(cs[Len(cs)], x, n, m), WithTop(cs, cs2, x),
         Filled(x)
  PROVE  /\ Kept(cs2, m, vs)
         /\ Slotted(cs) => SlottedBelow(cs2)
         /\ Slotted(cs) /\ AtTop(x) => Slotted(cs2)
<1>1. Shaped(cs) /\ Ordered(cs, n) /\ Initialized(cs) /\ Leading(cs) /\ Marked(cs, vs)
  BY DEF Kept
<1>2. Shaped(cs2)
  BY <1>1, EditShaped
<1>3. Ordered(cs2, m)
  BY <1>1, EditOrdered
<1>4. Initialized(cs2)
  BY <1>1, EditInitialized
<1>5. Leading(cs2)
  BY <1>1, EditLeading
<1>6. Marked(cs2, vs)
  BY <1>1, EditMarked
<1>7. Slotted(cs) => SlottedBelow(cs2) /\ (AtTop(x) => Slotted(cs2))
  BY <1>1, EditSlotted
<1> QED
  BY <1>2, <1>3, <1>4, <1>5, <1>6, <1>7 DEF Kept

LEMMA TopSet ==
  ASSUME NEW cs, NEW cs2, NEW x \in CompilerTypes, Shaped(cs), cs2 = [cs EXCEPT ![Len(cs)] = x]
  PROVE  WithTop(cs, cs2, x)
<1>1. cs \in Seq(CompilerTypes) /\ Len(cs) \in Nat \ {0}
  BY ShapedTypes DEF Shaped
<1>2. cs2 = Replaced(cs, x)
  BY DEF Replaced
<1>3. /\ cs2 \in Seq(CompilerTypes) /\ Len(cs2) = Len(cs)
      /\ \A i \in 1 .. Len(cs) : cs2[i] = IF i = Len(cs) THEN x ELSE cs[i]
  BY <1>1, <1>2, Replacing
<1> QED
  BY <1>1, <1>3 DEF WithTop

\* The current compiler between statements.
Ready(x) ==
  /\ x \in CompilerTypes /\ Len(x.locals) \in 1 .. MaxLocals /\ Rooted(x)
  /\ Filled(x)

LEMMA KeptReady ==
  ASSUME NEW cs, NEW n, NEW vs, Kept(cs, n, vs)
  PROVE  /\ Ready(cs[Len(cs)]) /\ Len(cs) \in 1 .. Len(cs)
         /\ Slotted(cs) => AtTop(cs[Len(cs)])
<1>1. Shaped(cs) /\ Initialized(cs) /\ Len(cs) \in 1 .. Len(cs)
  BY ShapedTypes DEF Kept
<1>2. cs[Len(cs)] \in CompilerTypes
  BY <1>1, ShapedTypes
<1>3. Slotted(cs) => AtTop(cs[Len(cs)])
  BY <1>1, SlottedAtTop
<1> QED
  BY <1>1, <1>2, <1>3 DEF Shaped, Initialized, Ready, Rooted

\* A local is added: where its value is, unless it waits for its initializer.
WithLocal(x, l, h) == [x EXCEPT !.locals = Append(@, l), !.height = h]

HasLocal(x, y, l, h, n) ==
  /\ Edited(x, y, n, n + 1)
  /\ Filled(y)
  /\ Len(y.locals) = Len(x.locals) + 1 /\ y.locals[Len(x.locals) + 1] = l
  /\ \A i \in 1 .. Len(x.locals) : y.locals[i] = x.locals[i]
  /\ y.height = h

LEMMA LocalAdded ==
  ASSUME NEW x, Ready(x), Len(x.locals) < MaxLocals, x.locals[Len(x.locals)].depth >= 0,
         NEW n \in Nat, NEW l \in LocalTypes, l.var = n + 1, NEW h \in Int,
         x.inParameters => l.depth >= 0
  PROVE  HasLocal(x, WithLocal(x, l, h), l, h, n)
<1> DEFINE y == WithLocal(x, l, h)
<1>1. x \in CompilerTypes /\ Len(x.locals) \in 1 .. MaxLocals /\ Rooted(x)
  BY DEF Ready
<1>2. x.locals \in Seq(LocalTypes) /\ Len(x.locals) \in Nat \ {0}
  BY <1>1, CompilerType
<1>3. /\ y.locals = Append(x.locals, l) /\ y.height = h /\ y.upvalues = x.upvalues
      /\ y.defines = x.defines /\ y.inParameters = x.inParameters
  BY <1>1 DEF WithLocal, CompilerTypes
<1>4. /\ Append(x.locals, l) \in Seq(LocalTypes) /\ Len(Append(x.locals, l)) = Len(x.locals) + 1
      /\ \A i \in 1 .. Len(x.locals) : Append(x.locals, l)[i] = x.locals[i]
      /\ Append(x.locals, l)[Len(x.locals) + 1] = l
  BY <1>2, Appended
<1>5. y \in CompilerTypes
  BY <1>1, <1>4 DEF WithLocal, CompilerTypes
<1> HIDE DEF y
<1>6. /\ Len(y.locals) = Len(x.locals) + 1 /\ y.locals[Len(x.locals) + 1] = l
      /\ \A i \in 1 .. Len(x.locals) : y.locals[i] = x.locals[i]
  BY <1>3, <1>4
<1>7. Rooted(y)
  <2>1. 1 \in 1 .. Len(x.locals)
    BY <1>2
  <2> QED
    BY <1>1, <1>6, <2>1 DEF Rooted
<1>8. ASSUME NEW i \in 1 .. Len(y.locals)
      PROVE  IF i <= Len(x.locals)
               THEN y.locals[i].var = x.locals[i].var /\ y.locals[i].isCaptured = x.locals[i].isCaptured
               ELSE i = Len(x.locals) + 1 /\ y.locals[i].var = n + 1
  <2>1. CASE i <= Len(x.locals)
    BY <1>2, <1>6, <2>1
  <2>2. CASE i = Len(x.locals) + 1
    BY <1>2, <1>6, <2>2
  <2> QED
    BY <1>2, <1>6, <2>1, <2>2
<1>9. Edited(x, y, n, n + 1)
  <2>1. Len(y.locals) \in 1 .. MaxLocals
    BY <1>2, <1>6, ScopesAssumption
  <2> QED
    BY <1>3, <1>5, <1>7, <1>8, <2>1 DEF Edited
<1>10. ASSUME NEW i \in 1 .. Len(y.locals) - 1
       PROVE  y.locals[i].depth >= 0
  <2>1. i \in 1 .. Len(x.locals) /\ (i = Len(x.locals) \/ i \in 1 .. Len(x.locals) - 1)
    BY <1>2, <1>6
  <2> QED
    BY <1>6, <2>1 DEF Ready, Filled
<1>11. Edited(x, y, n, n + 1) /\ Len(y.locals) = Len(x.locals) + 1 /\ y.height = h
  BY <1>3, <1>6, <1>9
<1>12. y.inParameters => y.locals[Len(y.locals)].depth >= 0
  BY <1>3, <1>6
<1>13. Filled(y)
  BY <1>10, <1>12 DEF Filled
<1> QED
  BY <1>6, <1>11, <1>13 DEF y, HasLocal

\* Only the scope, the height and the parameters' flag change.
LEMMA Unchanged ==
  ASSUME NEW x, Ready(x), NEW y \in CompilerTypes, NEW n \in Nat,
         y.locals = x.locals, y.upvalues = x.upvalues, y.defines = x.defines,
         y.inParameters => x.inParameters
  PROVE  Edited(x, y, n, n) /\ Ready(y)
BY CompilerType DEF Edited, Ready, Rooted, Filled

\* The last local is defined: its value is the next on the stack.
Defined(x) ==
  [x EXCEPT !.locals[Len(x.locals)] = [@ EXCEPT !.depth = x.scope, !.slot = x.height + 1],
            !.height = @ + 1]

Waiting(x) == x.locals[Len(x.locals)].depth = -1

GivenValue(l, d, s) == [l EXCEPT !.depth = d, !.slot = s]

LEMMA LocalGivenValue ==
  ASSUME NEW l \in LocalTypes, NEW d \in 0 .. MaxScopes, NEW s \in Int
  PROVE  /\ GivenValue(l, d, s) \in LocalTypes
         /\ GivenValue(l, d, s).depth = d /\ GivenValue(l, d, s).slot = s
         /\ GivenValue(l, d, s).var = l.var /\ GivenValue(l, d, s).isCaptured = l.isCaptured
<1>1. d \in -1 .. MaxScopes
  BY ScopesAssumption
<1> HIDE ScopesAssumption
<1> QED
  BY <1>1 DEF LocalTypes, GivenValue

LEMMA LocalDefined ==
  ASSUME NEW x, Ready(x), Waiting(x), NEW n \in Nat
  PROVE  /\ Edited(x, Defined(x), n, n)
         /\ Filled(Defined(x))
         /\ AtTop(x) => AtTop(Defined(x))
<1> DEFINE y == Defined(x)
           last_ == GivenValue(x.locals[Len(x.locals)], x.scope, x.height + 1)
<1>1. x \in CompilerTypes /\ Len(x.locals) \in 1 .. MaxLocals /\ Rooted(x)
  BY DEF Ready
<1>2. /\ x.locals \in Seq(LocalTypes) /\ Len(x.locals) \in Nat \ {0}
      /\ x.locals[Len(x.locals)] \in LocalTypes
      /\ x.scope \in 0 .. MaxScopes /\ x.height \in Int
  BY <1>1, CompilerType
<1>3. /\ last_ \in LocalTypes /\ last_.depth = x.scope /\ last_.slot = x.height + 1
      /\ last_.var = x.locals[Len(x.locals)].var
      /\ last_.isCaptured = x.locals[Len(x.locals)].isCaptured
  <2> DEFINE l_ == x.locals[Len(x.locals)]
             s_ == x.height + 1
             d_ == x.scope
  <2>1. l_ \in LocalTypes /\ s_ \in Int /\ d_ \in 0 .. MaxScopes
    BY <1>2
  <2>2. last_ = GivenValue(l_, d_, s_)
    OBVIOUS
  <2> HIDE DEF l_, s_, d_, last_
  <2>3. /\ GivenValue(l_, d_, s_) \in LocalTypes
        /\ GivenValue(l_, d_, s_).depth = d_ /\ GivenValue(l_, d_, s_).slot = s_
        /\ GivenValue(l_, d_, s_).var = l_.var /\ GivenValue(l_, d_, s_).isCaptured = l_.isCaptured
    BY <2>1, LocalGivenValue
  <2>4. /\ last_ \in LocalTypes /\ last_.depth = d_ /\ last_.slot = s_
        /\ last_.var = l_.var /\ last_.isCaptured = l_.isCaptured
    BY <2>2, <2>3
  <2> QED
    BY <2>4 DEF l_, s_, d_
<1>4. /\ y.locals = Replaced(x.locals, last_) /\ y.height = x.height + 1
      /\ y.upvalues = x.upvalues /\ y.defines = x.defines
  BY <1>1 DEF Defined, Replaced, GivenValue, CompilerTypes
<1>5. /\ Replaced(x.locals, last_) \in Seq(LocalTypes)
      /\ Len(Replaced(x.locals, last_)) = Len(x.locals)
      /\ \A i \in 1 .. Len(x.locals) :
           Replaced(x.locals, last_)[i] = IF i = Len(x.locals) THEN last_ ELSE x.locals[i]
  <2> DEFINE s_ == x.locals
  <2>1. s_ \in Seq(LocalTypes) /\ last_ \in LocalTypes /\ Len(s_) > 0
    BY <1>2, <1>3
  <2> HIDE DEF last_, s_
  <2>2. /\ Replaced(s_, last_) \in Seq(LocalTypes) /\ Len(Replaced(s_, last_)) = Len(s_)
        /\ \A i \in 1 .. Len(s_) :
             Replaced(s_, last_)[i] = IF i = Len(s_) THEN last_ ELSE s_[i]
    BY <2>1, Replacing
  <2> QED
    BY <2>2 DEF s_
<1>6. y \in CompilerTypes
  <2>1. y = [x EXCEPT !.locals = Replaced(x.locals, last_), !.height = x.height + 1]
    BY <1>1 DEF Defined, Replaced, GivenValue, CompilerTypes
  <2>2. x.height + 1 \in Int
    BY <1>2
  <2> HIDE DEF last_, y
  <2> QED
    BY <1>1, <1>5, <2>1, <2>2 DEF CompilerTypes
<1> HIDE DEF y, last_
<1>7. /\ Len(y.locals) = Len(x.locals) /\ y.locals[Len(x.locals)] = last_
      /\ \A i \in 1 .. Len(x.locals) - 1 : y.locals[i] = x.locals[i]
  BY <1>2, <1>4, <1>5
<1>8. Len(x.locals) > 1
  <2> DEFINE n_ == Len(x.locals)
  <2>1. n_ \in Nat \ {0}
    BY <1>2
  <2>2. x.locals[n_].depth # x.locals[1].depth
    BY <1>1 DEF Rooted, Waiting
  <2> HIDE DEF n_
  <2>3. n_ > 1
    BY <2>1, <2>2
  <2> QED
    BY <2>3 DEF n_
<1>9. Rooted(y)
  <2>1. 1 \in 1 .. Len(x.locals) - 1
    <3>1. Len(x.locals) \in Nat /\ Len(x.locals) > 1
      BY <1>2, <1>8
    <3> QED
      BY <3>1
  <2> QED
    BY <1>1, <1>7, <2>1 DEF Rooted
<1>10. ASSUME NEW i \in 1 .. Len(y.locals)
       PROVE  /\ i <= Len(x.locals)
              /\ y.locals[i].var = x.locals[i].var /\ y.locals[i].isCaptured = x.locals[i].isCaptured
  <2>1. i = Len(x.locals) \/ i \in 1 .. Len(x.locals) - 1
    BY <1>2, <1>7
  <2> QED
    BY <1>2, <1>3, <1>7, <2>1
<1>11. Edited(x, y, n, n)
  BY <1>1, <1>4, <1>6, <1>7, <1>9, <1>10 DEF Edited
<1>12. Filled(y)
  <2>1. \A i \in 1 .. Len(y.locals) - 1 : y.locals[i].depth >= 0
    BY <1>7 DEF Ready, Filled
  <2>2. y.locals[Len(y.locals)].depth >= 0
    BY <1>2, <1>3, <1>7, ScopesAssumption
  <2> QED
    BY <2>1, <2>2 DEF Filled
<1>13. ASSUME AtTop(x)
       PROVE  AtTop(y)
  <2>1. x.height = Len(x.locals) - 1
    BY <1>13 DEF AtTop, Waiting
  <2>2. last_.depth >= 0 /\ last_.slot = Len(x.locals) /\ y.height = Len(x.locals)
    BY <1>2, <1>3, <1>4, <2>1, ScopesAssumption
  <2>3. ASSUME NEW i \in 1 .. Len(y.locals), y.locals[i].depth >= 0
        PROVE  y.locals[i].slot = i
    <3>1. i = Len(x.locals) \/ i \in 1 .. Len(x.locals) - 1
      BY <1>2, <1>7
    <3>2. CASE i = Len(x.locals)
      BY <1>7, <2>2, <3>2
    <3>3. CASE i \in 1 .. Len(x.locals) - 1
      <4>1. y.locals[i] = x.locals[i] /\ i \in 1 .. Len(x.locals)
        BY <1>2, <1>7, <3>3
      <4> QED
        BY <1>13, <2>3, <4>1 DEF AtTop
    <3> QED
      BY <3>1, <3>2, <3>3
  <2>4. y.locals[Len(y.locals)].depth # -1 /\ y.height = Len(y.locals)
    BY <1>7, <2>2
  <2> QED
    BY <2>3, <2>4 DEF AtTop
<1> QED
  BY <1>11, <1>12, <1>13 DEF y

\* end_scope's loop stops, at the latest at the first local.
LEMMA LoopStops ==
  ASSUME NEW x, Ready(x), x.scope > 0
  PROVE  /\ Left(x) \in 1 .. Len(x.locals)
         /\ x.locals[Left(x)].depth < x.scope
         /\ \A i \in Left(x) + 1 .. Len(x.locals) : x.locals[i].depth >= x.scope
<1> DEFINE S == {n \in 1 .. Len(x.locals) : x.locals[n].depth < x.scope}
           Stop(n) == /\ n > 0 => x.locals[n].depth < x.scope
                      /\ \A i \in n + 1 .. Len(x.locals) : x.locals[i].depth >= x.scope
<1>1. /\ Len(x.locals) \in Nat \ {0} /\ x.scope \in Nat
      /\ \A i \in 1 .. Len(x.locals) : x.locals[i] \in LocalTypes
      /\ x.locals[1].depth = 0
  BY CompilerType, ScopesAssumption DEF Ready, Rooted
<1>2. 1 \in S
  BY <1>1
<1>3. PICK n \in S : \A m \in S : m <= n
  <2>1. S \in SUBSET (0 .. Len(x.locals)) /\ S # {}
    BY <1>1, <1>2
  <2> HIDE DEF S
  <2> QED
    BY <1>1, <2>1, GreatestNumber
<1>4. ASSUME NEW i \in n + 1 .. Len(x.locals)
      PROVE  x.locals[i].depth >= x.scope
  <2>1. i \in 1 .. Len(x.locals) /\ i > n
    BY <1>1
  <2>2. ~ x.locals[i].depth < x.scope
    BY <1>3, <2>1
  <2>3. x.locals[i].depth \in Int
    BY <1>1, <2>1, LocalFields
  <2> QED
    BY <1>1, <2>2, <2>3
<1>5. n \in 0 .. Len(x.locals) /\ Stop(n)
  BY <1>1, <1>4
<1>6. Left(x) \in 0 .. Len(x.locals) /\ Stop(Left(x))
  <2>1. Left(x) = CHOOSE k \in 0 .. Len(x.locals) : Stop(k)
    BY DEF Left
  <2> HIDE DEF Stop
  <2> QED
    BY <1>5, <2>1
<1>7. Left(x) # 0
  <2>1. ASSUME Left(x) = 0
        PROVE  FALSE
    <3>1. 1 \in Left(x) + 1 .. Len(x.locals)
      BY <1>1, <2>1
    <3> QED
      BY <1>1, <1>6, <3>1
  <2> QED
    BY <2>1
<1> QED
  BY <1>1, <1>6, <1>7

\* The scope's locals are gone, and their values from the stack.
Closed(x) ==
  [x EXCEPT !.locals = Staying(x), !.scope = @ - 1,
            !.height = @ - (Len(x.locals) - Len(Staying(x)))]

LEMMA ScopeClosed ==
  ASSUME NEW x, Ready(x), x.scope > 0, x.locals[Len(x.locals)].depth # -1, NEW n \in Nat
  PROVE  /\ Edited(x, Closed(x), n, n)
         /\ Filled(Closed(x))
         /\ AtTop(x) => AtTop(Closed(x))
<1> DEFINE y == Closed(x)
<1>1. x \in CompilerTypes /\ Len(x.locals) \in 1 .. MaxLocals /\ Rooted(x)
  BY DEF Ready
<1>2. /\ x.locals \in Seq(LocalTypes) /\ Len(x.locals) \in Nat \ {0}
      /\ \A i \in 1 .. Len(x.locals) : x.locals[i] \in LocalTypes
      /\ x.scope \in 1 .. MaxScopes /\ x.height \in Int
  BY <1>1, CompilerType, ScopesAssumption
<1>3. Left(x) \in 1 .. Len(x.locals)
  BY LoopStops
<1>4. /\ Staying(x) \in Seq(LocalTypes) /\ Len(Staying(x)) = Left(x)
      /\ \A i \in 1 .. Left(x) : Staying(x)[i] = x.locals[i]
  <2>1. Left(x) \in 0 .. Len(x.locals)
    BY <1>2, <1>3
  <2> QED
    BY <1>2, <2>1, Prefix DEF Staying
<1>5. /\ y.locals = Staying(x) /\ y.height = x.height - (Len(x.locals) - Left(x))
      /\ y.upvalues = x.upvalues /\ y.defines = x.defines
  BY <1>1, <1>4 DEF Closed, CompilerTypes
<1>6. y \in CompilerTypes
  <2>1. x.scope - 1 \in 0 .. MaxScopes /\ x.height - (Len(x.locals) - Left(x)) \in Int
    BY <1>2, <1>3, ScopesAssumption
  <2> QED
    BY <1>1, <1>4, <2>1 DEF Closed, CompilerTypes
<1> HIDE DEF y
<1>7. Len(y.locals) = Left(x) /\ \A i \in 1 .. Left(x) : y.locals[i] = x.locals[i]
  BY <1>4, <1>5
<1>8. Rooted(y) /\ Len(y.locals) \in 1 .. MaxLocals
  <2>1. 1 \in 1 .. Left(x) /\ Left(x) \in 1 .. MaxLocals
    BY <1>1, <1>2, <1>3, ScopesAssumption
  <2> QED
    BY <1>1, <1>7, <2>1 DEF Rooted
<1>9. Edited(x, y, n, n)
  <2>1. ASSUME NEW i \in 1 .. Len(y.locals)
        PROVE  /\ i <= Len(x.locals)
               /\ y.locals[i].var = x.locals[i].var /\ y.locals[i].isCaptured = x.locals[i].isCaptured
    BY <1>2, <1>3, <1>7
  <2> QED
    BY <1>5, <1>6, <1>8, <2>1 DEF Edited
<1>10. ASSUME NEW i \in 1 .. Len(y.locals)
       PROVE  i \in 1 .. Len(x.locals) /\ y.locals[i] = x.locals[i] /\ y.locals[i].depth >= 0
  <2>1. i \in 1 .. Len(x.locals) /\ y.locals[i] = x.locals[i]
    BY <1>2, <1>3, <1>7
  <2>2. i = Len(x.locals) \/ i \in 1 .. Len(x.locals) - 1
    BY <1>2, <2>1
  <2>3. x.locals[i].depth \in Int /\ x.locals[i].depth >= -1
    BY <1>2, <2>1, LocalFields
  <2>4. x.locals[i].depth >= 0
    BY <2>2, <2>3 DEF Ready, Filled
  <2> QED
    BY <2>1, <2>4
<1>11. ASSUME AtTop(x)
       PROVE  AtTop(y)
  <2>1. \A i \in 1 .. Len(y.locals) : y.locals[i].slot = i
    BY <1>10, <1>11 DEF AtTop
  <2>2. y.height = Len(y.locals)
    <3>1. x.height = Len(x.locals)
      BY <1>11 DEF AtTop
    <3> QED
      BY <1>2, <1>3, <1>5, <1>7, <3>1
  <2>3. y.locals[Len(y.locals)].depth # -1
    <3>1. Len(y.locals) \in 1 .. Len(y.locals)
      BY <1>3, <1>7
    <3>2. y.locals[Len(y.locals)].depth >= 0
      BY <1>10, <3>1
    <3> QED
      BY <3>2
  <2> QED
    BY <2>1, <2>2, <2>3 DEF AtTop
<1>12. Filled(y)
  BY <1>3, <1>7, <1>10 DEF Filled
<1> QED
  BY <1>9, <1>11, <1>12 DEF y

-----------------------------------------------------------------------------
(* Every step keeps the invariant *)

LEMMA NothingNamed ==
  ASSUME last' = NoReference
  PROVE  LexicalScope'
BY Zenon DEF LexicalScope

LEMMA InvReady ==
  ASSUME IndInv
  PROVE  /\ Shaped(compilers) /\ Kept(compilers, declared, captured)
         /\ current = compilers[Len(compilers)] /\ Ready(current)
         /\ Len(compilers) \in Nat \ {0} /\ Len(compilers) <= MaxFunctions
         /\ declared \in Nat /\ declared <= MaxDeclarations /\ captured \in SUBSET (1 .. declared)
         /\ ~ unpopped /\ ~ failed => AtTop(current) /\ Slotted(compilers)
<1>1. Kept(compilers, declared, captured) /\ (~ unpopped /\ ~ failed => Slotted(compilers))
  BY DEF IndInv
<1>2. Shaped(compilers)
  BY <1>1 DEF Kept
<1>3. Ready(compilers[Len(compilers)]) /\ (Slotted(compilers) => AtTop(compilers[Len(compilers)]))
  BY <1>1, KeptReady
<1>4. Len(compilers) \in Nat \ {0} /\ Len(compilers) <= MaxFunctions
  BY <1>2, ShapedTypes
<1>5. declared \in Nat /\ declared <= MaxDeclarations /\ captured \in SUBSET (1 .. declared)
  BY ScopesAssumption DEF IndInv, Flags
<1> QED
  BY <1>1, <1>2, <1>3, <1>4, <1>5 DEF current, Depth

\* Nothing but the current compiler, the number of declarations and the flags change.
LEMMA EditStep ==
  ASSUME IndInv, NEW x, NEW m, m <= MaxDeclarations, Edited(current, x, declared, m),
         Filled(x),
         SetCurrent(x), declared' = m, captured' = captured, last' = NoReference,
         failed' \in BOOLEAN, unpopped' \in BOOLEAN,
         ~ unpopped' /\ ~ failed' => ~ unpopped /\ ~ failed /\ (AtTop(current) => AtTop(x))
  PROVE  IndInv'
<1>1. /\ Shaped(compilers) /\ Kept(compilers, declared, captured) /\ current = compilers[Len(compilers)]
      /\ declared \in Nat /\ captured \in SUBSET (1 .. declared)
      /\ ~ unpopped /\ ~ failed => AtTop(current) /\ Slotted(compilers)
  BY InvReady
<1>2. x \in CompilerTypes /\ m \in {declared, declared + 1}
  BY DEF Edited
<1>3. WithTop(compilers, compilers', x)
  BY <1>1, <1>2, TopSet DEF SetCurrent, Depth
<1>4. /\ Kept(compilers', m, captured)
      /\ Slotted(compilers) /\ AtTop(x) => Slotted(compilers')
  BY <1>1, <1>3, EditKeeps
<1>5. Kept(compilers', declared', captured')
  BY <1>4
<1>6. Flags'
  <2>1. m \in 0 .. MaxDeclarations /\ captured \subseteq 1 .. m
    BY <1>1, <1>2, ScopesAssumption
  <2> QED
    BY <2>1 DEF Flags
<1>7. ~ unpopped' /\ ~ failed' => Slotted(compilers')
  BY <1>1, <1>4
<1> QED
  BY <1>5, <1>6, <1>7, NothingNamed DEF IndInv

LEMMA ErrorStep ==
  ASSUME IndInv, Error, last' = NoReference
  PROVE  IndInv'
<1>1. /\ compilers' = compilers /\ declared' = declared /\ captured' = captured
      /\ unpopped' = unpopped /\ failed' = TRUE
  BY DEF Error
<1>2. Flags' /\ Kept(compilers', declared', captured')
  BY <1>1 DEF IndInv, Flags
<1> QED
  BY <1>1, <1>2, NothingNamed DEF IndInv

\* The newest local has been initialized.
LEMMA Settled ==
  ASSUME IndInv, ~ Initializing
  PROVE  /\ current.locals[Len(current.locals)].depth >= 0 /\ ~ Waiting(current)
         /\ current.locals[Len(current.locals)].depth # -1
<1>1. Ready(current) /\ current.locals[Len(current.locals)].depth # -1
  BY InvReady DEF Initializing, LastLocal
<1>2. Len(current.locals) \in 1 .. Len(current.locals)
  BY <1>1, CompilerType DEF Ready
<1>3. current.locals[Len(current.locals)] \in LocalTypes
  BY <1>1, <1>2, CompilerType DEF Ready
<1>4. /\ current.locals[Len(current.locals)].depth \in Int
      /\ current.locals[Len(current.locals)].depth >= -1
  BY <1>3, LocalFields
<1> QED
  BY <1>1, <1>4 DEF Waiting

LEMMA DeclareStep ==
  ASSUME IndInv, NEW name \in Names, NEW depth \in -1 .. MaxScopes, NEW slot \in Int,
         ~ Refused(name), ~ Initializing, Declare(name, depth, slot), last' = NoReference,
         current.inParameters => depth >= 0,
         failed' = failed, captured' = captured, unpopped' = unpopped,
         (depth = -1 /\ slot = 0) \/ (depth >= 0 /\ slot = current.height + 1 /\ slot > 0)
         \/ (depth >= 0 /\ slot = current.height + 1 /\ (failed \/ unpopped))
  PROVE  IndInv'
<1> DEFINE l == Local(name, depth, declared + 1, slot)
           h == IF slot > 0 THEN slot ELSE current.height
           x == WithLocal(current, l, h)
<1>1. /\ Ready(current) /\ declared \in Nat
      /\ ~ unpopped /\ ~ failed => AtTop(current)
  BY InvReady
<1>2. /\ declared < MaxDeclarations /\ declared' = declared + 1
      /\ SetCurrent(x)
  BY DEF Declare, WithLocal
<1>3. l \in LocalTypes /\ l.var = declared + 1 /\ l.depth = depth /\ l.slot = slot
  <2>1. declared + 1 \in 0 .. MaxDeclarations
    BY <1>1, <1>2, ScopesAssumption
  <2> QED
    BY <2>1 DEF Local, LocalTypes
<1>4. /\ Len(current.locals) < MaxLocals /\ Len(current.locals) \in Nat \ {0} /\ current.height \in Int
      /\ current.locals[Len(current.locals)].depth >= 0
      /\ current.locals[Len(current.locals)].depth # -1
  <2>1. /\ Len(current.locals) \in 1 .. MaxLocals /\ current.height \in Int
        /\ Len(current.locals) \in Nat
    BY <1>1, CompilerType DEF Ready
  <2>2. ~ Len(current.locals) >= MaxLocals
    BY DEF Refused
  <2> QED
    BY <2>1, <2>2, Settled, ScopesAssumption
<1>5. h \in Int
  BY <1>4
<1> HIDE DEF x, l, h
<1>6. /\ Edited(current, x, declared, declared + 1)
      /\ Filled(x)
      /\ Len(x.locals) = Len(current.locals) + 1
      /\ x.locals[Len(current.locals) + 1] = l
      /\ \A i \in 1 .. Len(current.locals) : x.locals[i] = current.locals[i]
      /\ x.height = h
  <2> DEFINE c_ == current
             n_ == declared
  <2>1. /\ Ready(c_) /\ Len(c_.locals) < MaxLocals /\ c_.locals[Len(c_.locals)].depth >= 0
        /\ n_ \in Nat /\ l \in LocalTypes /\ l.var = n_ + 1 /\ h \in Int
        /\ c_.inParameters => l.depth >= 0
    BY <1>1, <1>3, <1>4, <1>5
  <2>2. x = WithLocal(c_, l, h)
    BY DEF x
  <2> HIDE DEF c_, n_
  <2>3. HasLocal(c_, WithLocal(c_, l, h), l, h, n_)
    BY <2>1, LocalAdded
  <2> QED
    BY <2>2, <2>3 DEF c_, n_, HasLocal
<1>7. ASSUME AtTop(current), ~ unpopped, ~ failed
      PROVE  AtTop(x)
  <2>1. /\ current.height = Len(current.locals)
        /\ \A i \in 1 .. Len(current.locals) :
             current.locals[i].depth >= 0 => current.locals[i].slot = i
    BY <1>4, <1>7 DEF AtTop
  <2>2. \/ depth = -1 /\ slot = 0 /\ h = Len(current.locals)
        \/ depth >= 0 /\ slot = Len(current.locals) + 1 /\ h = Len(current.locals) + 1
    BY <1>4, <1>7, <2>1 DEF h
  <2>3. ASSUME NEW i \in 1 .. Len(x.locals), x.locals[i].depth >= 0
        PROVE  x.locals[i].slot = i
    <3>1. CASE i = Len(current.locals) + 1
      BY <1>3, <1>6, <2>2, <2>3, <3>1
    <3>2. CASE i # Len(current.locals) + 1
      <4>1. i \in 1 .. Len(current.locals)
        BY <1>4, <1>6, <3>2
      <4> QED
        BY <1>6, <2>1, <2>3, <4>1
    <3> QED
      BY <3>1, <3>2
  <2>4. x.locals[Len(x.locals)].depth = depth
    BY <1>3, <1>6
  <2>5. x.height = IF x.locals[Len(x.locals)].depth = -1 THEN Len(x.locals) - 1 ELSE Len(x.locals)
    BY <1>4, <1>6, <2>2, <2>4
  <2> QED
    BY <2>3, <2>5 DEF AtTop
<1>8. declared + 1 <= MaxDeclarations /\ failed' \in BOOLEAN /\ unpopped' \in BOOLEAN
  BY <1>1, <1>2, ScopesAssumption DEF IndInv, Flags
<1> QED
  BY <1>2, <1>6, <1>7, <1>8, EditStep

\* The scope is one, and it has room in its type.
LEMMA ReadyTypes ==
  ASSUME IndInv
  PROVE  /\ current \in CompilerTypes /\ Ready(current) /\ current.scope \in 0 .. MaxScopes
         /\ current.height \in Int /\ declared \in Nat /\ declared <= MaxDeclarations
         /\ failed \in BOOLEAN /\ unpopped \in BOOLEAN
<1>1. Ready(current) /\ declared \in Nat /\ declared <= MaxDeclarations
  BY InvReady
<1>2. current \in CompilerTypes
  BY <1>1 DEF Ready
<1>3. current.scope \in 0 .. MaxScopes /\ current.height \in Int
  BY <1>2, CompilerType
<1>4. failed \in BOOLEAN /\ unpopped \in BOOLEAN
  BY DEF IndInv, Flags
<1> QED
  BY <1>1, <1>2, <1>3, <1>4

LEMMA LetBegun ==
  ASSUME IndInv, NEW name \in Names, BeginLet(name)
  PROVE  IndInv'
<1>1. CASE Refused(name)
  BY <1>1, ErrorStep DEF BeginLet
<1>2. CASE ~ Refused(name)
  <2>1. /\ Declare(name, -1, 0) /\ ~ Initializing /\ last' = NoReference
        /\ failed' = failed /\ captured' = captured /\ unpopped' = unpopped
    BY <1>2 DEF BeginLet, AtStatement
  <2> DEFINE d_ == -1
             s_ == 0
  <2>2. /\ d_ \in -1 .. MaxScopes /\ s_ \in Int /\ d_ = -1 /\ s_ = 0
        /\ Declare(name, d_, s_)
    BY <2>1, ScopesAssumption
  <2> HIDE DEF d_, s_
  <2> QED
    BY <1>2, <2>1, <2>2, DeclareStep DEF BeginLet, AtStatement
<1> QED
  BY <1>1, <1>2

LEMMA ParameterRead ==
  ASSUME IndInv, NEW name \in Names, Parameter(name)
  PROVE  IndInv'
<1>1. CASE Refused(name)
  BY <1>1, ErrorStep DEF Parameter
<1>2. CASE ~ Refused(name)
  <2> DEFINE d_ == current.scope
             s_ == current.height + 1
  <2>1. /\ Declare(name, d_, s_) /\ last' = NoReference
        /\ failed' = failed /\ captured' = captured /\ unpopped' = unpopped
    BY <1>2 DEF Parameter
  <2>4. ~ Initializing
    BY ReadyTypes DEF Parameter, Ready, Filled, Initializing, LastLocal
  <2>2. d_ \in -1 .. MaxScopes /\ d_ >= 0 /\ s_ \in Int /\ s_ = current.height + 1
    BY ReadyTypes, ScopesAssumption
  <2>3. s_ > 0 \/ failed \/ unpopped
    <3>1. ASSUME ~ failed, ~ unpopped
          PROVE  s_ > 0
      <4>1. /\ current.height = Len(current.locals) - 1 \/ current.height = Len(current.locals)
            /\ Len(current.locals) \in Nat \ {0}
        BY <3>1, InvReady, CompilerType, ScopesAssumption DEF AtTop, Ready
      <4> QED
        BY <4>1
    <3> QED
      BY <3>1
  <2> HIDE DEF d_, s_
  <2> QED
    BY <1>2, <2>1, <2>2, <2>3, <2>4, DeclareStep
<1> QED
  BY <1>1, <1>2

LEMMA LetEnded ==
  ASSUME IndInv, EndLet
  PROVE  IndInv'
<1> DEFINE x == Defined(current)
<1>1. SetCurrent(x) /\ Waiting(current)
  BY DEF EndLet, Defined, Waiting, Initializing, LastLocal
<1>2. /\ last' = NoReference /\ failed' = failed /\ declared' = declared
      /\ captured' = captured /\ unpopped' = unpopped
  BY DEF EndLet
<1>3. /\ Edited(current, x, declared, declared)
      /\ Filled(x)
      /\ AtTop(current) => AtTop(x)
  BY <1>1, ReadyTypes, LocalDefined
<1> HIDE DEF x
<1> QED
  BY <1>1, <1>2, <1>3, ReadyTypes, EditStep

\* The current compiler keeps its locals and upvalues.
LEMMA SameLocals ==
  ASSUME IndInv, NEW x \in CompilerTypes, SetCurrent(x),
         x.locals = current.locals, x.upvalues = current.upvalues, x.defines = current.defines,
         x.inParameters => current.inParameters,
         last' = NoReference, failed' = failed, declared' = declared, captured' = captured,
         unpopped' \in BOOLEAN, ~ unpopped' => ~ unpopped /\ x.height = current.height
  PROVE  IndInv'
<1>1. Edited(current, x, declared, declared) /\ Ready(x)
  BY ReadyTypes, Unchanged
<1>2. Filled(x)
  BY <1>1 DEF Ready
<1>3. ~ unpopped' /\ ~ failed' => ~ unpopped /\ ~ failed /\ (AtTop(current) => AtTop(x))
  BY DEF AtTop
<1> QED
  BY <1>1, <1>2, <1>3, ReadyTypes, EditStep

LEMMA ParametersEnded ==
  ASSUME IndInv, EndParameters
  PROVE  IndInv'
<1> DEFINE x == [current EXCEPT !.inParameters = FALSE]
<1>1. SetCurrent(x)
  BY DEF EndParameters
<1>2. /\ x \in CompilerTypes /\ x.locals = current.locals /\ x.upvalues = current.upvalues
      /\ x.defines = current.defines /\ x.height = current.height
      /\ x.inParameters => current.inParameters
  BY ReadyTypes DEF CompilerTypes
<1> HIDE DEF x
<1> QED
  BY <1>1, <1>2, ReadyTypes, SameLocals DEF EndParameters

LEMMA ScopeBegun ==
  ASSUME IndInv, BeginScope
  PROVE  IndInv'
<1> DEFINE s_ == current.scope + 1
           x == [current EXCEPT !.scope = s_]
<1>1. SetCurrent(x)
  BY DEF BeginScope
<1>2. s_ \in 0 .. MaxScopes
  BY ReadyTypes, ScopesAssumption DEF BeginScope
<1> HIDE DEF s_
<1>3. /\ x \in CompilerTypes /\ x.locals = current.locals /\ x.upvalues = current.upvalues
      /\ x.defines = current.defines /\ x.height = current.height
      /\ x.inParameters => current.inParameters
  BY <1>2, ReadyTypes DEF CompilerTypes
<1> HIDE DEF x
<1> QED
  BY <1>1, <1>3, ReadyTypes, SameLocals DEF BeginScope

LEMMA StatementUnterminated ==
  ASSUME IndInv, Unterminated
  PROVE  IndInv'
<1> DEFINE h_ == current.height + 1
           x == [current EXCEPT !.height = h_]
<1>1. SetCurrent(x)
  BY DEF Unterminated
<1>2. h_ \in Int
  BY ReadyTypes
<1> HIDE DEF h_
<1>3. /\ x \in CompilerTypes /\ x.locals = current.locals /\ x.upvalues = current.upvalues
      /\ x.defines = current.defines
      /\ x.inParameters => current.inParameters
  BY <1>2, ReadyTypes DEF CompilerTypes
<1>4. /\ last' = NoReference /\ failed' = failed /\ declared' = declared /\ captured' = captured
      /\ unpopped' \in BOOLEAN /\ (~ unpopped' => ~ unpopped /\ x.height = current.height)
  BY DEF Unterminated
<1> HIDE DEF x
<1> QED
  BY <1>1, <1>3, <1>4, SameLocals

LEMMA ScopeEnded ==
  ASSUME IndInv, EndScope
  PROVE  IndInv'
<1> DEFINE x == Closed(current)
<1>1. SetCurrent(x)
  BY DEF EndScope, Closed
<1>2. /\ last' = NoReference /\ failed' = failed /\ declared' = declared
      /\ captured' = captured /\ unpopped' = unpopped
      /\ ~ Initializing
  BY DEF EndScope, AtStatement
<1>3. current.scope > 0
  BY ReadyTypes, ScopesAssumption DEF EndScope
<1>4. /\ Edited(current, x, declared, declared)
      /\ Filled(x)
      /\ AtTop(current) => AtTop(x)
  BY <1>2, <1>3, ReadyTypes, Settled, ScopeClosed
<1> HIDE DEF x
<1> QED
  BY <1>1, <1>2, <1>4, ReadyTypes, EditStep

LEMMA PushKeeps ==
  ASSUME NEW cs, NEW cs2, NEW b \in BOOLEAN, NEW n \in Nat, NEW vs \in SUBSET (1 .. n),
         Kept(cs, n, vs), Len(cs) < MaxFunctions, Within(cs, cs2, NewCompiler(1, b)),
         b => cs[Len(cs)].locals[Len(cs[Len(cs)].locals)].depth >= 0
  PROVE  Kept(cs2, n, vs)
<1>1. Shaped(cs) /\ Ordered(cs, n) /\ Initialized(cs) /\ Leading(cs) /\ Marked(cs, vs)
  BY DEF Kept
<1>2. Shaped(cs2)
  BY <1>1, PushShaped
<1>3. Ordered(cs2, n)
  BY <1>1, PushOrdered
<1>4. Initialized(cs2)
  BY <1>1, PushInitialized
<1>5. Leading(cs2)
  BY <1>1, PushLeading
<1>6. Marked(cs2, vs)
  BY <1>1, PushMarked
<1> QED
  BY <1>2, <1>3, <1>4, <1>5, <1>6 DEF Kept

LEMMA Pushed ==
  ASSUME NEW cs, Shaped(cs), NEW y \in CompilerTypes
  PROVE  Within(cs, Append(cs, y), y)
BY Appended DEF Shaped, Within

LEMMA FunctionBegun ==
  ASSUME IndInv, BeginFunction
  PROVE  IndInv'
<1> DEFINE b_ == FALSE
           y == NewCompiler(1, b_)
           n_ == declared
<1>1. /\ Shaped(compilers) /\ Kept(compilers, n_, captured) /\ Len(compilers) < MaxFunctions
      /\ n_ \in Nat /\ captured \in SUBSET (1 .. n_) /\ b_ \in BOOLEAN /\ ~ b_
      /\ current = compilers[Len(compilers)]
      /\ ~ unpopped /\ ~ failed => AtTop(current) /\ Slotted(compilers)
  BY InvReady DEF BeginFunction, Depth
<1>2. /\ compilers' = Append(compilers, y) /\ last' = NoReference /\ failed' = failed
      /\ declared' = n_ /\ captured' = captured /\ unpopped' = unpopped
  BY DEF BeginFunction
<1> HIDE DEF b_, n_
<1>3. y \in CompilerTypes
  BY <1>1, NewCompilerShape
<1>4. Within(compilers, compilers', NewCompiler(1, b_))
  <2> HIDE DEF y
  <2>1. Within(compilers, compilers', y)
    BY <1>1, <1>2, <1>3, Pushed
  <2> QED
    BY <2>1 DEF y
<1>5. Kept(compilers', n_, captured)
  BY <1>1, <1>4, PushKeeps
<1>6. ASSUME ~ unpopped, ~ failed
      PROVE  Slotted(compilers')
  <2>1. SlottedBelow(compilers)
    BY <1>1, <1>6, ShapedTypes DEF Slotted, SlottedBelow
  <2>2. LET x == compilers[Len(compilers)]
        IN  /\ \A i \in 1 .. Len(x.locals) : x.locals[i].depth >= 0 => x.locals[i].slot = i
            /\ x.height = IF b_ \/ x.locals[Len(x.locals)].depth = -1
                            THEN Len(x.locals) - 1 ELSE Len(x.locals)
    BY <1>1, <1>6 DEF AtTop
  <2> QED
    BY <1>1, <1>4, <2>1, <2>2, PushSlotted
<1>7. Flags' /\ Kept(compilers', declared', captured')
  BY <1>2, <1>5 DEF IndInv, Flags, n_
<1> QED
  BY <1>2, <1>6, <1>7, NothingNamed DEF IndInv

LEMMA NamedFunctionBegun ==
  ASSUME IndInv, NEW name \in Names, BeginNamed(name)
  PROVE  IndInv'
<1>1. CASE Refused(name)
  BY <1>1, ErrorStep DEF BeginNamed
<1>2. CASE ~ Refused(name)
  <2> DEFINE n_ == declared
             d_ == current.scope
             h_ == current.height
             s_ == current.height + 1
             l == Local(name, d_, n_ + 1, s_)
             x == WithLocal(current, l, h_)
             b_ == TRUE
             y == NewCompiler(1, b_)
             mid == [compilers EXCEPT ![Len(compilers)] = x]
  <2>1. /\ Shaped(compilers) /\ Kept(compilers, n_, captured) /\ Len(compilers) < MaxFunctions
        /\ n_ \in Nat /\ captured \in SUBSET (1 .. n_) /\ b_ \in BOOLEAN /\ b_
        /\ current = compilers[Len(compilers)] /\ Len(compilers) \in Nat \ {0}
        /\ ~ unpopped /\ ~ failed => AtTop(current) /\ Slotted(compilers)
    BY InvReady DEF BeginNamed, Depth
  <2>2. /\ last' = NoReference /\ failed' = failed
        /\ declared' = n_ + 1 /\ captured' = captured /\ unpopped' = unpopped
        /\ n_ < MaxDeclarations /\ ~ Initializing
        /\ compilers' = Append([compilers EXCEPT ![Depth].locals = Append(@, l)], y)
    BY <1>2 DEF BeginNamed, AtStatement
  <2>3. /\ current \in CompilerTypes /\ Ready(current) /\ Len(current.locals) \in Nat \ {0}
        /\ Len(current.locals) < MaxLocals /\ h_ \in Int /\ s_ \in Int /\ s_ = h_ + 1
        /\ d_ \in Int /\ d_ >= 0 /\ d_ <= MaxScopes
        /\ current.locals[Len(current.locals)].depth >= 0
        /\ current.locals[Len(current.locals)].depth # -1
    <3>1. ~ Len(current.locals) >= MaxLocals
      BY <1>2 DEF Refused
    <3>2. Len(current.locals) \in 1 .. MaxLocals
      BY ReadyTypes DEF Ready
    <3> QED
      BY SMTT(40), <2>2, <3>1, <3>2, ReadyTypes, Settled, ScopesAssumption
  <2>4. compilers' = Append(mid, y)
    <3>1. x = [current EXCEPT !.locals = Append(@, l)]
      BY <2>3 DEF WithLocal, CompilerTypes
    <3>2. mid = [compilers EXCEPT ![Depth].locals = Append(@, l)]
      <4> HIDE DEF x, l
      <4> QED
        BY <2>1, <3>1 DEF Depth
    <3> HIDE DEF mid, y, l
    <3> QED
      BY <2>2, <3>2
  <2> HIDE DEF n_, d_, h_, s_, b_
  <2>5. l \in LocalTypes /\ l.var = n_ + 1 /\ l.depth = d_ /\ l.slot = s_
    <3>1. n_ + 1 \in 0 .. MaxDeclarations /\ d_ \in -1 .. MaxScopes
      BY SMTT(40), <2>1, <2>2, <2>3, ScopesAssumption
    <3> QED
      BY <2>3, <3>1 DEF Local, LocalTypes
  <2>6. HasLocal(current, x, l, h_, n_)
    <3> DEFINE c_ == current
    <3>1. /\ Ready(c_) /\ Len(c_.locals) < MaxLocals /\ c_.locals[Len(c_.locals)].depth >= 0
          /\ n_ \in Nat /\ l \in LocalTypes /\ l.var = n_ + 1 /\ h_ \in Int
          /\ c_.inParameters => l.depth >= 0
      BY <2>1, <2>3, <2>5
    <3> HIDE DEF c_, l
    <3>2. HasLocal(c_, WithLocal(c_, l, h_), l, h_, n_)
      BY <3>1, LocalAdded
    <3> QED
      BY <3>2 DEF c_
  <2> HIDE DEF x, l
  <2>7. /\ Edited(compilers[Len(compilers)], x, n_, n_ + 1) /\ Filled(x)
        /\ Len(x.locals) = Len(current.locals) + 1 /\ x.locals[Len(current.locals) + 1] = l
        /\ \A i \in 1 .. Len(current.locals) : x.locals[i] = current.locals[i]
        /\ x.height = h_
    BY <2>1, <2>6 DEF HasLocal
  <2>8. WithTop(compilers, mid, x)
    <3>1. x \in CompilerTypes
      BY <2>7 DEF Edited
    <3> QED
      BY <2>1, <3>1, TopSet
  <2>9. /\ Len(mid) = Len(compilers) /\ mid[Len(mid)] = x
    BY <2>8 DEF WithTop
  <2> HIDE DEF mid
  <2>10. /\ Kept(mid, n_ + 1, captured)
         /\ Slotted(compilers) => SlottedBelow(mid)
    <3>1. n_ + 1 \in {n_, n_ + 1}
      OBVIOUS
    <3> QED
      BY <2>1, <2>7, <2>8, <3>1, EditKeeps
  <2>11. Within(mid, compilers', NewCompiler(1, b_)) /\ Shaped(mid)
    <3>1. Shaped(mid) /\ y \in CompilerTypes
      BY <2>1, <2>10, NewCompilerShape DEF Kept
    <3> HIDE DEF y
    <3>2. Within(mid, compilers', y)
      BY <2>4, <3>1, Pushed
    <3> QED
      BY <3>1, <3>2 DEF y
  <2>12. mid[Len(mid)].locals[Len(mid[Len(mid)].locals)].depth >= 0
    BY <2>3, <2>5, <2>7, <2>9
  <2>13. Kept(compilers', n_ + 1, captured)
    <3> DEFINE m_ == n_ + 1
    <3>1. m_ \in Nat /\ captured \in SUBSET (1 .. m_) /\ Kept(mid, m_, captured)
          /\ Len(mid) < MaxFunctions
      BY <2>1, <2>9, <2>10
    <3> HIDE DEF m_
    <3>2. Kept(compilers', m_, captured)
      BY <2>1, <2>11, <2>12, <3>1, PushKeeps
    <3> QED
      BY <3>2 DEF m_
  <2>14. ASSUME ~ unpopped, ~ failed
         PROVE  Slotted(compilers')
    <3>1. /\ current.height = Len(current.locals)
          /\ \A i \in 1 .. Len(current.locals) :
               current.locals[i].depth >= 0 => current.locals[i].slot = i
      BY <2>1, <2>3, <2>14 DEF AtTop
    <3>2. h_ = Len(current.locals)
      BY <3>1 DEF h_
    <3>3. ASSUME NEW i \in 1 .. Len(x.locals), x.locals[i].depth >= 0
          PROVE  x.locals[i].slot = i
      <4>1. CASE i = Len(current.locals) + 1
        BY <2>3, <2>5, <2>7, <3>2, <4>1
      <4>2. CASE i # Len(current.locals) + 1
        <5>1. i \in 1 .. Len(current.locals)
          BY <2>3, <2>7, <4>2
        <5> QED
          BY <2>7, <3>1, <3>3, <5>1
      <4> QED
        BY <4>1, <4>2
    <3>4. x.height = Len(x.locals) - 1
      BY <2>3, <2>7, <3>2
    <3>5. LET z == mid[Len(mid)]
          IN  /\ \A i \in 1 .. Len(z.locals) : z.locals[i].depth >= 0 => z.locals[i].slot = i
              /\ z.height = IF b_ \/ z.locals[Len(z.locals)].depth = -1
                              THEN Len(z.locals) - 1 ELSE Len(z.locals)
      BY <2>1, <2>9, <3>3, <3>4
    <3> QED
      BY <2>1, <2>10, <2>11, <2>14, <3>5, PushSlotted
  <2>15. Flags'
    <3>1. n_ + 1 \in 0 .. MaxDeclarations /\ captured \subseteq 1 .. n_ + 1
      BY <2>1, <2>2, ScopesAssumption
    <3> QED
      BY <2>2, <3>1 DEF IndInv, Flags
  <2> QED
    BY <2>2, <2>13, <2>14, <2>15, NothingNamed DEF IndInv
<1> QED
  BY <1>1, <1>2

LEMMA FunctionEnded ==
  ASSUME IndInv, EndFunction
  PROVE  IndInv'
<1> DEFINE n_ == declared
           mid == SubSeq(compilers, 1, Depth - 1)
           old == mid[Len(mid)]
           h_ == IF current.defines THEN old.height + 1 ELSE old.height
           x == [old EXCEPT !.height = h_]
<1>1. /\ Shaped(compilers) /\ Kept(compilers, n_, captured)
      /\ n_ \in Nat /\ captured \in SUBSET (1 .. n_)
      /\ current = compilers[Len(compilers)] /\ Len(compilers) \in Nat \ {0}
      /\ ~ unpopped /\ ~ failed => Slotted(compilers)
  BY InvReady
<1>2. /\ last' = NoReference /\ failed' = failed
      /\ declared' = n_ /\ captured' = captured /\ unpopped' = unpopped
      /\ Depth > 1 /\ Depth = Len(compilers)
      /\ compilers' = [mid EXCEPT ![Depth - 1].height = IF current.defines THEN @ + 1 ELSE @]
  BY DEF EndFunction, Depth
<1>3. Outside(compilers, mid) /\ Len(mid) = Depth - 1 /\ Len(mid) \in Nat \ {0}
  <2>1. Depth - 1 \in 0 .. Len(compilers) /\ Depth - 1 > 0
    BY <1>1, <1>2
  <2>2. compilers \in Seq(CompilerTypes)
    BY <1>1 DEF Shaped
  <2>3. mid \in Seq(CompilerTypes) /\ Len(mid) = Depth - 1 /\ \A i \in 1 .. Depth - 1 : mid[i] = compilers[i]
    BY <2>1, <2>2, Prefix
  <2> HIDE DEF mid
  <2> QED
    BY <1>1, <1>2, <2>1, <2>3 DEF Outside
<1>4. compilers' = [mid EXCEPT ![Len(mid)] = x]
  <2> HIDE DEF mid
  <2> QED
    BY <1>2, <1>3
<1> HIDE DEF mid, n_
<1>5. Kept(mid, n_, captured) /\ (Slotted(compilers) => SlottedBelow(mid))
  <2>1. Shaped(compilers) /\ Ordered(compilers, n_) /\ Initialized(compilers) /\ Leading(compilers)
        /\ Marked(compilers, captured)
    BY <1>1 DEF Kept
  <2> QED
    BY <1>1, <1>3, <2>1, PopKeeps DEF Kept
<1>6. Ready(old) /\ Shaped(mid)
  BY <1>5, KeptReady DEF Kept
<1>7. h_ \in Int
  BY <1>6, CompilerType DEF Ready
<1> HIDE DEF h_
<1>8. /\ x \in CompilerTypes /\ x.locals = old.locals /\ x.upvalues = old.upvalues
      /\ x.defines = old.defines /\ x.inParameters = old.inParameters /\ x.height = h_
  BY <1>6, <1>7 DEF Ready, CompilerTypes
<1> HIDE DEF x
<1>9. WithTop(mid, compilers', x)
  BY <1>4, <1>6, <1>8, TopSet
<1>10. Edited(old, x, n_, n_) /\ Filled(x)
  <2> HIDE DEF old
  <2> QED
    BY <1>1, <1>6, <1>8, Unchanged DEF Ready
<1>11. /\ Kept(compilers', n_, captured)
       /\ SlottedBelow(mid) => SlottedBelow(compilers')
  <2>1. Kept(compilers', n_, captured)
    BY <1>1, <1>5, <1>9, <1>10, EditKeeps
  <2>2. /\ Len(compilers') = Len(mid) /\ compilers'[Len(mid)] = x
        /\ \A c \in 1 .. Len(mid) - 1 : compilers'[c] = mid[c]
    BY <1>9 DEF WithTop
  <2>3. ASSUME SlottedBelow(mid), NEW c \in 1 .. Len(mid) - 1
        PROVE  /\ \A i \in 1 .. Len(compilers'[c].locals) :
                    compilers'[c].locals[i].depth >= 0 => compilers'[c].locals[i].slot = i
               /\ compilers'[c].height = IF Awaited(compilers', c) THEN Len(compilers'[c].locals) - 1
                                         ELSE Len(compilers'[c].locals)
    <3>1. compilers'[c] = mid[c]
      BY <2>2
    <3>2. compilers'[c + 1].defines = mid[c + 1].defines
      <4>1. c + 1 = Len(mid) \/ c + 1 \in 1 .. Len(mid) - 1
        BY <1>3
      <4> QED
        BY <1>8, <2>2, <4>1
    <3>3. Awaited(compilers', c) <=> Awaited(mid, c)
      BY <2>2, <3>1, <3>2 DEF Awaited
    <3> QED
      BY <2>3, <3>1, <3>3 DEF SlottedBelow
  <2> QED
    BY <2>1, <2>2, <2>3 DEF SlottedBelow
<1>12. ASSUME ~ unpopped, ~ failed
       PROVE  Slotted(compilers')
  <2>1. Slotted(compilers) /\ SlottedBelow(compilers')
    BY <1>1, <1>5, <1>11, <1>12
  <2>2. compilers[Len(mid)] = old /\ Len(mid) \in 1 .. Len(compilers)
        /\ Len(mid) + 1 = Len(compilers)
    BY <1>1, <1>2, <1>3 DEF Outside
  <2>3. /\ \A i \in 1 .. Len(old.locals) : old.locals[i].depth >= 0 => old.locals[i].slot = i
        /\ old.height = IF current.defines \/ old.locals[Len(old.locals)].depth = -1
                          THEN Len(old.locals) - 1 ELSE Len(old.locals)
    <3> HIDE DEF old
    <3>1. Awaited(compilers, Len(mid)) <=> current.defines \/ old.locals[Len(old.locals)].depth = -1
      BY <1>1, <2>2 DEF Awaited
    <3> QED
      BY <2>1, <2>2, <3>1 DEF Slotted
  <2>4. current.defines => old.locals[Len(old.locals)].depth >= 0
    <3> HIDE DEF old
    <3> QED
      BY <1>1, <2>2 DEF Kept, Initialized
  <2>5. AtTop(x)
    <3>1. Len(old.locals) \in Nat /\ old.height \in Int
      BY <1>6, CompilerType DEF Ready
    <3> HIDE DEF old
    <3>2. h_ = IF current.defines THEN old.height + 1 ELSE old.height
      BY DEF h_, old
    <3>3. h_ = IF old.locals[Len(old.locals)].depth = -1 THEN Len(old.locals) - 1 ELSE Len(old.locals)
      BY <2>3, <2>4, <3>1, <3>2
    <3> QED
      BY <1>8, <2>3, <3>3 DEF AtTop
  <2>6. ASSUME NEW c \in 1 .. Len(compilers')
        PROVE  /\ \A i \in 1 .. Len(compilers'[c].locals) :
                    compilers'[c].locals[i].depth >= 0 => compilers'[c].locals[i].slot = i
               /\ compilers'[c].height = IF Awaited(compilers', c) THEN Len(compilers'[c].locals) - 1
                                         ELSE Len(compilers'[c].locals)
    <3>1. Len(compilers') = Len(mid) /\ compilers'[Len(mid)] = x
      BY <1>9 DEF WithTop
    <3>2. CASE c = Len(mid)
      <4>1. compilers'[c] = x
        BY <3>1, <3>2
      <4>2. Awaited(compilers', c) <=> x.locals[Len(x.locals)].depth = -1
        BY <1>3, <3>1, <3>2, <4>1 DEF Awaited
      <4> QED
        BY <2>5, <4>1, <4>2 DEF AtTop
    <3>3. CASE c # Len(mid)
      <4>1. c \in 1 .. Len(compilers') - 1
        BY <1>3, <3>1, <3>3
      <4> QED
        BY <2>1, <4>1 DEF SlottedBelow
    <3> QED
      BY <3>2, <3>3
  <2> QED
    BY <2>6 DEF Slotted
<1>13. Flags' /\ Kept(compilers', declared', captured')
  BY <1>2, <1>11 DEF IndInv, Flags, n_
<1> QED
  BY <1>2, <1>12, <1>13, NothingNamed DEF IndInv

-----------------------------------------------------------------------------
(* Where upvalues lead *)

StepOf(cs, f, c, u) ==
  IF u.isLocal
    THEN IF u.index <= Len(cs[c - 1].locals) THEN cs[c - 1].locals[u.index].var ELSE 0
    ELSE IF c > 2 /\ u.index <= Len(cs[c - 1].upvalues) THEN f[c - 1][u.index] ELSE 0

\* f says where every upvalue leads, as Reaches does.
IsReaches(cs, f) ==
  f = [c \in 2 .. Len(cs) |-> [k \in 1 .. Len(cs[c].upvalues) |-> StepOf(cs, f, c, cs[c].upvalues[k])]]

\* The variables the upvalues were made for.
MadeFor(cs) == [c \in 2 .. Len(cs) |-> [k \in 1 .. Len(cs[c].upvalues) |-> cs[c].upvalues[k].var]]

LEMMA StepToMadeFor ==
  ASSUME NEW cs, Shaped(cs), Leading(cs), NEW f, NEW c \in 2 .. Len(cs), NEW k \in 1 .. Len(cs[c].upvalues),
         c > 2 => \A j \in 1 .. Len(cs[c - 1].upvalues) : f[c - 1][j] = cs[c - 1].upvalues[j].var
  PROVE  StepOf(cs, f, c, cs[c].upvalues[k]) = cs[c].upvalues[k].var
<1> DEFINE u == cs[c].upvalues[k]
<1>1. LeadsOn(cs, c, u)
  BY DEF Leading
<1>2. Len(cs) \in Nat /\ Len(cs[c - 1].locals) \in Nat /\ Len(cs[c - 1].upvalues) \in Nat
  <2>1. c - 1 \in 1 .. Len(cs)
    BY ShapedTypes
  <2> QED
    BY <2>1, ShapedTypes
<1> HIDE DEF u
<1>3. CASE u.isLocal
  BY <1>1, <1>2, <1>3 DEF StepOf, LeadsOn, u
<1>4. CASE ~ u.isLocal
  <2>1. u.index \in 1 .. Len(cs[c - 1].upvalues) /\ cs[c - 1].upvalues[u.index].var = u.var
    BY <1>1, <1>4 DEF LeadsOn
  <2>2. c # 2
    <3>1. ASSUME c = 2
          PROVE  FALSE
      <4>1. cs[c - 1].upvalues = <<>>
        BY <3>1 DEF Shaped
      <4>2. Len(cs[c - 1].upvalues) = 0
        BY <4>1
      <4> QED
        BY <2>1, <4>2
    <3> QED
      BY <3>1
  <2>3. c > 2
    BY <1>2, <2>2
  <2>4. StepOf(cs, f, c, u) = f[c - 1][u.index]
    BY <1>2, <1>4, <2>1, <2>3 DEF StepOf
  <2> QED
    BY <2>1, <2>3, <2>4 DEF u
<1> QED
  BY <1>3, <1>4

\* The recursion has a solution, and only one.
LEMMA ReachesMadeFor ==
  ASSUME NEW cs, Shaped(cs), Leading(cs)
  PROVE  /\ IsReaches(cs, MadeFor(cs))
         /\ \A f : IsReaches(cs, f) =>
              \A c \in 2 .. Len(cs) : \A k \in 1 .. Len(cs[c].upvalues) : f[c][k] = cs[c].upvalues[k].var
<1>1. Len(cs) \in Nat
  BY ShapedTypes
<1>2. IsReaches(cs, MadeFor(cs))
  <2> DEFINE f == MadeFor(cs)
  <2>1. ASSUME NEW c \in 2 .. Len(cs), NEW k \in 1 .. Len(cs[c].upvalues)
        PROVE  StepOf(cs, f, c, cs[c].upvalues[k]) = cs[c].upvalues[k].var
    <3>1. ASSUME c > 2, NEW j \in 1 .. Len(cs[c - 1].upvalues)
          PROVE  f[c - 1][j] = cs[c - 1].upvalues[j].var
      <4>1. c - 1 \in 2 .. Len(cs)
        BY <1>1, <3>1
      <4> QED
        BY <4>1 DEF MadeFor
    <3> HIDE DEF f
    <3> QED
      <4>1. c > 2 => \A j \in 1 .. Len(cs[c - 1].upvalues) : f[c - 1][j] = cs[c - 1].upvalues[j].var
        BY <3>1
      <4> QED
        BY <4>1, StepToMadeFor, ZenonT(60)
  <2> HIDE DEF f
  <2>2. f = [c \in 2 .. Len(cs) |-> [k \in 1 .. Len(cs[c].upvalues) |-> cs[c].upvalues[k].var]]
    BY DEF f, MadeFor
  <2> DEFINE g == [c \in 2 .. Len(cs) |->
                     [k \in 1 .. Len(cs[c].upvalues) |-> StepOf(cs, f, c, cs[c].upvalues[k])]]
  <2>3. ASSUME NEW c \in 2 .. Len(cs)
        PROVE  [k \in 1 .. Len(cs[c].upvalues) |-> cs[c].upvalues[k].var]
                 = [k \in 1 .. Len(cs[c].upvalues) |-> StepOf(cs, f, c, cs[c].upvalues[k])]
    BY <2>1
  <2>4. f = g
    BY <2>2, <2>3
  <2> QED
    BY <2>4 DEF IsReaches, f
<1>3. ASSUME NEW f, IsReaches(cs, f)
      PROVE  \A c \in 2 .. Len(cs) : \A k \in 1 .. Len(cs[c].upvalues) : f[c][k] = cs[c].upvalues[k].var
  <2> DEFINE Right(c) == \A k \in 1 .. Len(cs[c].upvalues) : f[c][k] = cs[c].upvalues[k].var
             Wrong == {c \in 2 .. Len(cs) : ~ Right(c)}
  <2>1. ASSUME Wrong # {}
        PROVE  FALSE
    <3>1. PICK c \in Wrong : \A d \in Wrong : c <= d
      <4>1. Wrong \in SUBSET Nat
        BY <1>1
      <4> HIDE DEF Wrong
      <4> QED
        BY <2>1, <4>1, LeastNatural
    <3>2. c \in 2 .. Len(cs) /\ ~ Right(c)
      OBVIOUS
    <3>3. c > 2 => Right(c - 1)
      <4>1. ASSUME c > 2, ~ Right(c - 1)
            PROVE  FALSE
        <5>1. c - 1 \in 2 .. Len(cs)
          BY <1>1, <3>2, <4>1
        <5>2. c - 1 \in Wrong
          BY <4>1, <5>1
        <5>3. c <= c - 1
          BY <3>1, <5>2
        <5> QED
          BY <1>1, <3>2, <5>3
      <4> QED
        BY <4>1
    <3>4. ASSUME NEW k \in 1 .. Len(cs[c].upvalues)
          PROVE  f[c][k] = cs[c].upvalues[k].var
      <4>1. f[c][k] = StepOf(cs, f, c, cs[c].upvalues[k])
        <5> DEFINE g == [d \in 2 .. Len(cs) |->
                           [j \in 1 .. Len(cs[d].upvalues) |-> StepOf(cs, f, d, cs[d].upvalues[j])]]
        <5>1. f = g
          BY <1>3, Zenon DEF IsReaches
        <5>2. g[c][k] = StepOf(cs, f, c, cs[c].upvalues[k])
          BY <3>2
        <5> HIDE DEF g
        <5> QED
          BY <5>1, <5>2
      <4>2. c > 2 => \A j \in 1 .. Len(cs[c - 1].upvalues) : f[c - 1][j] = cs[c - 1].upvalues[j].var
        BY <3>3
      <4>3. StepOf(cs, f, c, cs[c].upvalues[k]) = cs[c].upvalues[k].var
        BY <3>2, <4>2, StepToMadeFor
      <4> QED
        BY <4>1, <4>3
    <3> QED
      BY <3>2, <3>4
  <2>2. \A c \in 2 .. Len(cs) : Right(c)
    BY <2>1
  <2> QED
    BY <2>2
<1> QED
  BY <1>2, <1>3

LEMMA ReachesNow ==
  ASSUME Shaped(compilers), Leading(compilers)
  PROVE  \A c \in 2 .. Len(compilers) : \A k \in 1 .. Len(compilers[c].upvalues) :
           Reaches[c][k] = compilers[c].upvalues[k].var
<1>1. IsReaches(compilers, MadeFor(compilers))
  BY ReachesMadeFor
<1>2. IsReaches(compilers, Reaches)
  BY <1>1, Zenon DEF Reaches, IsReaches, StepOf, Locals, Depth
<1> HIDE DEF Reaches
<1> QED
  BY <1>2, ReachesMadeFor

LEMMA ReachesNext ==
  ASSUME Shaped(compilers'), Leading(compilers')
  PROVE  \A c \in 2 .. Len(compilers') : \A k \in 1 .. Len(compilers'[c].upvalues) :
           Reaches'[c][k] = compilers'[c].upvalues[k].var
<1>1. IsReaches(compilers', MadeFor(compilers'))
  BY ReachesMadeFor
<1>2. IsReaches(compilers', Reaches')
  BY <1>1, Zenon DEF Reaches, IsReaches, StepOf, Locals, Depth
<1> HIDE DEF Reaches
<1> QED
  BY <1>2, ReachesMadeFor

-----------------------------------------------------------------------------
(* What a name means *)

NamedIn(cs, c, name) == {i \in 1 .. Len(cs[c].locals) : cs[c].locals[i].name = name}

VarsOf(cs, name) == UNION {{cs[c].locals[i].var : i \in NamedIn(cs, c, name)} : c \in 1 .. Len(cs)}

LEMMA InScopeVars ==
  /\ \A name : InScope(name) = VarsOf(compilers, name)
  /\ (InScope(last.name))' = VarsOf(compilers', last'.name)
BY Zenon DEF InScope, VarsOf, Named, NamedIn, Locals, Depth

\* resolve_local finds the last local of the name.
LEMMA LocalResolved ==
  ASSUME Shaped(compilers), NEW c \in 1 .. Len(compilers), NEW name
  PROVE  \/ ResolveLocal(c, name) = 0 /\ NamedIn(compilers, c, name) = {}
         \/ /\ ResolveLocal(c, name) \in NamedIn(compilers, c, name)
            /\ \A j \in NamedIn(compilers, c, name) : j <= ResolveLocal(c, name)
<1> DEFINE S == NamedIn(compilers, c, name)
<1>1. Named(c, name) = S
  BY DEF Named, NamedIn, Locals
<1>2. CASE S = {}
  BY <1>1, <1>2 DEF ResolveLocal
<1>3. CASE S # {}
  <2>1. Len(compilers[c].locals) \in Nat
    BY ShapedTypes
  <2>2. S \in SUBSET (0 .. Len(compilers[c].locals))
    BY <2>1 DEF NamedIn
  <2>3. ResolveLocal(c, name) = CHOOSE i \in S : \A j \in S : j <= i
    BY <1>1, <1>3 DEF ResolveLocal
  <2> HIDE DEF S
  <2>4. \E i \in S : \A j \in S : j <= i
    BY <1>3, <2>1, <2>2, GreatestNumber
  <2>5. ResolveLocal(c, name) \in S /\ \A j \in S : j <= ResolveLocal(c, name)
    BY <2>3, <2>4
  <2> QED
    BY <2>5 DEF S
<1> QED
  BY <1>2, <1>3

\* The variable that a name means: where the code finds it, and that no other
\* variable of the name was declared later.
Means(cs, name, o, i) ==
  /\ o \in 1 .. Len(cs) /\ i \in 2 .. Len(cs[o].locals) /\ cs[o].locals[i].name = name
  /\ cs[o].locals[i].var \in VarsOf(cs, name)
  /\ \A v \in VarsOf(cs, name) : v <= cs[o].locals[i].var

LEMMA NameResolved ==
  ASSUME Shaped(compilers), NEW n, Ordered(compilers, n), NEW name \in Names
  PROVE  \/ Owner(name) = 0 /\ VarsOf(compilers, name) = {}
         \/ Means(compilers, name, Owner(name), ResolveLocal(Owner(name), name))
<1> DEFINE S == {c \in 1 .. Len(compilers) : NamedIn(compilers, c, name) # {}}
<1>1. Len(compilers) \in Nat
  BY ShapedTypes
<1>2. ASSUME NEW c \in 1 .. Len(compilers)
      PROVE  ResolveLocal(c, name) > 0 <=> NamedIn(compilers, c, name) # {}
  <2>1. NamedIn(compilers, c, name) \subseteq Nat \ {0}
    BY ShapedTypes DEF NamedIn
  <2> QED
    BY <2>1, LocalResolved
<1>3. {c \in 1 .. Depth : ResolveLocal(c, name) > 0} = S
  BY <1>2 DEF Depth
<1>4. Owner(name) = IF S = {} THEN 0 ELSE CHOOSE c \in S : \A d \in S : d <= c
  <2> DEFINE T == {c \in 1 .. Depth : ResolveLocal(c, name) > 0}
  <2>1. Owner(name) = IF T = {} THEN 0 ELSE CHOOSE c \in T : \A d \in T : d <= c
    BY DEF Owner
  <2>2. T = S
    BY <1>3
  <2> HIDE DEF S, T
  <2> QED
    BY <2>1, <2>2
<1>5. CASE S = {}
  <2>1. \A c \in 1 .. Len(compilers) : NamedIn(compilers, c, name) = {}
    BY <1>5
  <2>2. VarsOf(compilers, name) = {}
    BY <2>1 DEF VarsOf
  <2> QED
    BY <1>4, <1>5, <2>2
<1>6. CASE S # {}
  <2> DEFINE o == Owner(name)
             i == ResolveLocal(o, name)
  <2>1. o \in S /\ \A d \in S : d <= o
    <3>1. S \in SUBSET (0 .. Len(compilers))
      BY <1>1
    <3> HIDE DEF S
    <3>2. \E c \in S : \A d \in S : d <= c
      BY <1>1, <1>6, <3>1, GreatestNumber
    <3> QED
      BY <1>4, <1>6, <3>2
  <2>2. o \in 1 .. Len(compilers) /\ NamedIn(compilers, o, name) # {}
    BY <2>1
  <2>3. i \in NamedIn(compilers, o, name) /\ \A j \in NamedIn(compilers, o, name) : j <= i
    <3> HIDE DEF o
    <3>1. ResolveLocal(o, name) > 0
      BY <1>2, <2>2
    <3> QED
      BY <2>2, LocalResolved
  <2> HIDE DEF o, i
  <2>4. ASSUME NEW c \in 1 .. Len(compilers), NEW j \in NamedIn(compilers, c, name)
        PROVE  j \in 2 .. Len(compilers[c].locals)
    <3>1. j \in 1 .. Len(compilers[c].locals) /\ compilers[c].locals[j].name = name
      BY DEF NamedIn
    <3>2. compilers[c].locals[1].name = NoName /\ name # NoName
      BY ScopesAssumption, NoNameAssumption DEF Shaped
    <3>3. j # 1
      BY <3>1, <3>2
    <3> QED
      BY <3>1, <3>3, ShapedTypes
  <2>5. i \in 2 .. Len(compilers[o].locals) /\ compilers[o].locals[i].name = name
    BY <2>2, <2>3, <2>4 DEF NamedIn
  <2>6. compilers[o].locals[i].var \in VarsOf(compilers, name)
    BY <2>2, <2>3 DEF VarsOf
  <2>7. ASSUME NEW v \in VarsOf(compilers, name)
        PROVE  v <= compilers[o].locals[i].var
    <3>1. PICK c \in 1 .. Len(compilers) : \E j \in NamedIn(compilers, c, name) : v = compilers[c].locals[j].var
      BY DEF VarsOf
    <3>2. PICK j \in NamedIn(compilers, c, name) : v = compilers[c].locals[j].var
      BY <3>1
    <3>3. j \in 2 .. Len(compilers[c].locals) /\ c \in S
      BY <2>4, <3>2
    <3>4. c <= o
      BY <2>1, <3>3
    <3>5. c < o \/ (c = o /\ j < i) \/ (c = o /\ j = i)
      <4>1. c = o => j <= i
        BY <2>3, <3>2
      <4>2. i \in Int /\ j \in Int /\ c \in Int /\ o \in Int
        BY <2>2, <2>5, <3>3
      <4> QED
        BY <3>4, <4>1, <4>2
    <3>6. c < o \/ (c = o /\ j < i) => compilers[c].locals[j].var < compilers[o].locals[i].var
      BY <2>2, <2>5, <3>3 DEF Ordered
    <3>7. compilers[o].locals[i].var \in Int /\ compilers[c].locals[j].var \in Int
      BY <2>2, <2>5, <3>3 DEF Ordered
    <3> QED
      BY <3>2, <3>5, <3>6, <3>7
  <2> QED
    BY <2>2, <2>5, <2>6, <2>7 DEF Means, o, i
<1> QED
  BY <1>5, <1>6

\* The new reference is to the variable the name means.
LEMMA NamedGlobal ==
  ASSUME NEW name, last' = [name |-> name, from |-> "global", arg |-> 0],
         VarsOf(compilers', name) = {}
  PROVE  LexicalScope'
<1>1. last'.name = name /\ last'.from = "global"
  OBVIOUS
<1>2. (InScope(last.name))' = {}
  BY <1>1, InScopeVars
<1> QED
  BY <1>1, <1>2, Zenon DEF LexicalScope

LEMMA NamedLocal ==
  ASSUME NEW name, NEW arg, last' = [name |-> name, from |-> "local", arg |-> arg],
         Means(compilers', name, Len(compilers'), arg)
  PROVE  LexicalScope'
<1> DEFINE v == compilers'[Len(compilers')].locals[arg].var
<1>1. last'.name = name /\ last'.from = "local" /\ last'.arg = arg
  OBVIOUS
<1>2. (InScope(last.name))' = VarsOf(compilers', name)
  BY <1>1, InScopeVars
<1>3. v \in VarsOf(compilers', name) /\ \A w \in VarsOf(compilers', name) : w <= v
  BY DEF Means
<1>4. (current.locals[last.arg].var)' = v
  BY <1>1 DEF current, Depth
<1> HIDE DEF v
<1> QED
  BY <1>1, <1>2, <1>3, <1>4 DEF LexicalScope

LEMMA NamedUpvalue ==
  ASSUME NEW name, NEW arg, last' = [name |-> name, from |-> "upvalue", arg |-> arg],
         NEW o, NEW i, Means(compilers', name, o, i),
         Reaches'[Len(compilers')][arg] = compilers'[o].locals[i].var
  PROVE  LexicalScope'
<1> DEFINE v == compilers'[o].locals[i].var
<1>1. last'.name = name /\ last'.from = "upvalue" /\ last'.arg = arg
  OBVIOUS
<1>2. (InScope(last.name))' = VarsOf(compilers', name)
  BY <1>1, InScopeVars
<1>3. v \in VarsOf(compilers', name) /\ \A w \in VarsOf(compilers', name) : w <= v
  BY DEF Means
<1>4. (Reaches[Depth][last.arg])' = v
  BY <1>1 DEF Depth
<1> HIDE DEF v
<1> QED
  BY <1>1, <1>2, <1>3, <1>4 DEF LexicalScope

-----------------------------------------------------------------------------
(* A name of an enclosing function's variable *)

\* The locals are the same, but more of them may be captured.
Alike(cs, cs2) ==
  /\ cs2 \in Seq(CompilerTypes) /\ Len(cs2) = Len(cs)
  /\ \A c \in 1 .. Len(cs) :
       /\ Len(cs2[c].locals) = Len(cs[c].locals)
       /\ cs2[c].height = cs[c].height /\ cs2[c].defines = cs[c].defines
       /\ cs2[c].inParameters = cs[c].inParameters
       /\ \A j \in 1 .. Len(cs[c].locals) :
            /\ cs2[c].locals[j].name = cs[c].locals[j].name
            /\ cs2[c].locals[j].depth = cs[c].locals[j].depth
            /\ cs2[c].locals[j].var = cs[c].locals[j].var
            /\ cs2[c].locals[j].slot = cs[c].locals[j].slot
            /\ cs[c].locals[j].isCaptured => cs2[c].locals[j].isCaptured

LEMMA AlikeKeeps ==
  ASSUME NEW cs, NEW cs2, NEW n, Shaped(cs), Alike(cs, cs2), Ordered(cs, n), Initialized(cs)
  PROVE  /\ Ordered(cs2, n) /\ Initialized(cs2)
         /\ Slotted(cs) => Slotted(cs2)
<1>1. /\ Len(cs2) = Len(cs) /\ Len(cs) \in Nat
      /\ \A c \in 1 .. Len(cs) : Len(cs2[c].locals) = Len(cs[c].locals)
      /\ \A c \in 1 .. Len(cs) : Len(cs[c].locals) \in Nat \ {0}
      /\ \A c \in 1 .. Len(cs) : \A j \in 1 .. Len(cs[c].locals) :
           /\ cs2[c].locals[j].var = cs[c].locals[j].var
           /\ cs2[c].locals[j].depth = cs[c].locals[j].depth
           /\ cs2[c].locals[j].slot = cs[c].locals[j].slot
  BY ShapedTypes DEF Alike
<1>2. Ordered(cs2, n)
  <2>1. ASSUME NEW c \in 1 .. Len(cs2), NEW j \in 2 .. Len(cs2[c].locals)
        PROVE  j \in 2 .. Len(cs[c].locals) /\ cs2[c].locals[j].var = cs[c].locals[j].var
    BY <1>1
  <2> QED
    BY <1>1, <2>1 DEF Ordered
<1>3. ASSUME NEW c \in 1 .. Len(cs)
      PROVE  /\ Filled(cs2[c]) /\ c \in 1 .. Len(cs)
             /\ cs2[c].locals[Len(cs2[c].locals)].depth = cs[c].locals[Len(cs[c].locals)].depth
  <2>1. cs2[c].locals[Len(cs2[c].locals)].depth = cs[c].locals[Len(cs[c].locals)].depth
    <3>1. Len(cs[c].locals) \in 1 .. Len(cs[c].locals)
      BY <1>1
    <3> QED
      BY <1>1, <3>1
  <2>2. Filled(cs[c]) /\ cs2[c].inParameters = cs[c].inParameters
    BY DEF Initialized, Alike
  <2>3. ASSUME NEW j \in 1 .. Len(cs2[c].locals) - 1
        PROVE  cs2[c].locals[j].depth >= 0
    <3>1. j \in 1 .. Len(cs[c].locals) - 1 /\ j \in 1 .. Len(cs[c].locals)
      BY <1>1
    <3> QED
      BY <1>1, <2>2, <3>1 DEF Filled
  <2> QED
    BY <2>1, <2>2, <2>3 DEF Filled
<1>4. Initialized(cs2)
  <2>1. ASSUME NEW c \in 1 .. Len(cs2), c < Len(cs2), cs2[c + 1].defines
        PROVE  cs2[c].locals[Len(cs2[c].locals)].depth >= 0
    <3>1. c \in 1 .. Len(cs) /\ c + 1 \in 1 .. Len(cs) /\ c < Len(cs)
      BY <1>1, <2>1
    <3>2. cs[c + 1].defines
      BY <2>1, <3>1 DEF Alike
    <3> QED
      BY <1>3, <3>1, <3>2 DEF Initialized
  <2> QED
    BY <1>1, <1>3, <2>1 DEF Initialized
<1>5. ASSUME Slotted(cs), NEW c \in 1 .. Len(cs)
      PROVE  /\ \A i \in 1 .. Len(cs2[c].locals) :
                  cs2[c].locals[i].depth >= 0 => cs2[c].locals[i].slot = i
             /\ cs2[c].height = IF Awaited(cs2, c) THEN Len(cs2[c].locals) - 1 ELSE Len(cs2[c].locals)
  <2>1. c < Len(cs) => cs2[c + 1].defines = cs[c + 1].defines
    <3>1. c < Len(cs) => c + 1 \in 1 .. Len(cs)
      BY <1>1
    <3> QED
      BY <3>1 DEF Alike
  <2>2. Awaited(cs2, c) <=> Awaited(cs, c)
    BY <1>1, <1>3, <2>1 DEF Awaited
  <2>3. cs2[c].height = cs[c].height
    BY DEF Alike
  <2>4. cs2[c].height = IF Awaited(cs2, c) THEN Len(cs2[c].locals) - 1 ELSE Len(cs2[c].locals)
    <3>1. Len(cs2[c].locals) = Len(cs[c].locals)
      BY <1>1
    <3>2. cs[c].height = IF Awaited(cs, c) THEN Len(cs[c].locals) - 1 ELSE Len(cs[c].locals)
      BY <1>1, <1>5 DEF Slotted
    <3> QED
      BY <2>2, <2>3, <3>1, <3>2
  <2>5. ASSUME NEW i \in 1 .. Len(cs2[c].locals), cs2[c].locals[i].depth >= 0
        PROVE  cs2[c].locals[i].slot = i
    <3>1. c \in 1 .. Len(cs) /\ i \in 1 .. Len(cs[c].locals)
      BY <1>1, <2>5
    <3>2. cs[c].locals[i].depth >= 0 => cs[c].locals[i].slot = i
      BY <1>5, <3>1 DEF Slotted
    <3> QED
      BY <1>1, <2>5, <3>1, <3>2
  <2> QED
    BY <2>4, <2>5
<1>6. Slotted(cs) => Slotted(cs2)
  BY <1>1, <1>5 DEF Slotted
<1> QED
  BY <1>2, <1>4, <1>6

\* Names mean the same, and the captured variable is marked.
LEMMA AlikeMeans ==
  ASSUME NEW cs, NEW cs2, NEW n, Shaped(cs), Alike(cs, cs2), Ordered(cs, n),
         NEW name, NEW o, NEW i, Means(cs, name, o, i)
  PROVE  Means(cs2, name, o, i) /\ cs2[o].locals[i].var = cs[o].locals[i].var
<1>1. /\ Len(cs2) = Len(cs)
      /\ \A c \in 1 .. Len(cs) : Len(cs2[c].locals) = Len(cs[c].locals)
      /\ \A c \in 1 .. Len(cs) : \A j \in 1 .. Len(cs[c].locals) :
           cs2[c].locals[j].name = cs[c].locals[j].name /\ cs2[c].locals[j].var = cs[c].locals[j].var
  BY DEF Alike
<1>2. ASSUME NEW c \in 1 .. Len(cs)
      PROVE  {cs2[c].locals[j].var : j \in NamedIn(cs2, c, name)}
               = {cs[c].locals[j].var : j \in NamedIn(cs, c, name)}
  <2>1. NamedIn(cs2, c, name) = NamedIn(cs, c, name)
    BY <1>1 DEF NamedIn
  <2>2. \A j \in NamedIn(cs, c, name) : cs2[c].locals[j].var = cs[c].locals[j].var
    BY <1>1 DEF NamedIn
  <2> QED
    BY <2>1, <2>2
<1>3. VarsOf(cs2, name) = VarsOf(cs, name)
  <2> DEFINE A(c) == {cs2[c].locals[j].var : j \in NamedIn(cs2, c, name)}
             B(c) == {cs[c].locals[j].var : j \in NamedIn(cs, c, name)}
  <2>1. VarsOf(cs2, name) = UNION {A(c) : c \in 1 .. Len(cs2)}
    BY DEF VarsOf
  <2>2. VarsOf(cs, name) = UNION {B(c) : c \in 1 .. Len(cs)}
    BY DEF VarsOf
  <2>3. \A c \in 1 .. Len(cs) : A(c) = B(c)
    BY <1>2
  <2> HIDE DEF A, B
  <2> QED
    BY <1>1, <2>1, <2>2, <2>3
<1>4. o \in 1 .. Len(cs) /\ i \in 2 .. Len(cs[o].locals) /\ i \in 1 .. Len(cs[o].locals)
  BY ShapedTypes DEF Means
<1> QED
  BY <1>1, <1>3, <1>4 DEF Means

LEMMA AlikeMarked ==
  ASSUME NEW cs, NEW cs2, NEW n \in Nat, Shaped(cs), Alike(cs, cs2), Ordered(cs, n),
         NEW vs, Marked(cs, vs), NEW o \in 1 .. Len(cs), NEW i \in 2 .. Len(cs[o].locals),
         cs2[o].locals[i].isCaptured
  PROVE  Marked(cs2, vs \cup {cs[o].locals[i].var})
<1>1. ASSUME NEW c \in 1 .. Len(cs2), NEW j \in 1 .. Len(cs2[c].locals),
             cs2[c].locals[j].var \in vs \cup {cs[o].locals[i].var}
      PROVE  cs2[c].locals[j].isCaptured
  <2>1. c \in 1 .. Len(cs) /\ j \in 1 .. Len(cs[c].locals)
    BY DEF Alike
  <2>2. /\ cs2[c].locals[j].var = cs[c].locals[j].var
        /\ cs[c].locals[j].isCaptured => cs2[c].locals[j].isCaptured
    BY <2>1 DEF Alike
  <2>3. CASE cs2[c].locals[j].var \in vs
    BY <2>1, <2>2, <2>3 DEF Marked
  <2>4. CASE cs[c].locals[j].var = cs[o].locals[i].var
    <3>1. Len(cs) \in Nat /\ Len(cs[c].locals) \in Nat /\ Len(cs[o].locals) \in Nat
      BY <2>1, ShapedTypes
    <3>2. cs[o].locals[i].var \in 1 .. n
      BY DEF Ordered
    <3>3. j # 1
      <4>1. cs[c].locals[1].var = 0
        BY <2>1 DEF Shaped
      <4> QED
        BY SMTT(40), <2>4, <3>2, <4>1
    <3>4. j \in 2 .. Len(cs[c].locals)
      BY <2>1, <3>1, <3>3
    <3>5. ~ (c < o \/ (c = o /\ j < i)) /\ ~ (o < c \/ (o = c /\ i < j))
      <4>1. c < o \/ (c = o /\ j < i) => cs[c].locals[j].var < cs[o].locals[i].var
        BY <2>1, <3>4 DEF Ordered
      <4>2. o < c \/ (o = c /\ i < j) => cs[o].locals[i].var < cs[c].locals[j].var
        BY <2>1, <3>4 DEF Ordered
      <4> QED
        BY <2>4, <3>2, <4>1, <4>2
    <3>6. c = o /\ j = i
      BY <2>1, <3>1, <3>4, <3>5
    <3> QED
      BY <3>6
  <2> QED
    BY <1>1, <2>2, <2>3, <2>4
<1> QED
  BY <1>1 DEF Marked

LEMMA PositionFound ==
  ASSUME Shaped(compilers), NEW c \in 1 .. Len(compilers), NEW u
  PROVE  /\ Position(c, u) \in 1 .. Len(compilers[c].upvalues) + 1
         /\ Position(c, u) <= Len(compilers[c].upvalues) =>
              SameUpvalue(compilers[c].upvalues[Position(c, u)], u)
<1> DEFINE S == {i \in 1 .. Len(compilers[c].upvalues) : SameUpvalue(compilers[c].upvalues[i], u)}
<1>1. Len(compilers[c].upvalues) \in Nat
  BY ShapedTypes
<1>2. Position(c, u) = IF S = {} THEN Len(compilers[c].upvalues) + 1
                       ELSE CHOOSE i \in S : \A j \in S : i <= j
  BY DEF Position
<1>3. CASE S = {}
  BY <1>1, <1>2, <1>3
<1>4. CASE S # {}
  <2>1. S \in SUBSET Nat
    BY <1>1
  <2> HIDE DEF S
  <2>2. \E i \in S : \A j \in S : i <= j
    BY <1>4, <2>1, LeastNatural
  <2>3. Position(c, u) \in S
    BY <1>2, <1>4, <2>2
  <2> QED
    BY <1>1, <2>3 DEF S
<1> QED
  BY <1>3, <1>4

VarOf(name) == Locals(Owner(name))[ResolveLocal(Owner(name), name)].var

EntryAt(name, c, f) ==
  IF c = Owner(name) + 1 THEN Upvalue(ResolveLocal(Owner(name), name), TRUE, VarOf(name))
  ELSE Upvalue(Position(c - 1, f[c - 1]), FALSE, VarOf(name))

\* f has the entries, as Entries has, up to function n.
HasEntries(name, f, n) == f = [c \in Owner(name) + 1 .. n |-> EntryAt(name, c, f)]

LEMMA HasEntriesAt ==
  ASSUME NEW name, NEW f, NEW n, HasEntries(name, f, n), NEW c \in Owner(name) + 1 .. n
  PROVE  f[c] = EntryAt(name, c, f)
<1> DEFINE g == [d \in Owner(name) + 1 .. n |-> EntryAt(name, d, f)]
<1>1. f = g
  BY Zenon DEF HasEntries
<1>2. g[c] = EntryAt(name, c, f)
  OBVIOUS
<1> HIDE DEF g
<1> QED
  BY <1>1, <1>2

\* The entry of a function depends only on that of the function around it.
LEMMA EntriesExtended ==
  ASSUME NEW name, Owner(name) \in Nat, NEW n \in Nat, n > Owner(name), NEW f,
         n > Owner(name) + 1 => HasEntries(name, f, n - 1)
  PROVE  \E g : HasEntries(name, g, n)
<1> DEFINE o == Owner(name)
           g == [c \in o + 1 .. n |-> IF c < n THEN f[c] ELSE EntryAt(name, n, f)]
<1>1. ASSUME NEW c \in o + 1 .. n
      PROVE  g[c] = EntryAt(name, c, g)
  <2>1. c # o + 1 => c - 1 \in o + 1 .. n /\ c - 1 < n
    OBVIOUS
  <2>2. c # o + 1 => g[c - 1] = f[c - 1]
    BY <2>1
  <2>3. EntryAt(name, c, g) = EntryAt(name, c, f)
    <3> HIDE DEF g
    <3> QED
      BY <2>2 DEF EntryAt
  <2>4. CASE c = n
    <3>1. g[c] = EntryAt(name, n, f)
      BY <2>4
    <3> HIDE DEF g
    <3> QED
      BY <2>3, <2>4, <3>1
  <2>5. CASE c # n
    <3>1. c \in o + 1 .. n - 1 /\ n > o + 1 /\ c < n
      BY <2>5
    <3>2. g[c] = f[c]
      BY <3>1
    <3> HIDE DEF g
    <3>3. f[c] = EntryAt(name, c, f)
      BY <3>1, HasEntriesAt
    <3> QED
      BY <2>3, <3>2, <3>3
  <2> QED
    BY <2>4, <2>5
<1>2. g = [c \in o + 1 .. n |-> g[c]]
  OBVIOUS
<1> HIDE DEF g
<1> DEFINE h == [c \in o + 1 .. n |-> EntryAt(name, c, g)]
<1>3. g = h
  BY <1>1, <1>2
<1>4. HasEntries(name, g, n)
  BY <1>3 DEF HasEntries
<1> QED
  BY <1>4

LEMMA EntriesEquation ==
  ASSUME NEW name, Owner(name) \in Nat, Len(compilers) \in Nat, Owner(name) < Len(compilers)
  PROVE  HasEntries(name, Entries(name), Len(compilers))
<1> DEFINE o == Owner(name)
           Without == {n \in o + 1 .. Len(compilers) : ~ \E f : HasEntries(name, f, n)}
<1>1. ASSUME Without # {}
      PROVE  FALSE
  <2>1. PICK n \in Without : \A m \in Without : n <= m
    <3>1. Without \in SUBSET Nat
      OBVIOUS
    <3> HIDE DEF Without
    <3> QED
      BY <1>1, <3>1, LeastNatural
  <2>2. n \in o + 1 .. Len(compilers) /\ ~ \E f : HasEntries(name, f, n)
    OBVIOUS
  <2>3. n \in Nat /\ n > o /\ n <= Len(compilers)
    BY <2>2
  <2>4. n > o + 1 => \E f : HasEntries(name, f, n - 1)
    <3>1. ASSUME n > o + 1, ~ \E f : HasEntries(name, f, n - 1)
          PROVE  FALSE
      <4>1. n - 1 \in o + 1 .. Len(compilers)
        BY <2>3, <3>1
      <4>2. n - 1 \in Without
        BY <3>1, <4>1
      <4>3. n <= n - 1
        BY <2>1, <4>2
      <4> QED
        BY <2>3, <4>3
    <3> QED
      BY <3>1
  <2>5. \E f : n > o + 1 => HasEntries(name, f, n - 1)
    BY <2>4
  <2> HIDE DEF Without
  <2>6. \E f : HasEntries(name, f, n)
    BY <2>3, <2>5, EntriesExtended
  <2> QED
    BY <2>2, <2>6
<1>2. \E f : HasEntries(name, f, Len(compilers))
  <2>1. Len(compilers) \in o + 1 .. Len(compilers)
    OBVIOUS
  <2> QED
    BY <1>1, <2>1
<1>3. PICK f : HasEntries(name, f, Len(compilers))
  BY <1>2
<1> QED
  BY <1>3, Zenon DEF Entries, HasEntries, EntryAt, VarOf, Depth

\* up2 is up with the entry u, at p, where it was or at the end.
Extended(up, up2, u, p) ==
  /\ up2 \in Seq(UpvalueTypes) /\ Len(up2) \in {Len(up), Len(up) + 1}
  /\ \A k \in 1 .. Len(up) : up2[k] = up[k]
  /\ p \in 1 .. Len(up2)
  /\ p <= Len(up) => SameUpvalue(up[p], u)
  /\ Len(up2) > Len(up) => p = Len(up2) /\ up2[p] = u

\* Function after function inside o, the entries lead to o's i-th local.
Chain(cs, cs2, o, i, e, p) ==
  /\ o \in 1 .. Len(cs) /\ i \in 1 .. Len(cs[o].locals)
  /\ \A c \in 1 .. o : cs2[c].upvalues = cs[c].upvalues
  /\ \A c \in o + 1 .. Len(cs) :
       /\ Extended(cs[c].upvalues, cs2[c].upvalues, e[c], p[c])
       /\ e[c].var = cs[o].locals[i].var
       /\ IF c = o + 1 THEN e[c].isLocal /\ e[c].index = i
          ELSE ~ e[c].isLocal /\ e[c].index = p[c - 1]

LEMMA ChainReaches ==
  ASSUME NEW cs, NEW cs2, NEW o, NEW i, NEW e, NEW p, Shaped(cs), Leading(cs),
         Chain(cs, cs2, o, i, e, p), NEW c \in o + 1 .. Len(cs),
         c > o + 1 => cs2[c - 1].upvalues[p[c - 1]].var = cs[o].locals[i].var
  PROVE  cs2[c].upvalues[p[c]].var = cs[o].locals[i].var
<1> DEFINE up == cs[c].upvalues
           w == up[p[c]]
           v == cs[o].locals[i].var
<1>1. /\ o \in 1 .. Len(cs) /\ Len(cs) \in Nat /\ c \in 2 .. Len(cs) /\ c \in 1 .. Len(cs)
      /\ Len(up) \in Nat
  BY ShapedTypes DEF Chain
<1>2. /\ Extended(up, cs2[c].upvalues, e[c], p[c])
      /\ e[c].var = v
      /\ IF c = o + 1 THEN e[c].isLocal /\ e[c].index = i
         ELSE ~ e[c].isLocal /\ e[c].index = p[c - 1]
  BY DEF Chain
<1>3. CASE p[c] > Len(up)
  BY <1>1, <1>2, <1>3 DEF Extended
<1>4. CASE p[c] <= Len(up)
  <2>1. /\ p[c] \in 1 .. Len(up) /\ cs2[c].upvalues[p[c]] = w
        /\ w.index = e[c].index /\ w.isLocal = e[c].isLocal
    BY <1>1, <1>2, <1>4 DEF Extended, SameUpvalue
  <2>2. LeadsOn(cs, c, w)
    BY <1>1, <2>1 DEF Leading
  <2>3. CASE c = o + 1
    <3>1. w.isLocal /\ w.index = i /\ c - 1 = o
      BY <1>1, <1>2, <2>1, <2>3
    <3> HIDE DEF w
    <3>2. cs[c - 1].locals[i].var = w.var
      BY <2>2, <3>1 DEF LeadsOn
    <3> QED
      BY <2>1, <3>1, <3>2
  <2>4. CASE c # o + 1
    <3>1. /\ ~ w.isLocal /\ w.index = p[c - 1] /\ c - 1 \in o + 1 .. Len(cs) /\ c > o + 1
      BY <1>1, <1>2, <2>1, <2>4
    <3> HIDE DEF w
    <3>2. /\ p[c - 1] \in 1 .. Len(cs[c - 1].upvalues)
          /\ cs[c - 1].upvalues[p[c - 1]].var = w.var
      BY <2>2, <3>1 DEF LeadsOn
    <3>3. cs2[c - 1].upvalues[p[c - 1]] = cs[c - 1].upvalues[p[c - 1]]
      BY <3>1, <3>2 DEF Chain, Extended
    <3> QED
      BY <2>1, <3>1, <3>2, <3>3
  <2> QED
    BY <2>3, <2>4
<1>5. p[c] \in Int
  BY <1>1, <1>2 DEF Extended
<1> QED
  BY <1>1, <1>3, <1>4, <1>5

LEMMA ChainLeads ==
  ASSUME NEW cs, NEW cs2, NEW o, NEW i, NEW e, NEW p, Shaped(cs), Leading(cs), Alike(cs, cs2),
         Chain(cs, cs2, o, i, e, p)
  PROVE  /\ \A c \in o + 1 .. Len(cs) : cs2[c].upvalues[p[c]].var = cs[o].locals[i].var
         /\ Leading(cs2)
<1> DEFINE v == cs[o].locals[i].var
           Wrong == {c \in o + 1 .. Len(cs) : cs2[c].upvalues[p[c]].var # v}
<1>1. o \in 1 .. Len(cs) /\ o \in Nat /\ Len(cs) \in Nat
  BY ShapedTypes DEF Chain
<1>2. ASSUME Wrong # {}
      PROVE  FALSE
  <2>1. PICK c \in Wrong : \A d \in Wrong : c <= d
    <3>1. Wrong \in SUBSET Nat
      BY <1>1
    <3> HIDE DEF Wrong
    <3> QED
      BY <1>2, <3>1, LeastNatural
  <2>2. c \in o + 1 .. Len(cs) /\ cs2[c].upvalues[p[c]].var # v
    OBVIOUS
  <2>3. c > o + 1 => cs2[c - 1].upvalues[p[c - 1]].var = v
    <3>1. ASSUME c > o + 1, cs2[c - 1].upvalues[p[c - 1]].var # v
          PROVE  FALSE
      <4> HIDE DEF v
      <4>1. c - 1 \in o + 1 .. Len(cs)
        BY <1>1, <2>2, <3>1
      <4>2. c - 1 \in Wrong
        BY <3>1, <4>1
      <4>3. c <= c - 1
        BY <2>1, <4>2
      <4> QED
        BY <1>1, <2>2, <4>3
    <3> QED
      BY <3>1
  <2>4. cs2[c].upvalues[p[c]].var = v
    BY <2>2, <2>3, ChainReaches
  <2> QED
    BY <2>2, <2>4
<1>3. \A c \in o + 1 .. Len(cs) : cs2[c].upvalues[p[c]].var = v
  BY <1>2
<1>4. ASSUME NEW c \in 2 .. Len(cs2), NEW k \in 1 .. Len(cs2[c].upvalues)
      PROVE  LeadsOn(cs2, c, cs2[c].upvalues[k])
  <2> DEFINE u == cs2[c].upvalues[k]
  <2>1. /\ c \in 2 .. Len(cs) /\ c \in 1 .. Len(cs) /\ c - 1 \in 1 .. Len(cs)
        /\ Len(cs[c].upvalues) \in Nat /\ Len(cs[c - 1].upvalues) \in Nat
    BY <1>1, ShapedTypes DEF Alike
  \* The function around c has at least the upvalues it had.
  <2>2. \A j \in 1 .. Len(cs[c - 1].upvalues) :
           j \in 1 .. Len(cs2[c - 1].upvalues) /\ cs2[c - 1].upvalues[j] = cs[c - 1].upvalues[j]
    <3>1. CASE c - 1 \in 1 .. o
      BY <3>1 DEF Chain
    <3>2. CASE c - 1 \notin 1 .. o
      <4>1. c - 1 \in o + 1 .. Len(cs)
        BY <1>1, <2>1, <3>2
      <4>2. Extended(cs[c - 1].upvalues, cs2[c - 1].upvalues, e[c - 1], p[c - 1])
        BY <4>1 DEF Chain
      <4> QED
        BY <2>1, <4>2 DEF Extended
    <3> QED
      BY <3>1, <3>2
  <2>3. /\ Len(cs2[c - 1].locals) = Len(cs[c - 1].locals)
        /\ \A j \in 1 .. Len(cs[c - 1].locals) : cs2[c - 1].locals[j].var = cs[c - 1].locals[j].var
    BY <2>1 DEF Alike
  <2>4. CASE k \in 1 .. Len(cs[c].upvalues) /\ u = cs[c].upvalues[k]
    <3>1. LeadsOn(cs, c, u)
      BY <2>1, <2>4 DEF Leading
    <3> HIDE DEF u
    <3>2. LeadsOn(cs2, c, u)
      BY <2>2, <2>3, <3>1 DEF LeadsOn
    <3> QED
      BY <3>2 DEF u
  <2>5. CASE c \in o + 1 .. Len(cs) /\ u = e[c]
    <3>1. /\ u.var = v
          /\ IF c = o + 1 THEN u.isLocal /\ u.index = i ELSE ~ u.isLocal /\ u.index = p[c - 1]
      BY <2>5 DEF Chain
    <3> HIDE DEF u
    <3>2. CASE c = o + 1
      <4>1. c - 1 = o /\ i \in 1 .. Len(cs[o].locals)
        BY <1>1, <3>2 DEF Chain
      <4>2. LeadsOn(cs2, c, u)
        BY <2>3, <3>1, <3>2, <4>1 DEF LeadsOn
      <4> QED
        BY <4>2 DEF u
    <3>3. CASE c # o + 1
      <4>1. c - 1 \in o + 1 .. Len(cs)
        BY <1>1, <2>5, <3>3
      <4>2. p[c - 1] \in 1 .. Len(cs2[c - 1].upvalues) /\ cs2[c - 1].upvalues[p[c - 1]].var = v
        BY <1>3, <4>1 DEF Chain, Extended
      <4>3. LeadsOn(cs2, c, u)
        <5> HIDE DEF v
        <5> QED
          BY <3>1, <3>3, <4>2 DEF LeadsOn
      <4> QED
        BY <4>3 DEF u
    <3> QED
      BY <3>2, <3>3
  <2>6. \/ k \in 1 .. Len(cs[c].upvalues) /\ u = cs[c].upvalues[k]
        \/ c \in o + 1 .. Len(cs) /\ u = e[c]
    <3>1. CASE c \in 1 .. o
      BY <2>1, <3>1 DEF Chain
    <3>2. CASE c \notin 1 .. o
      <4>1. c \in o + 1 .. Len(cs)
        BY <1>1, <2>1, <3>2
      <4>2. Extended(cs[c].upvalues, cs2[c].upvalues, e[c], p[c])
        BY <4>1 DEF Chain
      <4> QED
        BY SMTT(40), <2>1, <4>1, <4>2 DEF Extended
    <3> QED
      BY <3>1, <3>2
  <2> QED
    BY <2>4, <2>5, <2>6
<1>5. Leading(cs2)
  BY <1>4 DEF Leading
<1> QED
  BY <1>3, <1>5

LEMMA UpvalueAdded ==
  ASSUME Shaped(compilers), NEW c \in 1 .. Len(compilers), NEW u \in UpvalueTypes,
         Position(c, u) <= MaxUpvalues
  PROVE  /\ Extended(compilers[c].upvalues, Added(c, u), u, Position(c, u))
         /\ Len(Added(c, u)) <= MaxUpvalues
<1> DEFINE up == compilers[c].upvalues
           p == Position(c, u)
<1>1. up \in Seq(UpvalueTypes) /\ Len(up) \in Nat
  BY ShapedTypes, CompilerType
<1>2. p \in 1 .. Len(up) + 1 /\ p <= MaxUpvalues /\ (p <= Len(up) => SameUpvalue(up[p], u))
  BY PositionFound
<1>3. Len(up) <= MaxUpvalues
  BY DEF Shaped
<1>4. Added(c, u) = IF p > Len(up) THEN Append(up, u) ELSE up
  BY DEF Added
<1> HIDE DEF up, p
<1>5. CASE p > Len(up)
  <2>1. p = Len(up) + 1
    BY <1>1, <1>2, <1>5
  <2>2. /\ Append(up, u) \in Seq(UpvalueTypes) /\ Len(Append(up, u)) = Len(up) + 1
        /\ \A k \in 1 .. Len(up) : Append(up, u)[k] = up[k]
        /\ Append(up, u)[Len(up) + 1] = u
    BY <1>1, Appended
  <2>3. Added(c, u) = Append(up, u)
    BY <1>4, <1>5
  <2> DEFINE a == Append(up, u)
  <2> HIDE DEF a
  <2>4. Extended(up, a, u, p) /\ Len(a) <= MaxUpvalues
    BY <1>1, <1>2, <2>1, <2>2 DEF Extended, a
  <2> QED
    BY <2>3, <2>4 DEF up, p, a
<1>6. CASE ~ p > Len(up)
  <2>1. Added(c, u) = up
    BY <1>4, <1>6
  <2>2. Extended(up, up, u, p)
    BY <1>1, <1>2, <1>6 DEF Extended
  <2> QED
    BY <1>3, <2>1, <2>2 DEF up, p
<1> QED
  BY <1>5, <1>6

\* The owner's compiler with the variable marked.
LEMMA OwnerMarked ==
  ASSUME NEW x \in CompilerTypes, NEW i \in 1 .. Len(x.locals), NEW y,
         y = [x EXCEPT !.locals = [@ EXCEPT ![i].isCaptured = TRUE]]
  PROVE  /\ y \in CompilerTypes /\ y.upvalues = x.upvalues /\ y.height = x.height
         /\ y.defines = x.defines /\ y.inParameters = x.inParameters
         /\ Len(y.locals) = Len(x.locals) /\ y.locals[i].isCaptured
         /\ \A j \in 1 .. Len(x.locals) :
              /\ y.locals[j].name = x.locals[j].name /\ y.locals[j].depth = x.locals[j].depth
              /\ y.locals[j].var = x.locals[j].var /\ y.locals[j].slot = x.locals[j].slot
              /\ x.locals[j].isCaptured => y.locals[j].isCaptured
<1> DEFINE l == [x.locals[i] EXCEPT !.isCaptured = TRUE]
           ls == [x.locals EXCEPT ![i] = l]
<1>1. x.locals \in Seq(LocalTypes) /\ x.locals[i] \in LocalTypes
  BY CompilerType
<1>2. /\ l \in LocalTypes /\ l.isCaptured = TRUE
      /\ l.name = x.locals[i].name /\ l.depth = x.locals[i].depth
      /\ l.var = x.locals[i].var /\ l.slot = x.locals[i].slot
  BY <1>1 DEF LocalTypes
<1>3. y = [x EXCEPT !.locals = ls]
  OBVIOUS
<1> HIDE DEF l
<1>4. /\ ls \in Seq(LocalTypes) /\ Len(ls) = Len(x.locals)
      /\ \A j \in 1 .. Len(x.locals) : ls[j] = IF j = i THEN l ELSE x.locals[j]
  BY <1>1, <1>2, ExceptSeq
<1> HIDE DEF ls
<1>5. /\ y \in CompilerTypes /\ y.upvalues = x.upvalues /\ y.height = x.height
      /\ y.defines = x.defines /\ y.inParameters = x.inParameters /\ y.locals = ls
  BY <1>3, <1>4 DEF CompilerTypes
<1> QED
  BY <1>2, <1>4, <1>5

LEMMA EntriesGiven ==
  ASSUME Shaped(compilers), NEW name, Owner(name) \in 1 .. Len(compilers), Owner(name) < Len(compilers),
         ResolveLocal(Owner(name), name) \in Nat \ {0}, VarOf(name) \in Nat,
         NEW c \in Owner(name) + 1 .. Len(compilers)
  PROVE  /\ Entries(name)[c] \in UpvalueTypes /\ Entries(name)[c].var = VarOf(name)
         /\ IF c = Owner(name) + 1
              THEN Entries(name)[c].isLocal /\ Entries(name)[c].index = ResolveLocal(Owner(name), name)
              ELSE /\ ~ Entries(name)[c].isLocal
                   /\ Entries(name)[c].index = Position(c - 1, Entries(name)[c - 1])
<1> DEFINE e == Entries(name)
           o == Owner(name)
           i == ResolveLocal(o, name)
           v == VarOf(name)
<1>1. Len(compilers) \in Nat /\ o \in Nat
  BY ShapedTypes
<1>2. e[c] = EntryAt(name, c, e)
  <2>1. HasEntries(name, e, Len(compilers))
    BY <1>1, EntriesEquation
  <2> HIDE DEF e
  <2> QED
    BY <2>1, HasEntriesAt
<1> HIDE DEF e
<1>3. CASE c = o + 1
  <2>1. e[c] = Upvalue(i, TRUE, v)
    BY <1>2, <1>3 DEF EntryAt
  <2>2. i \in Nat \ {0} /\ v \in Nat
    OBVIOUS
  <2> HIDE DEF i, v
  <2>3. e[c] \in UpvalueTypes /\ e[c].isLocal /\ e[c].index = i /\ e[c].var = v
    BY <2>1, <2>2 DEF Upvalue, UpvalueTypes
  <2> QED
    BY <1>3, <2>3 DEF e, i, v
<1>4. CASE c # o + 1
  <2> DEFINE p == Position(c - 1, e[c - 1])
  <2>1. e[c] = Upvalue(p, FALSE, v)
    BY <1>2, <1>4 DEF EntryAt
  <2>2. p \in Nat \ {0} /\ v \in Nat
    <3>1. c - 1 \in 1 .. Len(compilers)
      BY <1>1
    <3>2. Len(compilers[c - 1].upvalues) \in Nat
      BY <3>1, ShapedTypes
    <3> QED
      BY <3>1, <3>2, PositionFound
  <2> HIDE DEF p, v
  <2>3. e[c] \in UpvalueTypes /\ ~ e[c].isLocal /\ e[c].index = p /\ e[c].var = v
    BY <2>1, <2>2 DEF Upvalue, UpvalueTypes
  <2> QED
    BY <1>4, <2>3 DEF e, p, v
<1> QED
  BY <1>3, <1>4

\* A variable of an enclosing function is named, and every function between
\* has an entry for it.
Enclosed(name) ==
  LET o == Owner(name)
      i == ResolveLocal(o, name)
      e == Entries(name)
  IN  /\ o # 0 /\ o # Depth
      /\ \A c \in o + 1 .. Depth : ~ Position(c, e[c]) > MaxUpvalues
      /\ compilers' = [c \in 1 .. Depth |->
                         IF c < o THEN compilers[c]
                         ELSE IF c = o THEN [compilers[c] EXCEPT !.locals = Mark(o, i)]
                         ELSE [compilers[c] EXCEPT !.upvalues = Added(c, e[c])]]
      /\ last' = [name |-> name, from |-> "upvalue", arg |-> Position(Depth, e[Depth])]
      /\ captured' = captured \cup {Locals(o)[i].var}
      /\ failed' = failed /\ declared' = declared /\ unpopped' = unpopped

LEMMA EnclosedNamed ==
  ASSUME IndInv, NEW name \in Names, Enclosed(name)
  PROVE  IndInv'
<1> DEFINE o == Owner(name)
           i == ResolveLocal(o, name)
           e == Entries(name)
           v == VarOf(name)
           n == Len(compilers)
           p == [c \in o + 1 .. n |-> Position(c, e[c])]
<1>1. /\ Shaped(compilers) /\ n \in Nat \ {0} /\ declared \in Nat
      /\ Ordered(compilers, declared) /\ Initialized(compilers) /\ Leading(compilers)
      /\ Marked(compilers, captured) /\ captured \in SUBSET (1 .. declared)
      /\ ~ unpopped /\ ~ failed => Slotted(compilers)
  BY InvReady DEF Kept
<1>2. /\ o # 0 /\ o # n
      /\ \A c \in o + 1 .. n : ~ Position(c, e[c]) > MaxUpvalues
      /\ compilers' = [c \in 1 .. n |->
                         IF c < o THEN compilers[c]
                         ELSE IF c = o THEN [compilers[c] EXCEPT !.locals = Mark(o, i)]
                         ELSE [compilers[c] EXCEPT !.upvalues = Added(c, e[c])]]
      /\ last' = [name |-> name, from |-> "upvalue", arg |-> Position(n, e[n])]
      /\ captured' = captured \cup {v}
      /\ failed' = failed /\ declared' = declared /\ unpopped' = unpopped
  BY Zenon DEF Enclosed, Depth, VarOf
<1>3. Means(compilers, name, o, i)
  BY <1>1, <1>2, NameResolved
<1>4. /\ o \in 1 .. n /\ o < n /\ o \in Nat /\ i \in 2 .. Len(compilers[o].locals)
      /\ v = compilers[o].locals[i].var /\ v \in 1 .. declared
  <2>1. o \in 1 .. n /\ i \in 2 .. Len(compilers[o].locals)
    BY <1>3 DEF Means
  <2>2. v = compilers[o].locals[i].var
    BY DEF VarOf, Locals
  <2>3. compilers[o].locals[i].var \in 1 .. declared
    BY <1>1, <2>1 DEF Ordered
  <2> QED
    BY <1>1, <1>2, <2>1, <2>2, <2>3
<1>5. ASSUME NEW c \in o + 1 .. n
      PROVE  /\ e[c] \in UpvalueTypes /\ e[c].var = v
             /\ IF c = o + 1 THEN e[c].isLocal /\ e[c].index = i
                ELSE ~ e[c].isLocal /\ e[c].index = Position(c - 1, e[c - 1])
  <2>1. i \in Nat \ {0} /\ v \in Nat
    <3>1. Len(compilers[o].locals) \in Nat
      BY <1>1, <1>4, ShapedTypes
    <3> HIDE DEF i, v
    <3> QED
      BY <1>4, <3>1
  <2> QED
    BY <1>1, <1>4, <2>1, EntriesGiven
<1> HIDE DEF e, o, i, v, n
<1>6. ASSUME NEW c \in 1 .. n
      PROVE  compilers[c] \in CompilerTypes
  BY <1>1, ShapedTypes DEF n
<1>7. ASSUME NEW c \in o + 1 .. n
      PROVE  /\ c \in 1 .. n /\ p[c] = Position(c, e[c])
             /\ Extended(compilers[c].upvalues, Added(c, e[c]), e[c], p[c])
             /\ Len(Added(c, e[c])) <= MaxUpvalues
             /\ compilers'[c] = [compilers[c] EXCEPT !.upvalues = Added(c, e[c])]
  <2>1. c \in 1 .. n /\ ~ c < o /\ c # o
    BY <1>1, <1>4
  <2>2. Position(c, e[c]) <= MaxUpvalues
    <3>1. Position(c, e[c]) \in Nat
      <4>1. Len(compilers[c].upvalues) \in Nat
        BY <1>1, <2>1, ShapedTypes DEF n
      <4> QED
        BY <1>1, <2>1, <4>1, PositionFound DEF n
    <3> QED
      BY <1>2, <3>1, ScopesAssumption
  <2>3. /\ Extended(compilers[c].upvalues, Added(c, e[c]), e[c], Position(c, e[c]))
        /\ Len(Added(c, e[c])) <= MaxUpvalues
    BY <1>1, <1>5, <2>1, <2>2, UpvalueAdded DEF n
  <2>4. compilers'[c] = [compilers[c] EXCEPT !.upvalues = Added(c, e[c])]
    BY <1>2, <2>1
  <2> QED
    BY <2>1, <2>3, <2>4
<1>8. ASSUME NEW c \in o + 1 .. n
      PROVE  /\ compilers'[c] \in CompilerTypes /\ compilers'[c].upvalues = Added(c, e[c])
             /\ compilers'[c].locals = compilers[c].locals
             /\ compilers'[c].height = compilers[c].height /\ compilers'[c].defines = compilers[c].defines
             /\ compilers'[c].inParameters = compilers[c].inParameters
  <2> DEFINE a == Added(c, e[c])
             x == compilers[c]
  <2>1. a \in Seq(UpvalueTypes) /\ x \in CompilerTypes /\ compilers'[c] = [x EXCEPT !.upvalues = a]
    BY <1>6, <1>7 DEF Extended
  <2> HIDE DEF a, x
  <2>2. /\ [x EXCEPT !.upvalues = a] \in CompilerTypes /\ [x EXCEPT !.upvalues = a].upvalues = a
        /\ [x EXCEPT !.upvalues = a].locals = x.locals
        /\ [x EXCEPT !.upvalues = a].height = x.height /\ [x EXCEPT !.upvalues = a].defines = x.defines
        /\ [x EXCEPT !.upvalues = a].inParameters = x.inParameters
    BY <2>1 DEF CompilerTypes
  <2> QED
    BY <2>1, <2>2 DEF a, x
<1>9. /\ compilers'[o] \in CompilerTypes /\ compilers'[o].upvalues = compilers[o].upvalues
      /\ compilers'[o].height = compilers[o].height /\ compilers'[o].defines = compilers[o].defines
      /\ compilers'[o].inParameters = compilers[o].inParameters
      /\ Len(compilers'[o].locals) = Len(compilers[o].locals)
      /\ compilers'[o].locals[i].isCaptured
      /\ \A j \in 1 .. Len(compilers[o].locals) :
           /\ compilers'[o].locals[j].name = compilers[o].locals[j].name
           /\ compilers'[o].locals[j].depth = compilers[o].locals[j].depth
           /\ compilers'[o].locals[j].var = compilers[o].locals[j].var
           /\ compilers'[o].locals[j].slot = compilers[o].locals[j].slot
           /\ compilers[o].locals[j].isCaptured => compilers'[o].locals[j].isCaptured
  <2>1. compilers[o] \in CompilerTypes /\ i \in 1 .. Len(compilers[o].locals)
    BY <1>1, <1>4, <1>6, ShapedTypes DEF n
  <2>2. compilers'[o] = [compilers[o] EXCEPT !.locals = Mark(o, i)]
    BY <1>2, <1>4
  <2>3. compilers'[o] = [compilers[o] EXCEPT !.locals = [@ EXCEPT ![i].isCaptured = TRUE]]
    BY <2>1, <2>2 DEF Mark
  <2> QED
    BY <2>1, <2>3, OwnerMarked
<1>10. ASSUME NEW c \in 1 .. n, c < o
       PROVE  compilers'[c] = compilers[c]
  BY <1>2, <1>10
<1>11. \A c \in 1 .. n : c < o \/ c = o \/ c \in o + 1 .. n
  BY <1>1, <1>4
<1>12. compilers' \in Seq(CompilerTypes) /\ Len(compilers') = n
  <2>1. \A c \in 1 .. n : compilers'[c] \in CompilerTypes
    BY <1>6, <1>8, <1>9, <1>10, <1>11
  <2>2. compilers' = [c \in 1 .. n |-> compilers'[c]]
    <3> DEFINE f == [c \in 1 .. n |->
                       IF c < o THEN compilers[c]
                       ELSE IF c = o THEN [compilers[c] EXCEPT !.locals = Mark(o, i)]
                       ELSE [compilers[c] EXCEPT !.upvalues = Added(c, e[c])]]
    <3>1. f = [c \in 1 .. n |-> f[c]]
      OBVIOUS
    <3>2. compilers' = f
      BY <1>2
    <3> HIDE DEF f
    <3> QED
      BY <3>1, <3>2
  <2> DEFINE f == compilers'
  <2>3. f \in [1 .. n -> CompilerTypes]
    BY <2>1, <2>2
  <2> HIDE DEF f
  <2>4. f \in Seq(CompilerTypes) /\ Len(f) = n
    BY <1>1, <2>3
  <2> QED
    BY <2>4 DEF f
<1>13. Alike(compilers, compilers')
  <2>1. ASSUME NEW c \in 1 .. n
        PROVE  /\ Len(compilers'[c].locals) = Len(compilers[c].locals)
               /\ compilers'[c].height = compilers[c].height
               /\ compilers'[c].defines = compilers[c].defines
               /\ compilers'[c].inParameters = compilers[c].inParameters
               /\ \A j \in 1 .. Len(compilers[c].locals) :
                    /\ compilers'[c].locals[j].name = compilers[c].locals[j].name
                    /\ compilers'[c].locals[j].depth = compilers[c].locals[j].depth
                    /\ compilers'[c].locals[j].var = compilers[c].locals[j].var
                    /\ compilers'[c].locals[j].slot = compilers[c].locals[j].slot
                    /\ compilers[c].locals[j].isCaptured => compilers'[c].locals[j].isCaptured
    <3>1. CASE c < o
      BY <1>10, <3>1
    <3>2. CASE c = o
      BY <1>9, <3>2
    <3>3. CASE c \in o + 1 .. n
      BY <1>8, <3>3
    <3> QED
      BY <1>11, <3>1, <3>2, <3>3
  <2> QED
    BY <1>12, <2>1 DEF Alike, n
<1>14. Shaped(compilers')
  <2>1. ASSUME NEW c \in 1 .. n
        PROVE  /\ Len(compilers'[c].locals) \in 1 .. MaxLocals
               /\ compilers'[c].locals[1].name = NoName /\ compilers'[c].locals[1].depth = 0
               /\ compilers'[c].locals[1].var = 0
               /\ Len(compilers'[c].upvalues) <= MaxUpvalues
    <3>1. /\ Len(compilers[c].locals) \in 1 .. MaxLocals
          /\ compilers[c].locals[1].name = NoName /\ compilers[c].locals[1].depth = 0
          /\ compilers[c].locals[1].var = 0 /\ Len(compilers[c].upvalues) <= MaxUpvalues
      BY <1>1 DEF Shaped, n
    <3>2. 1 \in 1 .. Len(compilers[c].locals)
      BY <1>1, ShapedTypes DEF n
    <3>3. Len(compilers'[c].upvalues) <= MaxUpvalues
      <4>1. CASE c < o
        BY <1>10, <3>1, <4>1
      <4>2. CASE c = o
        BY <1>9, <3>1, <4>2
      <4>3. CASE c \in o + 1 .. n
        BY <1>7, <1>8, <4>3
      <4> QED
        BY <1>11, <4>1, <4>2, <4>3
    <3> QED
      BY <1>13, <3>1, <3>2, <3>3 DEF Alike, n
  <2>2. compilers'[1].upvalues = <<>>
    <3>1. compilers[1].upvalues = <<>> /\ 1 \in 1 .. n /\ (1 < o \/ 1 = o)
      BY <1>1, <1>4 DEF Shaped
    <3> QED
      BY <1>9, <1>10, <3>1
  <2>3. n \in 1 .. MaxFunctions
    BY <1>1 DEF Shaped, n
  <2> QED
    BY <1>12, <2>1, <2>2, <2>3 DEF Shaped
<1>15. Chain(compilers, compilers', o, i, e, p)
  <2>1. i \in 1 .. Len(compilers[o].locals)
    BY <1>1, <1>4, ShapedTypes DEF n
  <2>2. ASSUME NEW c \in 1 .. o
        PROVE  compilers'[c].upvalues = compilers[c].upvalues
    <3>1. c \in 1 .. n /\ (c < o \/ c = o)
      BY <1>1, <1>4
    <3> QED
      BY <1>9, <1>10, <3>1
  <2>3. ASSUME NEW c \in o + 1 .. n
        PROVE  /\ Extended(compilers[c].upvalues, compilers'[c].upvalues, e[c], p[c])
               /\ e[c].var = compilers[o].locals[i].var
               /\ IF c = o + 1 THEN e[c].isLocal /\ e[c].index = i
                  ELSE ~ e[c].isLocal /\ e[c].index = p[c - 1]
    <3>1. Extended(compilers[c].upvalues, compilers'[c].upvalues, e[c], p[c])
      BY <1>7, <1>8
    <3>2. c # o + 1 => p[c - 1] = Position(c - 1, e[c - 1])
      <4>1. c # o + 1 => c - 1 \in o + 1 .. n
        BY <1>1, <1>4
      <4> QED
        BY <4>1
    <3> HIDE DEF p
    <3> QED
      BY <1>4, <1>5, <3>1, <3>2
  <2> HIDE DEF p
  <2> QED
    BY <1>4, <2>1, <2>2, <2>3 DEF Chain, n
<1> HIDE DEF p
<1>16. /\ Leading(compilers')
       /\ \A c \in o + 1 .. n : compilers'[c].upvalues[p[c]].var = v
  BY <1>1, <1>4, <1>13, <1>15, ChainLeads DEF n
<1>17. /\ Ordered(compilers', declared) /\ Initialized(compilers')
       /\ Slotted(compilers) => Slotted(compilers')
  BY <1>1, <1>13, AlikeKeeps
<1>18. Marked(compilers', captured \cup {v})
  BY <1>1, <1>4, <1>9, <1>13, AlikeMarked DEF n
<1>19. Kept(compilers', declared', captured')
  BY <1>2, <1>14, <1>16, <1>17, <1>18 DEF Kept
<1>20. Flags'
  <2>1. captured \cup {v} \subseteq 1 .. declared
    BY <1>1, <1>4
  <2> QED
    BY <1>2, <2>1 DEF IndInv, Flags
<1>21. LexicalScope'
  <2>1. Means(compilers', name, o, i) /\ compilers'[o].locals[i].var = v
    BY <1>1, <1>3, <1>4, <1>13, AlikeMeans
  <2>2. n \in o + 1 .. n /\ n \in 2 .. n
    BY <1>1, <1>4
  <2>3. p[n] = Position(n, e[n]) /\ p[n] \in 1 .. Len(compilers'[n].upvalues)
    BY <1>7, <1>8, <2>2 DEF Extended
  <2>4. Reaches'[n][p[n]] = v
    BY <1>12, <1>14, <1>16, <2>2, <2>3, ReachesNext
  <2> QED
    BY <1>2, <1>12, <2>1, <2>3, <2>4, NamedUpvalue
<1> QED
  BY <1>1, <1>2, <1>17, <1>19, <1>20, <1>21 DEF IndInv

LEMMA VariableNamed ==
  ASSUME IndInv, NEW name \in Names, Name(name)
  PROVE  IndInv'
<1> DEFINE o == Owner(name)
           i == ResolveLocal(o, name)
           n == Len(compilers)
<1>1. Shaped(compilers) /\ Ordered(compilers, declared) /\ n \in Nat \ {0}
  BY InvReady DEF Kept
<1>2. \/ o = 0 /\ VarsOf(compilers, name) = {}
      \/ o # 0 /\ Means(compilers, name, o, i)
  <2>1. \/ o = 0 /\ VarsOf(compilers, name) = {}
        \/ Means(compilers, name, o, i)
    BY <1>1, NameResolved
  <2>2. Means(compilers, name, o, i) => o # 0
    BY <1>1 DEF Means
  <2> QED
    BY <2>1, <2>2
<1>3. ASSUME compilers' = compilers, failed' = failed, declared' = declared,
             captured' = captured, unpopped' = unpopped, LexicalScope'
      PROVE  IndInv'
  <2>1. Flags'
    BY <1>3 DEF IndInv, Flags
  <2>2. Kept(compilers', declared', captured') /\ (~ unpopped' /\ ~ failed' => Slotted(compilers'))
    BY <1>3 DEF IndInv
  <2> QED
    BY <1>3, <2>1, <2>2 DEF IndInv
<1>4. CASE Uninitialized(name)
  <2>1. Error /\ last' = NoReference
    BY <1>4, Zenon DEF Name
  <2> QED
    BY <2>1, ErrorStep
<1>5. CASE ~ Uninitialized(name) /\ o = 0
  <2>1. /\ last' = [name |-> name, from |-> "global", arg |-> 0]
        /\ compilers' = compilers /\ failed' = failed /\ declared' = declared
        /\ captured' = captured /\ unpopped' = unpopped
    <3>1. /\ last' = [name |-> name, from |-> "global", arg |-> 0]
          /\ UNCHANGED <<compilers, failed, declared, captured, unpopped>>
      <4>1. Owner(name) = 0 /\ Depth # 0 /\ ~ Uninitialized(name)
        BY <1>1, <1>5 DEF Depth
      <4>2. Owner(name) # Depth
        BY <4>1
      <4> HIDE DEF o, i, n
      <4> QED
        BY <4>1, <4>2, Zenon DEF Name
    <3> QED
      BY <3>1
  <2>2. VarsOf(compilers', name) = {}
    BY <1>2, <1>5, <2>1
  <2>3. LexicalScope'
    BY <2>1, <2>2, NamedGlobal
  <2> QED
    BY <1>3, <2>1, <2>3
<1>6. CASE ~ Uninitialized(name) /\ o = Depth /\ o # 0
  <2>1. /\ last' = [name |-> name, from |-> "local", arg |-> i]
        /\ compilers' = compilers /\ failed' = failed /\ declared' = declared
        /\ captured' = captured /\ unpopped' = unpopped
    BY <1>6 DEF Name
  <2>2. Means(compilers', name, Len(compilers'), i)
    <3> HIDE DEF i
    <3> QED
      BY <1>2, <1>6, <2>1 DEF Depth
  <2>3. LexicalScope'
    <3> HIDE DEF i
    <3> QED
      BY <2>1, <2>2, NamedLocal
  <2> QED
    BY <1>3, <2>1, <2>3
<1>7. CASE ~ Uninitialized(name) /\ o # 0 /\ o # Depth
  <2>1. CASE \E c \in o + 1 .. Depth : Position(c, Entries(name)[c]) > MaxUpvalues
    <3>1. Error /\ last' = NoReference
      BY <1>7, <2>1 DEF Name
    <3> QED
      BY <3>1, ErrorStep
  <2>2. CASE ~ \E c \in o + 1 .. Depth : Position(c, Entries(name)[c]) > MaxUpvalues
    <3>1. Enclosed(name)
      BY <1>7, <2>2 DEF Name, Enclosed
    <3> QED
      BY <3>1, EnclosedNamed
  <2> QED
    BY <2>1, <2>2
<1> QED
  BY <1>4, <1>5, <1>6, <1>7

-----------------------------------------------------------------------------
(* The theorems *)

LEMMA InvInitially ==
  Init => IndInv
<1> SUFFICES ASSUME Init
             PROVE  IndInv
  OBVIOUS
<1> DEFINE b_ == FALSE
           y == NewCompiler(0, b_)
<1>1. /\ compilers = <<y>> /\ last = NoReference /\ declared = 0 /\ captured = {} /\ b_ \in BOOLEAN
      /\ failed \in BOOLEAN /\ unpopped \in BOOLEAN
  BY DEF Init
<1> HIDE DEF b_
<1>14. ~ y.inParameters
  <2>1. (0 > 0) = FALSE
    OBVIOUS
  <2>2. y.inParameters = FALSE
    BY <2>1, Zenon DEF NewCompiler
  <2> QED
    BY <2>2
<1>2. /\ y \in CompilerTypes /\ Len(y.locals) = 1 /\ Rooted(y)
      /\ y.locals[1].slot = 1 /\ y.upvalues = <<>> /\ y.height = 1
  <2> DEFINE s_ == 0
  <2>1. s_ \in {0, 1}
    OBVIOUS
  <2> HIDE DEF s_
  <2>2. /\ NewCompiler(s_, b_) \in CompilerTypes
        /\ Len(NewCompiler(s_, b_).locals) = 1 /\ Rooted(NewCompiler(s_, b_))
        /\ NewCompiler(s_, b_).locals[1].slot = 1
        /\ NewCompiler(s_, b_).upvalues = <<>> /\ NewCompiler(s_, b_).height = 1
    BY <1>1, <2>1, NewCompilerShape
  <2> QED
    BY <2>2 DEF s_
<1> HIDE DEF y
<1>3. /\ compilers \in Seq(CompilerTypes) /\ Len(compilers) = 1 /\ compilers[1] = y
      /\ \A c \in 1 .. Len(compilers) : c = 1
  BY <1>1, <1>2
<1>4. Len(<<>>) = 0
  OBVIOUS
<1>5. Shaped(compilers)
  <2>1. 1 \in 1 .. MaxLocals /\ 1 \in 1 .. MaxFunctions /\ 0 <= MaxUpvalues
    BY ScopesAssumption
  <2>2. /\ Len(y.locals) \in 1 .. MaxLocals
        /\ y.locals[1].name = NoName /\ y.locals[1].depth = 0 /\ y.locals[1].var = 0
        /\ Len(y.upvalues) <= MaxUpvalues
    BY <1>2, <1>4, <2>1 DEF Rooted
  <2>3. Len(compilers) \in 1 .. MaxFunctions
    BY <1>3, <2>1
  <2> QED
    BY <1>2, <1>3, <2>2, <2>3 DEF Shaped
<1>6. Ordered(compilers, declared)
  <2>1. ASSUME NEW c \in 1 .. Len(compilers), NEW i \in 2 .. Len(compilers[c].locals)
        PROVE  FALSE
    <3>1. Len(compilers[c].locals) = 1
      BY <1>2, <1>3
    <3> QED
      BY <3>1
  <2> QED
    BY <2>1 DEF Ordered
<1>7. Filled(y)
  BY <1>2, <1>14 DEF Filled
<1>8. Initialized(compilers)
  BY <1>3, <1>7 DEF Initialized
<1>9. Leading(compilers)
  BY <1>3 DEF Leading
<1>10. Marked(compilers, captured)
  BY <1>1 DEF Marked
<1>11. Slotted(compilers)
  <2>1. AtTop(y)
    BY <1>2 DEF AtTop, Rooted
  <2>2. ~ Awaited(compilers, 1)
    BY <1>2, <1>3 DEF Awaited, Rooted
  <2>3. y.locals[Len(y.locals)].depth # -1
    BY <1>2 DEF Rooted
  <2> QED
    BY <1>3, <2>1, <2>2, <2>3 DEF Slotted, AtTop
<1>12. Flags
  <2>1. 0 \in 0 .. MaxDeclarations /\ {} \subseteq 1 .. 0
    BY ScopesAssumption
  <2> QED
    BY <1>1, <2>1 DEF Flags
<1>13. LexicalScope
  BY <1>1, Zenon DEF LexicalScope
<1> QED
  BY <1>5, <1>6, <1>8, <1>9, <1>10, <1>11, <1>12, <1>13 DEF IndInv, Kept

\* LexicalScope as a statement about any compilers and reference.
LexicalIn(cs, ref) ==
  ref # NoReference =>
    LET reaches == CHOOSE f :
                     f = [c \in 2 .. Len(cs) |->
                           [k \in 1 .. Len(cs[c].upvalues) |->
                              LET u == cs[c].upvalues[k]
                              IN  IF u.isLocal
                                    THEN IF u.index <= Len(cs[c - 1].locals)
                                           THEN cs[c - 1].locals[u.index].var ELSE 0
                                    ELSE IF c > 2 /\ u.index <= Len(cs[c - 1].upvalues)
                                           THEN f[c - 1][u.index] ELSE 0]]
        means == CASE ref.from = "local" -> cs[Len(cs)].locals[ref.arg].var
                   [] ref.from = "upvalue" -> reaches[Len(cs)][ref.arg]
                   [] OTHER -> 0
    IN  IF VarsOf(cs, ref.name) = {} THEN ref.from = "global"
        ELSE means \in VarsOf(cs, ref.name) /\ \A v \in VarsOf(cs, ref.name) : v <= means

LEMMA LexicalNow ==
  /\ LexicalScope <=> LexicalIn(compilers, last)
  /\ LexicalScope' <=> LexicalIn(compilers', last')
BY Zenon DEF LexicalScope, LexicalIn, InScope, VarsOf, Named, NamedIn, Locals, Depth, current, Reaches

LEMMA InvKept ==
  IndInv /\ [Next]_vars => IndInv'
<1> SUFFICES ASSUME IndInv, [Next]_vars
             PROVE  IndInv'
  OBVIOUS
<1>1. ASSUME NEW name \in Names, BeginLet(name)
      PROVE  IndInv'
  BY <1>1, LetBegun
<1>2. ASSUME NEW name \in Names, Parameter(name)
      PROVE  IndInv'
  BY <1>2, ParameterRead
<1>3. ASSUME NEW name \in Names, BeginNamed(name)
      PROVE  IndInv'
  BY <1>3, NamedFunctionBegun
<1>4. ASSUME NEW name \in Names, Name(name)
      PROVE  IndInv'
  BY <1>4, VariableNamed
<1>5. CASE EndLet
  BY <1>5, LetEnded
<1>6. CASE EndParameters
  BY <1>6, ParametersEnded
<1>7. CASE BeginScope
  BY <1>7, ScopeBegun
<1>8. CASE EndScope
  BY <1>8, ScopeEnded
<1>9. CASE BeginFunction
  BY <1>9, FunctionBegun
<1>10. CASE EndFunction
  BY <1>10, FunctionEnded
<1>11. CASE Unterminated
  BY <1>11, StatementUnterminated
<1>12. CASE UNCHANGED vars
  <2>1. /\ compilers' = compilers /\ failed' = failed /\ last' = last /\ declared' = declared
        /\ captured' = captured /\ unpopped' = unpopped
    BY <1>12 DEF vars
  <2>2. Flags'
    BY <2>1 DEF IndInv, Flags
  <2>3. Kept(compilers', declared', captured') /\ (~ unpopped' /\ ~ failed' => Slotted(compilers'))
    BY <2>1 DEF IndInv
  <2>4. LexicalScope'
    <3>1. LexicalScope
      BY DEF IndInv
    <3> QED
      BY <2>1, <3>1, LexicalNow, Zenon
  <2> QED
    BY <2>2, <2>3, <2>4 DEF IndInv
<1> QED
  BY <1>1, <1>2, <1>3, <1>4, <1>5, <1>6, <1>7, <1>8, <1>9, <1>10, <1>11, <1>12 DEF Next

\* Whatever the source text, the compiler keeps its books in order: at any
\* moment every local, upvalue and height of every function being compiled is
\* what IndInv says.
THEOREM ScopesInv ==
  Spec => []IndInv
<1>1. Init => IndInv
  BY InvInitially
<1>2. IndInv /\ [Next]_vars => IndInv'
  BY InvKept
<1> QED
  BY <1>1, <1>2, PTL DEF Spec

\* add_local and add_upvalue never number more than fits in the byte of an
\* instruction, for any number of functions, scopes and declarations.
THEOREM ScopesTypeOK ==
  Spec => []TypeOK
<1>1. IndInv => TypeOK
  <2> SUFFICES ASSUME IndInv
               PROVE  TypeOK
    OBVIOUS
  <2>1. Shaped(compilers) /\ Flags
    BY DEF IndInv, Kept
  <2>2. ASSUME NEW c \in 1 .. Len(compilers)
        PROVE  /\ Len(compilers[c].locals) \in 1 .. MaxLocals
               /\ \A i \in 1 .. Len(compilers[c].locals) : LocalType(compilers[c].locals[i])
               /\ Len(compilers[c].upvalues) <= MaxUpvalues
               /\ compilers[c].scope \in 0 .. MaxScopes
    <3>1. \A i \in 1 .. Len(compilers[c].locals) : compilers[c].locals[i] \in LocalTypes
      BY <2>1, ShapedTypes
    <3>2. \A i \in 1 .. Len(compilers[c].locals) : LocalType(compilers[c].locals[i])
      BY <3>1 DEF LocalType, LocalTypes
    <3>3. compilers[c].scope \in 0 .. MaxScopes
      BY <2>1, ShapedTypes, CompilerType
    <3> QED
      BY <2>1, <3>2, <3>3 DEF Shaped
  <2> QED
    BY <2>1, <2>2 DEF TypeOK, Flags, Shaped, Depth, Locals
<1> QED
  BY <1>1, ScopesInv, PTL

\* The index that OP_CLOSURE is given for an upvalue leads, function by
\* function outwards, to the variable resolve_upvalue found for the name, and
\* goes on to do so whatever scopes are opened and closed meanwhile.
THEOREM ScopesUpvaluesLead ==
  Spec => []UpvaluesLead
<1>1. IndInv => UpvaluesLead
  <2> SUFFICES ASSUME IndInv
               PROVE  UpvaluesLead
    OBVIOUS
  <2>1. Shaped(compilers) /\ Leading(compilers)
    BY DEF IndInv, Kept
  <2>2. \A c \in 2 .. Len(compilers) : \A k \in 1 .. Len(compilers[c].upvalues) :
           Reaches[c][k] = compilers[c].upvalues[k].var
    BY <2>1, ReachesNow
  <2> HIDE DEF Reaches
  <2> QED
    BY <2>2 DEF UpvaluesLead, Depth
<1> QED
  BY <1>1, ScopesInv, PTL

\* named_variable resolves a name to the latest declaration whose scope is
\* open, through any number of functions, and to a global only without one.
THEOREM ScopesLexicalScope ==
  Spec => []LexicalScope
<1>1. IndInv => LexicalScope
  BY DEF IndInv
<1> QED
  BY <1>1, ScopesInv, PTL

\* end_scope emits OP_CLOSE_UPVALUE for every local that a function captured.
THEOREM ScopesCapturedMarked ==
  Spec => []CapturedMarked
<1>1. IndInv => CapturedMarked
  BY DEF IndInv, Kept, Marked, CapturedMarked, Depth, Locals
<1> QED
  BY <1>1, ScopesInv, PTL

\* A local's index in the compiler is its slot on the stack, and between
\* statements nothing else is there, if every statement has its semicolon.
THEOREM ScopesLocalsAtSlots ==
  Spec => []LocalsAtSlots
<1>1. IndInv => LocalsAtSlots
  <2> SUFFICES ASSUME IndInv, ~ unpopped, ~ failed
               PROVE  \A c \in 1 .. Depth :
                        /\ \A i \in 1 .. Len(Locals(c)) :
                             Locals(c)[i].depth >= 0 => Locals(c)[i].slot = i
                        /\ c = Depth /\ AtStatement => compilers[c].height = Len(Locals(c))
    BY DEF LocalsAtSlots
  <2>1. Slotted(compilers) /\ AtTop(current) /\ current = compilers[Len(compilers)]
    BY InvReady
  <2>2. AtStatement => current.height = Len(current.locals)
    BY <2>1, Settled DEF AtTop, AtStatement
  <2> QED
    BY <2>1, <2>2 DEF Slotted, Depth, Locals
<1> QED
  BY <1>1, ScopesInv, PTL
=============================================================================
