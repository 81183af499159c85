---------------------------- MODULE CallsProofs ----------------------------
(***************************************************************************)
(* Proofs about Calls, for any number of frames, any arity and any nesting *)
(* of scripts and native functions: frames do not overlap, every           *)
(* activation of run() returns when its own frames are used up, natives    *)
(* find their arguments, and no callee touches what its caller left on the *)
(* stack.                                                                  *)
(***************************************************************************)
EXTENDS Calls, SequenceTheorems, TLAPS

IsRun(i) == active[i].kind = "run"

IsNative(i) == active[i].kind = "native"

-----------------------------------------------------------------------------
(* The inductive invariant *)

HeightBound == Height <= MaxStack

\* Frames do not overlap, each with all those above it, and end within the stack.
FramesApart ==
  \A k \in 1 .. Len(frames) :
    /\ frames[k].slots <= frames[k].base /\ frames[k].base <= Height
    /\ stack[frames[k].slots] = "closure"
    /\ frames[k].base - frames[k].slots \in {0, Arity}
    /\ \A l \in 1 .. k - 1 : frames[l].base < frames[k].slots

\* run() is entered by the host or by a native function.
RunsUnderNatives ==
  \A i \in 1 .. Len(active) :
    /\ active[i].kind # "broken"
    /\ IsRun(i) /\ i > 1 => IsNative(i - 1)

\* Every activation of run() has a frame that the activations inside it do not
\* have, the outermost has all there are, and without one there are none.
RunsHaveFrames ==
  /\ \A i \in 1 .. Len(active) :
       IsRun(i) =>
         /\ active[i].target < Len(frames)
         /\ \A j \in 1 .. i - 1 : IsRun(j) => active[j].target < active[i].target
         /\ (\A j \in 1 .. i - 1 : ~IsRun(j)) => active[i].target = 0
  /\ (\A i \in 1 .. Len(active) : ~IsRun(i)) => frames = <<>>

\* A native's callee and arguments lie above every frame that was there when it
\* was called, and above what the natives around it have.
NativesApart ==
  \A i \in 1 .. Len(active) :
    IsNative(i) =>
      /\ active[i].base <= Height
      /\ active[i].args < active[i].base
      /\ \A k \in 1 .. Len(frames) :
           (\A j \in i + 1 .. Len(active) : IsRun(j) => k <= active[j].target)
             => frames[k].base < active[i].base - active[i].args
      /\ \A j \in 1 .. i - 1 :
           IsNative(j) => active[j].base < active[i].base - active[i].args

\* The first frame of an activation of run() lies above what the natives around
\* it have.
RunsApart ==
  \A i \in 1 .. Len(active) :
    IsRun(i) =>
      \A j \in 1 .. i - 1 :
        IsNative(j) => active[j].base < frames[active[i].target + 1].slots

Nested ==
  /\ FramesApart
  /\ RunsUnderNatives
  /\ RunsHaveFrames
  /\ NativesApart
  /\ RunsApart

\* After an error the stack and the frames are gone, and nothing is promised.
IndInv ==
  /\ TypeOK
  /\ HeightBound
  /\ ~error => Nested

-----------------------------------------------------------------------------
(* Lemmas about sequences *)

\* A sequence with an element has a last one.
LEMMA Last ==
  ASSUME NEW S, NEW s \in Seq(S), s # <<>>
  PROVE  Len(s) \in Nat /\ Len(s) >= 1 /\ s[Len(s)] \in S
<1>1. Len(s) \in Nat /\ Len(s) >= 1
  BY EmptySeq, LenProperties
<1> QED
  BY <1>1, ElementOfSeq

\* A sequence with a new last element.
LEMMA PushBack ==
  ASSUME NEW S, NEW s \in Seq(S), NEW x \in S, NEW t, t = Append(s, x)
  PROVE  /\ t \in Seq(S) /\ Len(t) = Len(s) + 1 /\ Len(s) \in Nat /\ t[Len(s) + 1] = x
         /\ \A i \in 1 .. Len(s) : t[i] = s[i]
<1>1. /\ Len(s) \in Nat /\ Append(s, x) \in Seq(S) /\ Len(Append(s, x)) = Len(s) + 1
      /\ Append(s, x)[Len(s) + 1] = x
      /\ \A i \in 1 .. Len(s) : Append(s, x)[i] = s[i]
  BY AppendProperties, LenProperties
<1> QED
  BY <1>1

\* The first elements of a sequence.
LEMMA Prefix ==
  ASSUME NEW S, NEW s \in Seq(S), NEW n \in 0 .. Len(s), NEW t, t = SubSeq(s, 1, n)
  PROVE  t \in Seq(S) /\ Len(t) = n /\ \A i \in 1 .. n : t[i] = s[i]
<1>1. Len(s) \in Nat /\ \A i \in 1 .. n : s[i] \in S
  BY LenProperties, ElementOfSeq
<1>2. /\ SubSeq(s, 1, n) \in Seq(S)
      /\ Len(SubSeq(s, 1, n)) = IF 1 <= n THEN n - 1 + 1 ELSE 0
      /\ \A i \in 1 .. n - 1 + 1 : SubSeq(s, 1, n)[i] = s[1 + i - 1]
  BY <1>1, SubSeqProperties
<1> QED
  BY <1>1, <1>2

-----------------------------------------------------------------------------
(* Types *)

FrameSet == [slots : 1 .. MaxStack, base : 1 .. MaxStack]

Activations ==
  [kind : {"run", "native", "broken"}, target : 0 .. FramesMax,
   args : Arguments, base : 0 .. MaxStack]

LEMMA Types ==
  ASSUME TypeOK
  PROVE  /\ stack \in Seq(Values) /\ Height \in Nat /\ Height = Len(stack)
         /\ frames \in Seq(FrameSet) /\ Len(frames) \in 0 .. FramesMax
         /\ \A k \in 1 .. Len(frames) : frames[k] \in FrameSet
         /\ \A k \in 1 .. Len(frames) : frames[k].slots \in Nat /\ frames[k].base \in Nat
         /\ active \in Seq(Activations) /\ Len(active) \in Nat
         /\ \A i \in 1 .. Len(active) : active[i] \in Activations
         /\ \A i \in 1 .. Len(active) :
              active[i].target \in Nat /\ active[i].args \in Nat /\ active[i].base \in Nat
<1>1. /\ stack \in Seq(Values) /\ frames \in Seq(FrameSet) /\ active \in Seq(Activations)
      /\ Len(frames) <= FramesMax
  BY DEF TypeOK, FrameSet, Activations
<1>2. Len(stack) \in Nat /\ Len(frames) \in Nat /\ Len(active) \in Nat
  BY <1>1, LenProperties
<1>3. \A k \in 1 .. Len(frames) : frames[k] \in FrameSet
  BY <1>1, ElementOfSeq
<1>4. \A i \in 1 .. Len(active) : active[i] \in Activations
  BY <1>1, ElementOfSeq
<1>5. \A k \in 1 .. Len(frames) : frames[k].slots \in Nat /\ frames[k].base \in Nat
  BY <1>3, CallsAssumption DEF FrameSet
<1>6. \A i \in 1 .. Len(active) :
        active[i].target \in Nat /\ active[i].args \in Nat /\ active[i].base \in Nat
  BY <1>4, CallsAssumption DEF Activations, Arguments
<1> QED
  BY <1>1, <1>2, <1>3, <1>4, <1>5, <1>6, CallsAssumption DEF Height

\* A new activation is one.
LEMMA NewActivation ==
  ASSUME TypeOK, HeightBound
  PROVE  /\ \A n \in Arguments : Native(n) \in Activations
         /\ \A n \in 0 .. FramesMax : Run(n) \in Activations
<1>1. Height \in 0 .. MaxStack
  BY Types, CallsAssumption DEF HeightBound
<1> QED
  BY <1>1, CallsAssumption DEF Native, Run, Activations, Arguments

\* While the interpreter runs, the last frame is the highest of all that is held.
LEMMA RunTop ==
  ASSUME IndInv, ~error, Running
  PROVE  /\ active # <<>> /\ Len(active) >= 1 /\ IsRun(Len(active))
         /\ Innermost.target < Len(frames) /\ Innermost.target \in Nat /\ Len(frames) >= 1
         /\ Frame = frames[Len(frames)] /\ Frame \in FrameSet
         /\ Frame.slots \in Nat /\ Frame.slots >= 1 /\ Frame.base \in Nat
         /\ Frame.slots <= Frame.base /\ Frame.base <= Height
         /\ \A k \in 1 .. Len(frames) : frames[k].base <= Frame.base
         /\ \A k \in 1 .. Len(frames) - 1 : frames[k].base < Frame.slots
         /\ \A i \in 1 .. Len(active) : IsNative(i) => active[i].base < Frame.slots
<1> USE Types DEF IndInv
<1> DEFINE t == Innermost.target
<1>1. active # <<>> /\ Len(active) >= 1 /\ IsRun(Len(active))
  BY Last DEF Running, Innermost, IsRun
<1>2. t < Len(frames) /\ t \in Nat /\ Len(frames) >= 1
  BY <1>1 DEF Nested, RunsHaveFrames, Innermost
<1>3. Frame = frames[Len(frames)] /\ Frame \in FrameSet
  BY <1>2 DEF Frame
<1>4. Frame.slots \in Nat /\ Frame.slots >= 1 /\ Frame.base \in Nat
  BY <1>3, CallsAssumption DEF FrameSet
<1>5. /\ Frame.slots <= Frame.base /\ Frame.base <= Height
      /\ \A k \in 1 .. Len(frames) - 1 : frames[k].base < Frame.slots
  BY <1>2, <1>3 DEF Nested, FramesApart
<1>6. \A k \in 1 .. Len(frames) : frames[k].base <= Frame.base
  <2> TAKE k \in 1 .. Len(frames)
  <2>1. CASE k = Len(frames)
    BY <1>3, <1>4, <2>1
  <2>2. CASE k # Len(frames)
    BY <1>4, <1>5, <2>2
  <2> QED
    BY <2>1, <2>2
<1>7. frames[t + 1].slots <= Frame.slots /\ frames[t + 1].slots \in Nat
  <2>1. t + 1 \in 1 .. Len(frames)
    BY <1>2
  <2>2. CASE t + 1 = Len(frames)
    BY <1>3, <1>4, <2>2
  <2>3. CASE t + 1 # Len(frames)
    <3> DEFINE l == t + 1
    <3>1. l \in 1 .. Len(frames) /\ l \in 1 .. Len(frames) - 1
      BY <1>2, <2>1, <2>3
    <3> HIDE DEF l
    <3>2. frames[l].base < Frame.slots /\ frames[l].slots <= frames[l].base
      BY <1>5, <3>1 DEF Nested, FramesApart
    <3>3. frames[l].base \in Nat /\ frames[l].slots \in Nat
      BY <3>1
    <3>4. frames[l].slots <= Frame.slots
      BY <1>4, <3>2, <3>3
    <3> QED
      BY <3>3, <3>4 DEF l
  <2> QED
    BY <2>2, <2>3
<1>8. ASSUME NEW i \in 1 .. Len(active), IsNative(i)
      PROVE  active[i].base < Frame.slots
  <2>1. i \in 1 .. Len(active) - 1
    BY <1>1, <1>8 DEF IsRun, IsNative
  <2>2. active[i].base < frames[t + 1].slots
    BY <1>1, <1>8, <2>1 DEF Nested, RunsApart, Innermost
  <2> QED
    BY <1>4, <1>7, <2>2
<1> QED
  BY <1>1, <1>2, <1>3, <1>4, <1>5, <1>6, <1>8

\* While a native function runs, what it has pushed lies above all that is held.
LEMMA NativeTop ==
  ASSUME IndInv, ~error, InNative
  PROVE  /\ active # <<>> /\ Len(active) >= 1 /\ IsNative(Len(active))
         /\ Innermost.base \in Nat /\ Innermost.args \in Nat
         /\ Innermost.args < Innermost.base /\ Innermost.base <= Height
         /\ \A k \in 1 .. Len(frames) : frames[k].base < Innermost.base - Innermost.args
         /\ \A i \in 1 .. Len(active) - 1 :
              IsNative(i) => active[i].base < Innermost.base - Innermost.args
<1> USE Types DEF IndInv
<1>1. active # <<>> /\ Len(active) >= 1 /\ IsNative(Len(active))
  BY Last DEF InNative, Innermost, IsNative
<1>2. Innermost.base \in Nat /\ Innermost.args \in Nat
  BY <1>1 DEF Innermost
<1>3. /\ Innermost.args < Innermost.base /\ Innermost.base <= Height
      /\ \A k \in 1 .. Len(frames) : frames[k].base < Innermost.base - Innermost.args
      /\ \A i \in 1 .. Len(active) - 1 :
           IsNative(i) => active[i].base < Innermost.base - Innermost.args
  BY <1>1 DEF Nested, NativesApart, Innermost
<1> QED
  BY <1>1, <1>2, <1>3

\* The host has the C stack and the frames for itself.
LEMMA IdleTop ==
  ASSUME IndInv, ~error, Idle
  PROVE  active = <<>> /\ Len(active) = 0 /\ frames = <<>> /\ Len(frames) = 0
<1>1. active = <<>> /\ Len(active) = 0
  BY DEF Idle
<1> QED
  BY <1>1 DEF IndInv, Nested, RunsHaveFrames

-----------------------------------------------------------------------------
(* Kinds of step *)

LEMMA InitInv ==
  ASSUME Init
  PROVE  IndInv
<1>1. /\ stack = <<>> /\ frames = <<>> /\ active = <<>>
      /\ Len(stack) = 0 /\ Len(frames) = 0 /\ Len(active) = 0
  BY DEF Init
<1>2. stack \in Seq(Values) /\ frames \in Seq(FrameSet) /\ active \in Seq(Activations)
  BY <1>1, EmptySeq
<1>3. TypeOK
  <2>1. error \in BOOLEAN /\ steps \in Nat /\ result \in Results
    BY DEF Init, Results
  <2>2. Len(frames) <= FramesMax
    BY <1>1, CallsAssumption
  <2> QED
    BY <1>2, <2>1, <2>2 DEF TypeOK, FrameSet, Activations
<1>5. HeightBound
  BY <1>1, CallsAssumption DEF HeightBound, Height
<1>4. Nested
  BY <1>1 DEF Nested, FramesApart, RunsUnderNatives, RunsHaveFrames, NativesApart, RunsApart
<1> QED
  BY <1>3, <1>4, <1>5 DEF IndInv

\* What the types of the next state come to.
LEMMA NextTypes ==
  ASSUME stack' \in Seq(Values), Len(stack') <= MaxStack,
         frames' \in Seq(FrameSet), Len(frames') <= FramesMax,
         active' \in Seq(Activations),
         error' \in BOOLEAN, steps' \in Nat, result' \in Results
  PROVE  TypeOK' /\ HeightBound'
BY DEF TypeOK, HeightBound, Height, FrameSet, Activations, Arguments

\* The types of what a step leaves alone.
LEMMA OldTypes ==
  ASSUME IndInv
  PROVE  /\ stack \in Seq(Values) /\ Len(stack) <= MaxStack
         /\ frames \in Seq(FrameSet) /\ Len(frames) <= FramesMax
         /\ active \in Seq(Activations)
         /\ error \in BOOLEAN /\ steps \in Nat /\ result \in Results
         /\ NextStep \in Nat
<1>1. steps \in Nat /\ error \in BOOLEAN /\ result \in Results
  BY DEF IndInv, TypeOK
<1>2. NextStep \in Nat
  BY <1>1 DEF NextStep
<1> QED
  BY <1>1, <1>2, Types DEF IndInv, HeightBound

\* An error forgets the stack and the frames.
LEMMA RaiseInv ==
  ASSUME IndInv, Raise, active' \in Seq(Activations), steps' \in Nat, result' \in Results
  PROVE  IndInv'
<1>1. /\ stack' = <<>> /\ frames' = <<>> /\ error' = TRUE
      /\ Len(stack') = 0 /\ Len(frames') = 0
  BY DEF Raise
<1>2. stack' \in Seq(Values) /\ frames' \in Seq(FrameSet)
  BY <1>1, EmptySeq
<1>3. TypeOK' /\ HeightBound'
  BY <1>1, <1>2, CallsAssumption, NextTypes
<1> QED
  BY <1>1, <1>3 DEF IndInv

\* What is left of the C stack when the innermost activation returns.
LEMMA OuterType ==
  ASSUME IndInv, active # <<>>, NEW outer, outer = Outer
  PROVE  /\ outer \in Seq(Activations) /\ Len(outer) = Len(active) - 1
         /\ Len(active) \in Nat /\ Len(active) >= 1
         /\ \A i \in 1 .. Len(active) - 1 : outer[i] = active[i]
<1>1. active \in Seq(Activations) /\ Len(active) \in Nat /\ Len(active) >= 1
  BY Types, Last DEF IndInv
<1> DEFINE n == Len(active) - 1
<1>2. n \in 0 .. Len(active) /\ outer = SubSeq(active, 1, n)
  BY <1>1 DEF Outer
<1> HIDE DEF n
<1>3. outer \in Seq(Activations) /\ Len(outer) = n /\ \A i \in 1 .. n : outer[i] = active[i]
  BY <1>1, <1>2, Prefix
<1> QED
  BY <1>1, <1>3 DEF n

\* Only the stack changes, above all that is held.
LEMMA StackInv ==
  ASSUME IndInv, stack' \in Seq(Values), Len(stack') <= MaxStack,
         frames' = frames, active' = active, error' = error,
         steps' \in Nat, result' \in Results,
         NEW m \in Nat, m <= Len(stack'), m <= Len(stack),
         ~error => /\ \A p \in 1 .. m : stack'[p] = stack[p]
                   /\ \A k \in 1 .. Len(frames) : frames[k].base <= m
                   /\ \A i \in 1 .. Len(active) : IsNative(i) => active[i].base <= m
  PROVE  IndInv'
<1>1. TypeOK' /\ HeightBound'
  BY OldTypes, NextTypes
<1>2. ASSUME ~error
      PROVE  Nested'
  <2>1. Nested /\ Height' = Len(stack') /\ Height' \in Nat
    BY <1>2, LenProperties DEF IndInv, Height
  <2>2. FramesApart'
    <3>1. ASSUME NEW k \in 1 .. Len(frames)
          PROVE  /\ frames[k].base <= Height' /\ stack'[frames[k].slots] = "closure"
      <4>1. frames[k].slots \in 1 .. m
        <5>1. frames[k] \in FrameSet /\ frames[k].slots <= frames[k].base /\ frames[k].base <= m
          BY <1>2, <2>1, Types DEF Nested, FramesApart, IndInv
        <5> QED
          BY <5>1, CallsAssumption DEF FrameSet
      <4>2. frames[k].base <= m /\ frames[k].base \in Nat
        BY <1>2, Types DEF IndInv
      <4> QED
        BY <1>2, <2>1, <4>1, <4>2 DEF Nested, FramesApart
    <3> QED
      BY <2>1, <3>1 DEF Nested, FramesApart
  <2>3. RunsUnderNatives' /\ RunsHaveFrames' /\ RunsApart'
    BY <2>1 DEF Nested, RunsUnderNatives, RunsHaveFrames, RunsApart, IsRun, IsNative
  <2>4. NativesApart'
    <3>1. \A i \in 1 .. Len(active) : IsNative(i) => active[i].base <= Height'
      BY <1>2, <2>1, Types DEF IndInv
    <3> QED
      BY <2>1, <3>1 DEF Nested, NativesApart, IsRun, IsNative
  <2> QED
    BY <2>2, <2>3, <2>4 DEF Nested
<1> QED
  BY <1>1, <1>2 DEF IndInv

\* The C stack, and the frames, with one more.
Entered(a) ==
  /\ active' \in Seq(Activations) /\ Len(active') = Len(active) + 1
  /\ active'[Len(active) + 1] = a
  /\ \A i \in 1 .. Len(active) : active'[i] = active[i]

Framed(f) ==
  /\ frames' \in Seq(FrameSet) /\ Len(frames') = Len(frames) + 1
  /\ frames'[Len(frames) + 1] = f
  /\ \A k \in 1 .. Len(frames) : frames'[k] = frames[k]

LEMMA AppendIsEntered ==
  ASSUME IndInv, NEW a \in Activations, active' = Append(active, a)
  PROVE  Entered(a)
<1> DEFINE now == active'
<1>1. /\ now \in Seq(Activations) /\ Len(now) = Len(active) + 1
      /\ now[Len(active) + 1] = a /\ \A i \in 1 .. Len(active) : now[i] = active[i]
  BY PushBack, Types DEF IndInv
<1> QED
  BY <1>1 DEF Entered

LEMMA AppendIsFramed ==
  ASSUME IndInv, NEW f \in FrameSet, frames' = Append(frames, f)
  PROVE  Framed(f)
<1> DEFINE now == frames'
<1>1. /\ now \in Seq(FrameSet) /\ Len(now) = Len(frames) + 1
      /\ now[Len(frames) + 1] = f /\ \A k \in 1 .. Len(frames) : now[k] = frames[k]
  BY PushBack, Types DEF IndInv
<1> QED
  BY <1>1 DEF Framed

\* A native function is called with arguments above all that is held.
LEMMA EnterNativeInv ==
  ASSUME IndInv, NEW n \in Arguments, n < Height,
         stack' = stack, frames' = frames, Entered(Native(n)),
         error' = error, steps' \in Nat, result' = result,
         ~error => /\ \A k \in 1 .. Len(frames) : frames[k].base < Height - n
                   /\ \A i \in 1 .. Len(active) : IsNative(i) => active[i].base < Height - n
  PROVE  IndInv'
<1> DEFINE last == Len(active) + 1
<1>1. /\ active' \in Seq(Activations) /\ Len(active') = last /\ active'[last] = Native(n)
      /\ Len(active) \in Nat /\ \A i \in 1 .. Len(active) : active'[i] = active[i]
  BY Types DEF IndInv, Entered
<1>2. active'[last].kind = "native" /\ active'[last].args = n /\ active'[last].base = Height
  BY <1>1 DEF Native
<1>3. TypeOK' /\ HeightBound'
  BY <1>1, OldTypes, NextTypes
<1>4. n \in Nat /\ Height \in Nat /\ Height' = Height
  BY Types, CallsAssumption DEF IndInv, Arguments, Height
<1>5. ASSUME ~error
      PROVE  Nested'
  <2>1. Nested
    BY <1>5 DEF IndInv
  <2> USE DEF IsRun, IsNative
  <2>2. active'[last].kind = "native"
    BY <1>2
  <2>3. FramesApart'
    BY <2>1, <1>4 DEF Nested, FramesApart
  <2> DEFINE after == active'
  <2>0. /\ last = Len(active) + 1 /\ Len(after) = last /\ after[last].kind = "native"
        /\ \A i \in 1 .. last : i # last => i \in 1 .. Len(active) /\ after[i] = active[i]
        /\ last \in Nat /\ \A i \in 1 .. Len(active) : after[i] = active[i] /\ i \in 1 .. last
    BY <1>1, <2>2
  <2> HIDE DEF last, after
  <2>4. RunsUnderNatives'
    <3>1. ASSUME NEW i \in 1 .. last
          PROVE  /\ after[i].kind # "broken"
                 /\ after[i].kind = "run" /\ i > 1 => after[i - 1].kind = "native"
      <4>1. CASE i = last
        BY <2>0, <4>1
      <4>2. CASE i # last
        <5>1. i \in 1 .. Len(active) /\ after[i] = active[i]
          BY <2>0, <4>2
        <5>2. i > 1 => i - 1 \in 1 .. Len(active) /\ after[i - 1] = active[i - 1]
          BY <1>1, <2>0, <5>1
        <5> QED
          BY <2>1, <5>1, <5>2 DEF Nested, RunsUnderNatives
      <4> QED
        BY <4>1, <4>2
    <3> QED
      BY <2>0, <3>1 DEF RunsUnderNatives, after
  <2>5. RunsHaveFrames'
    <3>1. ASSUME NEW i \in 1 .. last, after[i].kind = "run"
          PROVE  /\ after[i].target < Len(frames)
                 /\ \A j \in 1 .. i - 1 : after[j].kind = "run" => after[j].target < after[i].target
                 /\ (\A j \in 1 .. i - 1 : ~(after[j].kind = "run")) => after[i].target = 0
      <4>1. i \in 1 .. Len(active) /\ after[i] = active[i]
        BY <2>0, <3>1
      <4>2. \A j \in 1 .. i - 1 : j \in 1 .. Len(active) /\ after[j] = active[j]
        BY <1>1, <2>0, <4>1
      <4> QED
        BY <2>1, <3>1, <4>1, <4>2 DEF Nested, RunsHaveFrames
    <3>2. (\A i \in 1 .. last : ~(after[i].kind = "run")) => frames = <<>>
      BY <2>0, <2>1 DEF Nested, RunsHaveFrames
    <3> QED
      BY <2>0, <3>1, <3>2 DEF RunsHaveFrames, after
  <2> USE DEF last, after
  <2>6. NativesApart'
    <3>1. ASSUME NEW i \in 1 .. last, IsNative(i)'
          PROVE  /\ active'[i].base <= Height
                 /\ active'[i].args < active'[i].base
                 /\ \A k \in 1 .. Len(frames) :
                      (\A j \in i + 1 .. last : IsRun(j)' => k <= active'[j].target)
                        => frames[k].base < active'[i].base - active'[i].args
                 /\ \A j \in 1 .. i - 1 :
                      IsNative(j)' => active'[j].base < active'[i].base - active'[i].args
      <4>1. CASE i = last
        BY <1>1, <1>2, <1>4, <1>5, <2>2, <4>1
      <4>2. CASE i # last
        <5>1. i \in 1 .. Len(active) /\ IsNative(i) /\ active'[i] = active[i]
          BY <1>1, <2>2, <3>1, <4>2
        <5>2. ASSUME NEW k \in 1 .. Len(frames),
                     \A j \in i + 1 .. last : IsRun(j)' => k <= active'[j].target
              PROVE  \A j \in i + 1 .. Len(active) : IsRun(j) => k <= active[j].target
          <6>1. \A j \in i + 1 .. Len(active) : j \in i + 1 .. last /\ after[j] = active[j]
            BY <1>1, <5>1
          <6> QED
            BY <5>2, <6>1
        <5>3. \A j \in 1 .. i - 1 : after[j] = active[j]
          BY <1>1, <5>1
        <5>4. /\ active[i].base <= Height /\ active[i].args < active[i].base
              /\ \A k \in 1 .. Len(frames) :
                   (\A j \in i + 1 .. Len(active) : IsRun(j) => k <= active[j].target)
                     => frames[k].base < active[i].base - active[i].args
              /\ \A j \in 1 .. i - 1 :
                   IsNative(j) => active[j].base < active[i].base - active[i].args
          BY <2>1, <5>1 DEF Nested, NativesApart
        <5> HIDE DEF IsRun, IsNative
        <5>5. \A k \in 1 .. Len(frames) :
                (\A j \in i + 1 .. last : IsRun(j)' => k <= active'[j].target)
                  => frames[k].base < active'[i].base - active'[i].args
          BY <5>1, <5>2, <5>4
        <5>6. \A j \in 1 .. i - 1 :
                IsNative(j)' => active'[j].base < active'[i].base - active'[i].args
          BY <5>1, <5>3, <5>4 DEF IsNative
        <5> QED
          BY <5>1, <5>4, <5>5, <5>6
      <4> QED
        BY <4>1, <4>2
    <3> QED
      BY <1>1, <1>4, <3>1 DEF NativesApart
  <2>7. RunsApart'
    <3>1. ASSUME NEW i \in 1 .. last, after[i].kind = "run",
                 NEW j \in 1 .. i - 1, after[j].kind = "native"
          PROVE  after[j].base < frames[after[i].target + 1].slots
      <4>1. /\ i \in 1 .. Len(active) /\ after[i] = active[i]
            /\ j \in 1 .. i - 1 /\ after[j] = active[j]
        BY <1>1, <2>2, <3>1
      <4>2. IsRun(i) /\ IsNative(j)
        BY <3>1, <4>1
      <4> HIDE DEF IsRun, IsNative
      <4>3. active[j].base < frames[active[i].target + 1].slots
        BY <2>1, <4>1, <4>2 DEF Nested, RunsApart
      <4> QED
        BY <4>1, <4>3
    <3> QED
      BY <1>1, <3>1 DEF RunsApart
  <2> QED
    BY <2>3, <2>4, <2>5, <2>6, <2>7 DEF Nested
<1> QED
  BY <1>3, <1>5 DEF IndInv

\* run() is entered, by the host or by a native function, for a frame above all
\* that is held.
RunAbove(p, b) ==
  /\ \A q \in 1 .. Height : stack'[q] = stack[q]
  /\ stack'[p] = "closure" /\ p <= b /\ b <= Len(stack')
  /\ b - p \in {0, Arity}
  /\ \A k \in 1 .. Len(frames) : frames[k].base < p
  /\ \A i \in 1 .. Len(active) : IsNative(i) => active[i].base < p
  /\ Len(active) >= 1 => IsNative(Len(active))

LEMMA EnterRunInv ==
  ASSUME IndInv, NEW p \in 1 .. MaxStack, NEW b \in 1 .. MaxStack,
         Len(frames) # FramesMax,
         Entered(Run(Len(frames))), Framed([slots |-> p, base |-> b]),
         stack' \in Seq(Values), Len(stack') <= MaxStack, Height <= Len(stack'),
         error' = error, steps' \in Nat, result' \in Results,
         ~error => RunAbove(p, b)
  PROVE  IndInv'
<1> DEFINE last == Len(active) + 1
           top == Len(frames) + 1
<1>1. /\ active' \in Seq(Activations) /\ Len(active') = last /\ active'[last] = Run(Len(frames))
      /\ Len(active) \in Nat /\ \A i \in 1 .. Len(active) : active'[i] = active[i]
  BY Types DEF IndInv, Entered
<1>2. active'[last].kind = "run" /\ active'[last].target = Len(frames)
  BY <1>1 DEF Run
<1>3. /\ frames' \in Seq(FrameSet) /\ Len(frames') = top
      /\ frames'[top].slots = p /\ frames'[top].base = b
      /\ Len(frames) \in Nat /\ \A k \in 1 .. Len(frames) : frames'[k] = frames[k]
  BY Types DEF IndInv, Framed
<1>4. TypeOK' /\ HeightBound'
  <2>1. Len(frames') <= FramesMax
    BY <1>3, OldTypes, CallsAssumption
  <2> QED
    BY <1>1, <1>3, <2>1, OldTypes, NextTypes
<1>5. Height \in Nat /\ Height' = Len(stack') /\ Height' \in Nat /\ p \in Nat /\ b \in Nat /\ p >= 1
  BY Types, LenProperties, CallsAssumption DEF IndInv, Height
<1>6. ASSUME ~error
      PROVE  Nested'
  <2>1. Nested /\ RunAbove(p, b)
    BY <1>6 DEF IndInv
  <2> USE DEF IsRun, IsNative
  <2>2. /\ \A k \in 1 .. Len(frames) : frames[k].slots \in Nat /\ frames[k].base \in Nat
        /\ \A k \in 1 .. Len(frames) : frames[k].slots \in 1 .. Height /\ frames[k].base <= Height
    <3>1. \A k \in 1 .. Len(frames) : frames[k].slots <= frames[k].base /\ frames[k].base <= Height
      BY <2>1 DEF Nested, FramesApart
    <3>2. \A k \in 1 .. Len(frames) : frames[k].slots \in 1 .. MaxStack /\ frames[k].base \in Nat
      BY Types, CallsAssumption DEF IndInv, FrameSet
    <3>3. ASSUME NEW k \in 1 .. Len(frames)
          PROVE  /\ frames[k].slots \in Nat /\ frames[k].base \in Nat
                 /\ 1 <= frames[k].slots /\ frames[k].slots <= Height
                 /\ frames[k].base <= Height
      <4>1. /\ frames[k].slots \in Nat /\ frames[k].base \in Nat /\ 1 <= frames[k].slots
        BY <3>2, CallsAssumption
      <4> QED
        BY <1>5, <3>1, <4>1
    <3> QED
      BY <1>5, <3>3
  <2>3. FramesApart'
    <3>1. ASSUME NEW k \in 1 .. top
          PROVE  /\ frames'[k].slots <= frames'[k].base /\ frames'[k].base <= Height'
                 /\ stack'[frames'[k].slots] = "closure"
                 /\ frames'[k].base - frames'[k].slots \in {0, Arity}
                 /\ \A l \in 1 .. k - 1 : frames'[l].base < frames'[k].slots
      <4>1. CASE k = top
        <5>1. frames'[k].slots = p /\ frames'[k].base = b
          BY <1>3, <4>1
        <5>2. \A l \in 1 .. k - 1 : l \in 1 .. Len(frames) /\ frames'[l] = frames[l]
          BY <1>3, <4>1
        <5>3. \A l \in 1 .. k - 1 : frames'[l].base < p
          BY <2>1, <5>2 DEF RunAbove
        <5> QED
          BY <1>5, <2>1, <5>1, <5>3 DEF RunAbove
      <4>2. CASE k # top
        <5>1. k \in 1 .. Len(frames) /\ frames'[k] = frames[k]
          BY <1>3, <4>2
        <5>2. /\ frames[k].slots <= frames[k].base /\ frames[k].base <= Height
              /\ stack[frames[k].slots] = "closure"
              /\ frames[k].base - frames[k].slots \in {0, Arity}
              /\ \A l \in 1 .. k - 1 : frames[l].base < frames[k].slots
          BY <2>1, <5>1 DEF Nested, FramesApart
        <5>3. \A l \in 1 .. k - 1 : frames'[l] = frames[l]
          BY <1>3, <5>1
        <5>4. frames[k].base <= Height'
          BY <1>5, <2>2, <5>1
        <5>5. stack'[frames[k].slots] = "closure"
          BY <2>1, <2>2, <5>1, <5>2 DEF RunAbove
        <5> QED
          BY <5>1, <5>2, <5>3, <5>4, <5>5
      <4> QED
        BY <4>1, <4>2
    <3> QED
      BY <1>3, <3>1 DEF FramesApart
  <2>4. RunsUnderNatives'
    <3>1. \A i \in 1 .. last : active'[i].kind # "broken"
      BY <1>1, <1>2, <2>1 DEF Nested, RunsUnderNatives
    <3>2. \A i \in 1 .. last : active'[i].kind = "run" /\ i > 1 => active'[i - 1].kind = "native"
      <4> TAKE i \in 1 .. last
      <4>1. CASE i = last
        BY <1>1, <2>1, <4>1 DEF RunAbove
      <4>2. CASE i # last
        <5>1. i \in 1 .. Len(active) /\ active'[i] = active[i]
          BY <1>1, <4>2
        <5>2. i > 1 => active'[i - 1] = active[i - 1]
          <6>1. i > 1 => i - 1 \in 1 .. Len(active)
            BY <1>1, <5>1
          <6> QED
            BY <1>1, <6>1
        <5> QED
          BY <2>1, <5>1, <5>2 DEF Nested, RunsUnderNatives
      <4> QED
        BY <4>1, <4>2
    <3> QED
      BY <1>1, <3>1, <3>2 DEF RunsUnderNatives
  <2>5. RunsHaveFrames'
    <3>1. ASSUME NEW i \in 1 .. last, active'[i].kind = "run"
          PROVE  /\ active'[i].target < Len(frames')
                 /\ \A j \in 1 .. i - 1 :
                      active'[j].kind = "run" => active'[j].target < active'[i].target
                 /\ (\A j \in 1 .. i - 1 : active'[j].kind # "run") => active'[i].target = 0
      <4>1. CASE i = last
        <5>1. ASSUME \A j \in 1 .. i - 1 : active'[j].kind # "run"
              PROVE  Len(frames) = 0
          <6>1. \A j \in 1 .. Len(active) : active[j].kind # "run"
            BY <1>1, <4>1, <5>1
          <6>2. frames = <<>>
            BY <2>1, <6>1 DEF Nested, RunsHaveFrames
          <6> QED
            BY <6>2
        <5>2. \A j \in 1 .. Len(active) : active[j].kind = "run" => active[j].target < Len(frames)
          BY <2>1 DEF Nested, RunsHaveFrames
        <5>3. \A j \in 1 .. i - 1 : active'[j] = active[j] /\ j \in 1 .. Len(active)
          BY <1>1, <4>1
        <5>4. \A j \in 1 .. i - 1 : active'[j].kind = "run" => active'[j].target < Len(frames)
          BY <5>2, <5>3
        <5>5. Len(frames) < Len(frames')
          BY <1>3
        <5> QED
          BY <1>2, <4>1, <5>1, <5>4, <5>5
      <4>2. CASE i # last
        <5>1. i \in 1 .. Len(active) /\ active[i].kind = "run" /\ active'[i] = active[i]
              /\ \A j \in 1 .. i - 1 : active'[j] = active[j]
          BY <1>1, <3>1, <4>2
        <5>2. active[i].target \in Nat
          BY <5>1, Types DEF IndInv
        <5>3. /\ active[i].target < Len(frames)
              /\ \A j \in 1 .. i - 1 :
                   active[j].kind = "run" => active[j].target < active[i].target
              /\ (\A j \in 1 .. i - 1 : active[j].kind # "run") => active[i].target = 0
          BY <2>1, <5>1 DEF Nested, RunsHaveFrames
        <5>4. active[i].target < Len(frames')
          BY <1>3, <5>2, <5>3
        <5> QED
          BY <5>1, <5>3, <5>4
      <4> QED
        BY <4>1, <4>2
    <3> QED
      BY <1>1, <1>2, <3>1 DEF RunsHaveFrames
  <2>6. NativesApart'
    <3>1. ASSUME NEW i \in 1 .. last, active'[i].kind = "native"
          PROVE  /\ active'[i].base <= Height'
                 /\ active'[i].args < active'[i].base
                 /\ \A k \in 1 .. Len(frames') :
                      (\A j \in i + 1 .. last :
                          active'[j].kind = "run" => k <= active'[j].target)
                        => frames'[k].base < active'[i].base - active'[i].args
                 /\ \A j \in 1 .. i - 1 :
                      active'[j].kind = "native"
                        => active'[j].base < active'[i].base - active'[i].args
      <4>1. i \in 1 .. Len(active) /\ active[i].kind = "native" /\ active'[i] = active[i]
        BY <1>1, <1>2, <3>1
      <4>2. ASSUME NEW k \in 1 .. Len(frames'),
                   \A j \in i + 1 .. last : active'[j].kind = "run" => k <= active'[j].target
            PROVE  frames'[k].base < active'[i].base - active'[i].args
        <5>1. k <= Len(frames)
          BY <1>1, <1>2, <4>1, <4>2
        <5>2. \A j \in i + 1 .. Len(active) : active[j].kind = "run" => k <= active[j].target
          BY <1>1, <4>1, <4>2
        <5>3. k \in 1 .. Len(frames)
          BY <1>3, <5>1
        <5> QED
          BY <1>3, <2>1, <4>1, <5>2, <5>3 DEF Nested, NativesApart
      <4>3. active[i].base \in Nat /\ active[i].base <= Height /\ active[i].args < active[i].base
        BY <2>1, <4>1, Types DEF IndInv, Nested, NativesApart
      <4>4. \A j \in 1 .. i - 1 :
              active[j].kind = "native" => active[j].base < active[i].base - active[i].args
        BY <2>1, <4>1 DEF Nested, NativesApart
      <4>5. active[i].base <= Height'
        BY <1>5, <4>3
      <4>6. \A j \in 1 .. i - 1 : active'[j] = active[j]
        BY <1>1, <4>1
      <4> QED
        BY <4>1, <4>2, <4>3, <4>4, <4>5, <4>6
    <3> QED
      BY <1>1, <3>1 DEF NativesApart
  <2>7. RunsApart'
    <3>1. ASSUME NEW i \in 1 .. last, active'[i].kind = "run",
                 NEW j \in 1 .. i - 1, active'[j].kind = "native"
          PROVE  active'[j].base < frames'[active'[i].target + 1].slots
      <4>1. j \in 1 .. Len(active) /\ active'[j] = active[j]
        BY <1>1
      <4>2. CASE i = last
        BY <1>2, <1>3, <2>1, <3>1, <4>1, <4>2 DEF RunAbove
      <4>3. CASE i # last
        <5>1. i \in 1 .. Len(active) /\ active'[i] = active[i] /\ active[i].kind = "run"
          BY <1>1, <3>1, <4>3
        <5>2. active[i].target + 1 \in 1 .. Len(frames)
          <6>1. active[i].target \in Nat
            BY <5>1, Types DEF IndInv
          <6>2. active[i].target < Len(frames)
            BY <2>1, <5>1 DEF Nested, RunsHaveFrames
          <6> QED
            BY <1>3, <6>1, <6>2
        <5>3. IsRun(i) /\ IsNative(j)
          BY <3>1, <4>1, <5>1
        <5> HIDE DEF IsRun, IsNative
        <5>4. active[j].base < frames[active[i].target + 1].slots
          BY <2>1, <3>1, <5>1, <5>3 DEF Nested, RunsApart
        <5>5. frames'[active[i].target + 1] = frames[active[i].target + 1]
          BY <1>3, <5>2
        <5> QED
          BY <4>1, <5>1, <5>4, <5>5
      <4> QED
        BY <4>2, <4>3
    <3> QED
      BY <1>1, <3>1 DEF RunsApart
  <2> QED
    BY <2>3, <2>4, <2>5, <2>6, <2>7 DEF Nested
<1> QED
  BY <1>4, <1>6 DEF IndInv

\* The interpreter calls a function: a frame above the operands of the last one.
LEMMA CallFrameInv ==
  ASSUME IndInv, ~error, Running, NEW p \in 1 .. MaxStack, NEW b \in 1 .. MaxStack,
         Len(frames) # FramesMax, Framed([slots |-> p, base |-> b]),
         stack' = stack, active' = active, error' = error, steps' \in Nat, result' = result,
         stack[p] = "closure", p <= b, b <= Height, b - p \in {0, Arity}, Frame.base < p
  PROVE  IndInv'
<1> DEFINE top == Len(frames) + 1
<1>1. /\ frames' \in Seq(FrameSet) /\ Len(frames') = top
      /\ frames'[top].slots = p /\ frames'[top].base = b
      /\ Len(frames) \in Nat /\ \A k \in 1 .. Len(frames) : frames'[k] = frames[k]
  BY Types DEF IndInv, Framed
<1>2. TypeOK' /\ HeightBound'
  <2>1. Len(frames') <= FramesMax
    BY <1>1, OldTypes, CallsAssumption
  <2> QED
    BY <1>1, <2>1, OldTypes, NextTypes
<1>3. Height \in Nat /\ Height' = Height /\ p \in Nat /\ b \in Nat
  BY Types, CallsAssumption DEF IndInv, Height
<1>4. Nested
  BY DEF IndInv
<1>5. \A k \in 1 .. Len(frames) : frames[k].base < p /\ frames[k].base \in Nat
  BY <1>3, RunTop, Types DEF IndInv
<1> USE DEF IsRun, IsNative
<1>6. FramesApart'
  <2>1. ASSUME NEW k \in 1 .. top
        PROVE  /\ frames'[k].slots <= frames'[k].base /\ frames'[k].base <= Height
               /\ stack[frames'[k].slots] = "closure"
               /\ frames'[k].base - frames'[k].slots \in {0, Arity}
               /\ \A l \in 1 .. k - 1 : frames'[l].base < frames'[k].slots
    <3>1. CASE k = top
      BY <1>1, <1>3, <1>5, <3>1
    <3>2. CASE k # top
      BY <1>1, <1>4, <3>2 DEF Nested, FramesApart
    <3> QED
      BY <3>1, <3>2
  <2> QED
    BY <1>1, <1>3, <2>1 DEF FramesApart
<1>7. RunsUnderNatives'
  BY <1>4 DEF Nested, RunsUnderNatives
<1>8. RunsHaveFrames'
  <2>1. \A i \in 1 .. Len(active) : active[i].kind = "run" => active[i].target < Len(frames')
    BY <1>1, <1>4, Types DEF Nested, RunsHaveFrames, IndInv
  <2>2. \E i \in 1 .. Len(active) : active[i].kind = "run"
    BY RunTop, Types DEF IndInv
  <2> QED
    BY <1>4, <2>1, <2>2 DEF Nested, RunsHaveFrames
<1>9. NativesApart'
  <2>1. ASSUME NEW i \in 1 .. Len(active), active[i].kind = "native",
               NEW k \in 1 .. Len(frames'),
               \A j \in i + 1 .. Len(active) : active[j].kind = "run" => k <= active[j].target
        PROVE  frames'[k].base < active[i].base - active[i].args
    <3>1. /\ Len(active) \in 1 .. Len(active) /\ active[Len(active)].kind = "run"
          /\ active[Len(active)].target < Len(frames) /\ active[Len(active)].target \in Nat
      BY RunTop, Types DEF IndInv, Innermost
    <3>2. Len(active) \in i + 1 .. Len(active)
      BY <2>1, <3>1, Types DEF IndInv
    <3>3. k \in 1 .. Len(frames)
      BY <1>1, <2>1, <3>1, <3>2
    <3> QED
      BY <1>1, <1>4, <2>1, <3>3 DEF Nested, NativesApart
  <2> QED
    BY <1>3, <1>4, <2>1 DEF Nested, NativesApart
<1>10. RunsApart'
  <2>1. \A i \in 1 .. Len(active) :
          active[i].kind = "run" => active[i].target + 1 \in 1 .. Len(frames)
    BY <1>4, <1>1, Types DEF Nested, RunsHaveFrames, IndInv
  <2> QED
    BY <1>1, <1>4, <2>1 DEF Nested, RunsApart
<1> QED
  BY <1>2, <1>6, <1>7, <1>8, <1>9, <1>10 DEF IndInv, Nested

\* The C stack and the frames with one less.
Exited ==
  /\ active' \in Seq(Activations) /\ Len(active') = Len(active) - 1
  /\ \A i \in 1 .. Len(active) - 1 : active'[i] = active[i]

Unframed ==
  /\ frames' \in Seq(FrameSet) /\ Len(frames') = Len(frames) - 1
  /\ \A k \in 1 .. Len(frames) - 1 : frames'[k] = frames[k]

\* The stack is changed only above m, and m above all that is still held.
StackAbove(m) ==
  /\ m <= Len(stack) /\ m <= Len(stack')
  /\ \A q \in 1 .. m : stack'[q] = stack[q]
  /\ \A k \in 1 .. Len(frames') : frames[k].base <= m
  /\ \A i \in 1 .. Len(active') : IsNative(i) => active[i].base <= m

\* An activation returns, or gives up its last frame, or both.
ActiveKept == active' = active /\ (Running => Len(frames') > Innermost.target)

LEMMA LeaveInv ==
  ASSUME IndInv, ~error, NEW m \in Nat, StackAbove(m),
         stack' \in Seq(Values), Len(stack') <= MaxStack,
         error' = error, steps' \in Nat, result' \in Results,
         \/ Running /\ Unframed /\ ActiveKept
         \/ Running /\ Unframed /\ Exited /\ Len(frames') = Innermost.target
         \/ InNative /\ frames' = frames /\ Exited
  PROVE  IndInv'
<1> DEFINE up == Len(frames')
           in == Len(active')
<1>1. /\ active' \in Seq(Activations) /\ Len(active) \in Nat /\ in \in Nat
      /\ in <= Len(active) /\ Len(active) - 1 <= in
      /\ \A i \in 1 .. in : active'[i] = active[i]
  BY Types, LenProperties, RunTop, NativeTop DEF IndInv, Exited, ActiveKept
<1>2. /\ frames' \in Seq(FrameSet) /\ Len(frames) \in Nat /\ up \in Nat /\ up <= Len(frames)
      /\ \A k \in 1 .. up : frames'[k] = frames[k]
  BY Types, LenProperties, RunTop DEF IndInv, Unframed
<1>3. TypeOK' /\ HeightBound'
  <2>1. up <= FramesMax
    BY <1>2, OldTypes, CallsAssumption
  <2> QED
    BY <1>1, <1>2, <2>1, OldTypes, NextTypes
<1>4. Nested /\ Height' = Len(stack') /\ Height' \in Nat /\ m <= Height'
  BY LenProperties DEF IndInv, Height, StackAbove
<1> USE DEF IsRun, IsNative
\* The activations of run() that are left have frames that are left, and what
\* went was the last activation's.
<1>5. \A i \in 1 .. in : active[i].kind = "run" => active[i].target < up
  <2>1. CASE Running /\ Unframed /\ ActiveKept
    <3>1. Innermost.target < up /\ Innermost.target \in Nat /\ Innermost = active[Len(active)]
      BY <2>1, RunTop DEF ActiveKept, Innermost
    <3>2. active[Len(active)].kind = "run" /\ Len(active) \in 1 .. Len(active)
      BY <1>1, <2>1, RunTop
    <3>3. \A i \in 1 .. Len(active) - 1 :
            active[i].kind = "run" => active[i].target < active[Len(active)].target
      BY <1>4, <3>2 DEF Nested, RunsHaveFrames
    <3>4. ASSUME NEW i \in 1 .. in, active[i].kind = "run"
          PROVE  active[i].target < up
      <4>1. i \in 1 .. Len(active) - 1 \/ i = Len(active)
        BY <1>1
      <4>2. active[i].target \in Nat
        BY <1>1, <4>1, <3>2, Types DEF IndInv
      <4> HIDE DEF up, in
      <4>3. active[i].target <= Innermost.target
        BY <3>1, <3>3, <3>4, <4>1, <4>2
      <4> QED
        BY <1>2, <3>1, <4>2, <4>3 DEF up
    <3> QED
      BY <3>4
  <2>2. CASE Running /\ Unframed /\ Exited /\ up = Innermost.target
    <3>1. Innermost = active[Len(active)] /\ in = Len(active) - 1
      BY <2>2 DEF Innermost, Exited
    <3>2. active[Len(active)].kind = "run" /\ Len(active) \in 1 .. Len(active)
      BY <1>1, <2>2, RunTop
    <3> QED
      BY <1>4, <2>2, <3>1, <3>2 DEF Nested, RunsHaveFrames
  <2>3. CASE InNative /\ frames' = frames /\ Exited
    BY <1>1, <1>4, <2>3 DEF Nested, RunsHaveFrames
  <2> QED
    BY <2>1, <2>2, <2>3
<1>6. \A i \in in + 1 .. Len(active) : active[i].kind = "run" => active[i].target = up
  <2>1. CASE Running /\ Unframed /\ ActiveKept
    BY <1>1, <2>1 DEF ActiveKept
  <2>2. CASE Running /\ Unframed /\ Exited /\ up = Innermost.target
    BY <1>1, <2>2 DEF Innermost, Exited
  <2>3. CASE InNative /\ frames' = frames /\ Exited
    BY <1>1, <2>3, NativeTop DEF Exited
  <2> QED
    BY <2>1, <2>2, <2>3
<1> HIDE DEF up, in
<1>7. FramesApart'
  <2>1. ASSUME NEW k \in 1 .. up
        PROVE  /\ frames[k].base <= Height' /\ stack'[frames[k].slots] = "closure"
               /\ frames[k].slots <= frames[k].base
               /\ frames[k].base - frames[k].slots \in {0, Arity}
               /\ \A l \in 1 .. k - 1 : frames[l].base < frames[k].slots
    <3>1. k \in 1 .. Len(frames)
      BY <1>2
    <3>2. /\ frames[k].slots <= frames[k].base
          /\ frames[k].base - frames[k].slots \in {0, Arity}
          /\ stack[frames[k].slots] = "closure"
          /\ \A l \in 1 .. k - 1 : frames[l].base < frames[k].slots
      BY <1>4, <3>1 DEF Nested, FramesApart
    <3>3. frames[k].base <= m
      BY DEF StackAbove, up
    <3>4. frames[k].base \in Nat /\ frames[k].slots \in 1 .. m
      <4>1. frames[k].slots \in 1 .. MaxStack /\ frames[k].base \in Nat
        BY <3>1, Types, CallsAssumption DEF IndInv, FrameSet
      <4> QED
        BY <3>2, <3>3, <4>1, CallsAssumption
    <3>5. frames[k].base <= Height'
      BY <1>4, <3>3, <3>4
    <3>6. stack'[frames[k].slots] = "closure"
      BY <3>2, <3>4 DEF StackAbove
    <3> QED
      BY <3>2, <3>5, <3>6
  <2>2. \A k \in 1 .. up : \A l \in 1 .. k - 1 : frames'[l] = frames[l]
    BY <1>2
  <2> QED
    BY <1>2, <2>1, <2>2 DEF FramesApart, up
<1>8. RunsUnderNatives'
  <2>1. ASSUME NEW i \in 1 .. in
        PROVE  /\ active'[i].kind # "broken"
               /\ active'[i].kind = "run" /\ i > 1 => active'[i - 1].kind = "native"
    <3>1. i \in 1 .. Len(active) /\ active'[i] = active[i]
      BY <1>1
    <3>2. i > 1 => active'[i - 1] = active[i - 1]
      BY <1>1, <3>1
    <3> QED
      BY <1>4, <3>1, <3>2 DEF Nested, RunsUnderNatives
  <2> QED
    BY <2>1 DEF RunsUnderNatives, in
<1>9. RunsHaveFrames'
  <2>1. ASSUME NEW i \in 1 .. in, active'[i].kind = "run"
        PROVE  /\ active'[i].target < up
               /\ \A j \in 1 .. i - 1 :
                    active'[j].kind = "run" => active'[j].target < active'[i].target
               /\ (\A j \in 1 .. i - 1 : active'[j].kind # "run") => active'[i].target = 0
    <3>1. i \in 1 .. Len(active) /\ active'[i] = active[i]
      BY <1>1
    <3>2. \A j \in 1 .. i - 1 : active'[j] = active[j]
      BY <1>1, <3>1
    <3>3. /\ \A j \in 1 .. i - 1 :
               active[j].kind = "run" => active[j].target < active[i].target
          /\ (\A j \in 1 .. i - 1 : active[j].kind # "run") => active[i].target = 0
      BY <1>4, <2>1, <3>1 DEF Nested, RunsHaveFrames
    <3> QED
      BY <1>5, <2>1, <3>1, <3>2, <3>3
  <2>2. ASSUME \A i \in 1 .. in : active'[i].kind # "run"
        PROVE  frames' = <<>>
    <3>1. \A i \in 1 .. in : active[i].kind # "run"
      BY <1>1, <2>2
    <3>2. up = 0
      <4>1. CASE \A i \in 1 .. Len(active) : active[i].kind # "run"
        <5>1. frames = <<>>
          BY <1>4, <4>1 DEF Nested, RunsHaveFrames
        <5> QED
          BY <1>2, <5>1
      <4>2. ASSUME NEW i \in 1 .. Len(active), active[i].kind = "run"
            PROVE  up = 0
        <5>1. i = Len(active) /\ i \in in + 1 .. Len(active) /\ in = i - 1
          BY <1>1, <3>1, <4>2
        <5>2. active[i].target = 0
          BY <1>4, <3>1, <4>2, <5>1 DEF Nested, RunsHaveFrames
        <5> QED
          BY <1>6, <4>2, <5>1, <5>2
      <4> QED
        BY <4>1, <4>2
    <3> QED
      BY <1>2, <3>2, EmptySeq DEF up
  <2> QED
    BY <2>1, <2>2 DEF RunsHaveFrames, up, in
<1>10. NativesApart'
  <2>1. ASSUME NEW i \in 1 .. in, active'[i].kind = "native"
        PROVE  /\ active'[i].base <= Height'
               /\ active'[i].args < active'[i].base
               /\ \A k \in 1 .. up :
                    (\A j \in i + 1 .. in :
                        active'[j].kind = "run" => k <= active'[j].target)
                      => frames'[k].base < active'[i].base - active'[i].args
               /\ \A j \in 1 .. i - 1 :
                    active'[j].kind = "native"
                      => active'[j].base < active'[i].base - active'[i].args
    <3>1. i \in 1 .. Len(active) /\ active'[i] = active[i] /\ active[i].kind = "native"
      BY <1>1, <2>1
    <3>2. /\ active[i].args < active[i].base
          /\ \A k \in 1 .. Len(frames) :
               (\A j \in i + 1 .. Len(active) :
                   active[j].kind = "run" => k <= active[j].target)
                 => frames[k].base < active[i].base - active[i].args
          /\ \A j \in 1 .. i - 1 :
               active[j].kind = "native"
                 => active[j].base < active[i].base - active[i].args
      BY <1>4, <3>1 DEF Nested, NativesApart
    <3>3. active[i].base <= Height'
      <4>1. active[i].base <= m /\ active[i].base \in Nat
        BY <3>1, Types DEF StackAbove, in, IndInv
      <4> QED
        BY <1>4, <4>1
    <3>4. \A j \in 1 .. i - 1 : active'[j] = active[j]
      BY <1>1, <3>1
    <3>5. ASSUME NEW k \in 1 .. up,
                 \A j \in i + 1 .. in : active'[j].kind = "run" => k <= active'[j].target
          PROVE  frames'[k].base < active[i].base - active[i].args
      <4>1. k \in 1 .. Len(frames) /\ frames'[k] = frames[k] /\ k <= up
        BY <1>2
      <4>2. \A j \in i + 1 .. in : active[j].kind = "run" => k <= active[j].target
        BY <1>1, <3>1, <3>5
      <4>3. \A j \in i + 1 .. Len(active) : j \in i + 1 .. in \/ j \in in + 1 .. Len(active)
        BY <1>1, <3>1
      <4>4. \A j \in i + 1 .. Len(active) : active[j].kind = "run" => k <= active[j].target
        BY <1>6, <4>1, <4>2, <4>3
      <4> QED
        BY <3>2, <4>1, <4>4
    <3> QED
      BY <3>1, <3>2, <3>3, <3>4, <3>5
  <2> QED
    BY <2>1 DEF NativesApart, up, in
<1>11. RunsApart'
  <2>1. ASSUME NEW i \in 1 .. in, active'[i].kind = "run",
               NEW j \in 1 .. i - 1, active'[j].kind = "native"
        PROVE  active'[j].base < frames'[active'[i].target + 1].slots
    <3>1. /\ i \in 1 .. Len(active) /\ active'[i] = active[i] /\ active[i].kind = "run"
          /\ active'[j] = active[j] /\ active[j].kind = "native"
      BY <1>1, <2>1
    <3>2. active[i].target \in Nat /\ active[i].target < up
      BY <1>5, <3>1, Types DEF IndInv
    <3>3. frames'[active[i].target + 1] = frames[active[i].target + 1]
      BY <1>2, <3>2
    <3>4. IsRun(i) /\ IsNative(j)
      BY <3>1 DEF IsRun, IsNative
    <3> HIDE DEF IsRun, IsNative
    <3>5. active[j].base < frames[active[i].target + 1].slots
      BY <1>4, <2>1, <3>1, <3>4 DEF Nested, RunsApart
    <3> QED
      BY <3>1, <3>3, <3>5
  <2> QED
    BY <2>1 DEF RunsApart, in
<1> QED
  BY <1>3, <1>7, <1>8, <1>9, <1>10, <1>11 DEF IndInv, Nested

-----------------------------------------------------------------------------
(* The stack *)

\* What is left of the stack when values are popped.
LEMMA KeepType ==
  ASSUME IndInv, NEW n \in Nat, n <= Height, NEW s, s = Keep(n)
  PROVE  /\ s \in Seq(Values) /\ Len(s) = n /\ Len(s) <= MaxStack
         /\ \A q \in 1 .. n : s[q] = stack[q]
<1>1. stack \in Seq(Values) /\ Height = Len(stack) /\ Height \in Nat
  BY Types DEF IndInv
<1>2. n \in 0 .. Len(stack) /\ s = SubSeq(stack, 1, n)
  BY <1>1 DEF Keep
<1>3. s \in Seq(Values) /\ Len(s) = n /\ \A q \in 1 .. n : s[q] = stack[q]
  BY <1>1, <1>2, Prefix
<1> QED
  BY <1>1, <1>3, CallsAssumption DEF IndInv, HeightBound

\* The same when a value is pushed then.
Replaced(n, v) == Append(Keep(n), v)

LEMMA ReplaceType ==
  ASSUME IndInv, NEW n \in Nat, n <= Height, n < MaxStack, NEW v \in Values
  PROVE  /\ Replaced(n, v) \in Seq(Values) /\ Len(Replaced(n, v)) = n + 1
         /\ Len(Replaced(n, v)) <= MaxStack
         /\ \A q \in 1 .. n : Replaced(n, v)[q] = stack[q]
<1> DEFINE k == Keep(n)
           s == Replaced(n, v)
<1>1. k \in Seq(Values) /\ Len(k) = n /\ \A q \in 1 .. n : k[q] = stack[q]
  BY KeepType
<1>2. s = Append(k, v)
  BY DEF Replaced
<1> HIDE DEF k, s
<1>3. /\ s \in Seq(Values) /\ Len(s) = n + 1 /\ s[n + 1] = v
      /\ \A q \in 1 .. n : s[q] = k[q]
  BY <1>1, <1>2, PushBack
<1> QED
  BY <1>1, <1>3, CallsAssumption DEF s

\* A sequence that is the stack with one more value.
Pushed(s, v) == s = Append(stack, v)

LEMMA PushType ==
  ASSUME IndInv, Room, NEW v \in Values, NEW s, Pushed(s, v)
  PROVE  /\ s \in Seq(Values) /\ Len(s) = Height + 1 /\ Len(s) <= MaxStack
         /\ s[Height + 1] = v /\ Height \in Nat
         /\ \A q \in 1 .. Height : s[q] = stack[q]
<1>1. stack \in Seq(Values) /\ Height = Len(stack) /\ Height \in Nat
  BY Types DEF IndInv
<1>2. Height < MaxStack
  BY <1>1, CallsAssumption DEF Room
<1> QED
  BY <1>1, <1>2, PushBack, CallsAssumption DEF Pushed

\* A value at the top.
LEMMA TopType ==
  ASSUME IndInv, NEW n \in 1 .. Height
  PROVE  stack[n] \in Values
BY Types, ElementOfSeq DEF IndInv

-----------------------------------------------------------------------------
(* The interpreter *)

\* An activation that returns leaves those around it.
LEMMA LeaveType ==
  ASSUME IndInv, Running, NEW r, LeaveRun(r)
  PROVE  Exited /\ active' \in Seq(Activations) /\ result' = r
<1>1. active # <<>> /\ active' = Outer /\ result' = r
  BY DEF Running, LeaveRun
<1> DEFINE outer == active'
<1>2. /\ outer \in Seq(Activations) /\ Len(outer) = Len(active) - 1
      /\ \A i \in 1 .. Len(active) - 1 : outer[i] = active[i]
  BY <1>1, OuterType
<1> QED
  BY <1>1, <1>2 DEF Exited

LEMMA PendingErrorInv ==
  ASSUME IndInv, PendingError
  PROVE  IndInv'
<1>1. Running /\ error = TRUE /\ LeaveRun("OUT_OF_MEMORY")
      /\ UNCHANGED <<stack, frames, error, steps>>
  BY DEF PendingError, IndInv, TypeOK
<1>2. active' \in Seq(Activations) /\ result' \in Results
  BY <1>1, LeaveType DEF Results
<1>3. TypeOK' /\ HeightBound'
  BY <1>1, <1>2, OldTypes, NextTypes
<1> QED
  BY <1>1, <1>3 DEF IndInv

\* An error in the interpreter.
LEMMA FailInv ==
  ASSUME IndInv, Running, Raise, steps' = NextStep,
         NEW r \in Results, LeaveRun(r)
  PROVE  IndInv'
BY LeaveType, RaiseInv, OldTypes

LEMMA ComputeInv ==
  ASSUME IndInv, Compute
  PROVE  IndInv'
<1>1. /\ Running /\ ~error /\ steps' \in Nat
      /\ frames' = frames /\ active' = active /\ error' = error
      /\ result' = result /\ result' \in Results
  BY OldTypes DEF Compute, Execute
<1> DEFINE m == Frame.base
<1>2. /\ m \in Nat /\ m <= Height /\ Height \in Nat /\ Height = Len(stack)
      /\ \A k \in 1 .. Len(frames) : frames[k].base <= m
      /\ \A i \in 1 .. Len(active) : IsNative(i) => active[i].base <= m
  <2>1. \A i \in 1 .. Len(active) : IsNative(i) => active[i].base <= m
    BY <1>1, RunTop, Types DEF IndInv
  <2> QED
    BY <1>1, <2>1, RunTop, Types DEF IndInv
<1>3. \/ Room /\ \E v \in Values : stack' = Append(stack, v)
      \/ Height > m /\ stack' = Keep(Height - 1)
  BY DEF Compute
<1> HIDE DEF m
<1>4. /\ stack' \in Seq(Values) /\ Len(stack') <= MaxStack /\ m <= Len(stack')
      /\ \A q \in 1 .. m : stack'[q] = stack[q]
  <2>1. ASSUME Room, NEW v \in Values, stack' = Append(stack, v)
        PROVE  /\ stack' \in Seq(Values) /\ Len(stack') <= MaxStack /\ m <= Len(stack')
               /\ \A q \in 1 .. m : stack'[q] = stack[q]
    <3> DEFINE s == stack'
    <3>0. Room /\ Pushed(s, v)
      BY <2>1 DEF Pushed
    <3> HIDE DEF s
    <3>1. /\ s \in Seq(Values) /\ Len(s) = Height + 1 /\ Len(s) <= MaxStack
          /\ Height \in Nat /\ \A q \in 1 .. Height : s[q] = stack[q]
      BY <3>0, PushType
    <3>2. m <= Len(s) /\ \A q \in 1 .. m : s[q] = stack[q]
      BY <1>2, <3>1
    <3> QED
      BY <3>1, <3>2 DEF s
  <2>2. CASE Height > m /\ stack' = Keep(Height - 1)
    <3> DEFINE s == stack'
               n == Height - 1
    <3>1. n \in Nat /\ n <= Height /\ m <= n /\ s = Keep(n)
      BY <1>2, <2>2
    <3> HIDE DEF s, n
    <3>2. s \in Seq(Values) /\ Len(s) = n /\ Len(s) <= MaxStack /\ \A q \in 1 .. n : s[q] = stack[q]
      BY <3>1, KeepType
    <3>3. m <= Len(s) /\ \A q \in 1 .. m : s[q] = stack[q]
      BY <1>2, <3>1, <3>2
    <3> QED
      BY <3>2, <3>3 DEF s
  <2> QED
    BY <1>3, <2>1, <2>2
<1> QED
  BY <1>1, <1>2, <1>4, StackInv

LEMMA CallClosureInv ==
  ASSUME IndInv, NEW n \in Arguments, CallClosure(n)
  PROVE  IndInv'
<1>1. /\ Running /\ ~error /\ steps' = NextStep /\ steps' \in Nat
      /\ Height - n > Frame.base /\ CalleeAt(n) = "closure"
  BY OldTypes DEF CallClosure, Execute
<1>2. CASE Refused(n)
  <2>1. Raise /\ LeaveRun("RUNTIME_ERROR") /\ "RUNTIME_ERROR" \in Results
    BY <1>2 DEF CallClosure, Results
  <2> QED
    BY <1>1, <2>1, FailInv
<1>3. CASE ~Refused(n)
  <2>1. /\ frames' = Append(frames, NewFrame(n))
        /\ stack' = stack /\ active' = active /\ error' = error /\ result' = result
    BY <1>3 DEF CallClosure, Execute
  <2>2. n = Arity /\ Len(frames) # FramesMax
    BY <1>3 DEF Refused
  <2> DEFINE p == Height - n
             b == Height
  <2>3. /\ p \in 1 .. MaxStack /\ b \in 1 .. MaxStack /\ p <= b /\ b <= Height
        /\ b - p \in {0, Arity} /\ Frame.base < p
    BY <1>1, <2>2, RunTop, Types, CallsAssumption DEF IndInv, HeightBound
  <2>4. stack[p] = "closure"
    BY <1>1 DEF CalleeAt
  <2>5. NewFrame(n) = [slots |-> p, base |-> b]
    BY DEF NewFrame
  <2> HIDE DEF p, b
  <2>6. Framed([slots |-> p, base |-> b])
    BY <2>1, <2>3, <2>5, AppendIsFramed DEF FrameSet
  <2> QED
    BY <1>1, <2>1, <2>2, <2>3, <2>4, <2>6, CallFrameInv
<1> QED
  BY <1>2, <1>3

LEMMA CallNativeInv ==
  ASSUME IndInv, NEW n \in Arguments, CallNative(n)
  PROVE  IndInv'
<1>1. /\ Running /\ ~error /\ steps' \in Nat /\ Height - n > Frame.base
      /\ active' = Append(active, Native(n))
      /\ stack' = stack /\ frames' = frames /\ error' = error /\ result' = result
  BY OldTypes DEF CallNative, Execute
<1>2. n \in Nat /\ Height \in Nat /\ Frame.base \in Nat /\ n < Height
  BY <1>1, RunTop, Types, CallsAssumption DEF IndInv, Arguments
<1>3. \A k \in 1 .. Len(frames) : frames[k].base < Height - n
  BY <1>1, <1>2, RunTop, Types DEF IndInv
<1>4. \A i \in 1 .. Len(active) : IsNative(i) => active[i].base < Height - n
  <2>1. \A i \in 1 .. Len(active) : IsNative(i) => active[i].base < Frame.slots
    BY <1>1, RunTop
  <2>2. Frame.slots \in Nat /\ Frame.slots <= Frame.base
    BY <1>1, RunTop
  <2> QED
    BY <1>1, <1>2, <2>1, <2>2, Types DEF IndInv
<1>5. Entered(Native(n))
  BY <1>1, NewActivation, AppendIsEntered DEF IndInv
<1> QED
  BY <1>1, <1>2, <1>3, <1>4, <1>5, EnterNativeInv

LEMMA ReturnInv ==
  ASSUME IndInv, Return
  PROVE  IndInv'
<1>1. /\ Running /\ ~error /\ steps' \in Nat /\ Height > Frame.base
      /\ frames' = SubSeq(frames, 1, Len(frames) - 1) /\ error' = error
  BY OldTypes DEF Return, Execute
<1> DEFINE t == Innermost.target
           m == Frame.slots - 1
<1>2. /\ Len(frames) \in Nat /\ Len(frames) >= 1 /\ t \in Nat /\ t < Len(frames)
      /\ Height \in Nat /\ Height <= MaxStack /\ Height = Len(stack)
      /\ Frame.base \in Nat /\ Frame.slots \in Nat /\ Frame.slots >= 1
      /\ Frame.slots <= Frame.base
  BY <1>1, RunTop, Types DEF IndInv, HeightBound
<1>3. Unframed /\ Len(frames') = Len(frames) - 1
  <2> DEFINE now == frames'
             n == Len(frames) - 1
  <2>1. n \in 0 .. Len(frames) /\ now = SubSeq(frames, 1, n)
    BY <1>1, <1>2
  <2> HIDE DEF n
  <2>2. now \in Seq(FrameSet) /\ Len(now) = n /\ \A k \in 1 .. n : now[k] = frames[k]
    BY <2>1, Types, Prefix DEF IndInv
  <2> QED
    BY <2>2 DEF Unframed, n
<1>4. ASSUME NEW k \in 1 .. Len(frames')
      PROVE  frames[k].base <= m
  <2>1. frames[k].base < Frame.slots
    BY <1>1, <1>3, RunTop
  <2>2. frames[k].base \in Nat
    BY <1>2, <1>3, Types DEF IndInv
  <2> QED
    BY <1>2, <2>1, <2>2
<1>5. ASSUME NEW i \in 1 .. Len(active), IsNative(i)
      PROVE  active[i].base <= m
  <2>1. active[i].base < Frame.slots
    BY <1>1, <1>5, RunTop
  <2>2. active[i].base \in Nat
    BY Types DEF IndInv
  <2> QED
    BY <1>2, <2>1, <2>2
<1>6. m \in Nat /\ m <= Height - 2 /\ m <= Height /\ m < MaxStack
  BY <1>1, <1>2, CallsAssumption
<1> DEFINE now == stack'
<1>7. ASSUME stack' = Returned
      PROVE  /\ now \in Seq(Values) /\ Len(now) <= MaxStack /\ m <= Len(now)
             /\ \A q \in 1 .. m : now[q] = stack[q]
  <2>1. stack[Height] \in Values
    BY <1>1, <1>2, TopType
  <2>2. now = Replaced(m, stack[Height])
    BY <1>7 DEF Returned, Replaced
  <2> HIDE DEF m, now
  <2> QED
    BY <1>2, <1>6, <2>1, <2>2, ReplaceType
<1>8. ASSUME stack' = Dropped
      PROVE  /\ now \in Seq(Values) /\ Len(now) <= MaxStack /\ m <= Len(now)
             /\ \A q \in 1 .. m : now[q] = stack[q]
  <2> DEFINE n == Height - 2
  <2>1. n \in Nat /\ n <= Height /\ now = Keep(n)
    BY <1>2, <1>6, <1>8 DEF Dropped
  <2> HIDE DEF n, now
  <2>2. now \in Seq(Values) /\ Len(now) = n /\ Len(now) <= MaxStack
        /\ \A q \in 1 .. n : now[q] = stack[q]
    BY <2>1, KeepType
  <2>3. m <= n
    BY <1>6 DEF n
  <2> QED
    BY <1>6, <2>1, <2>2, <2>3
<1>9. CASE Len(frames) - 1 = t
  <2>1. (stack' = Dropped \/ stack' = Returned) /\ LeaveRun("OK") /\ "OK" \in Results
    BY <1>9 DEF Return, Results
  <2>2. /\ stack' \in Seq(Values) /\ Len(stack') <= MaxStack /\ m <= Len(stack')
        /\ \A q \in 1 .. m : stack'[q] = stack[q]
    BY <1>7, <1>8, <2>1
  <2>3. Exited /\ result' \in Results
    BY <1>1, <2>1, LeaveType
  <2> HIDE DEF m, t, now
  <2>4. \A i \in 1 .. Len(active') : i \in 1 .. Len(active)
    BY <2>3, Types DEF Exited, IndInv
  <2>5. StackAbove(m)
    BY <1>2, <1>4, <1>5, <1>6, <2>2, <2>4 DEF StackAbove
  <2>6. Len(frames') = Innermost.target
    BY <1>3, <1>9 DEF t
  <2> QED
    BY <1>1, <1>3, <1>6, <2>2, <2>3, <2>5, <2>6, LeaveInv
<1>10. CASE Len(frames) - 1 # t
  <2>1. stack' = Returned /\ active' = active /\ result' = result
    BY <1>10 DEF Return
  <2>2. /\ stack' \in Seq(Values) /\ Len(stack') <= MaxStack /\ m <= Len(stack')
        /\ \A q \in 1 .. m : stack'[q] = stack[q]
    BY <1>7, <2>1
  <2>3. ActiveKept
    BY <1>2, <1>3, <1>10, <2>1 DEF ActiveKept
  <2> HIDE DEF m, t, now
  <2>4. StackAbove(m)
    BY <1>2, <1>4, <1>5, <1>6, <2>1, <2>2 DEF StackAbove
  <2> QED
    BY <1>1, <1>3, <1>6, <2>1, <2>2, <2>3, <2>4, LeaveInv, OldTypes
<1> QED
  BY <1>9, <1>10

\* A native function finds its arguments; after an error it may not.
LEMMA NativeReturnInv ==
  ASSUME IndInv, NEW v \in Values, NativeReturn(v)
  PROVE  IndInv'
<1> DEFINE n == Innermost.args
           m == Height - n - 1
           now == stack'
<1>1. /\ InNative /\ frames' = frames /\ error' = error /\ steps' = steps
      /\ error \in BOOLEAN /\ steps' \in Nat
  BY OldTypes DEF NativeReturn
<1>2. /\ active # <<>> /\ Innermost \in Activations /\ n \in Nat
      /\ Height \in Nat /\ Height <= MaxStack
      /\ active \in Seq(Activations) /\ Len(active) \in Nat /\ Len(active) >= 1
  <2>1. active # <<>> /\ active \in Seq(Activations)
    BY <1>1, Types DEF IndInv, InNative
  <2>2. Innermost \in Activations /\ Len(active) \in Nat /\ Len(active) >= 1
    BY <2>1, Last DEF Innermost
  <2> QED
    BY <2>1, <2>2, Types, CallsAssumption DEF IndInv, HeightBound, Activations, Arguments
<1>3. ~error => Height > n
  BY <1>1, <1>2, NativeTop
<1>4. CASE Height > n
  <2>1. /\ now = Replaced(m, v) /\ active' = Outer
        /\ result' = IF Running' THEN result ELSE "OK"
    BY <1>4 DEF NativeReturn, Replaced
  <2>2. m \in Nat /\ m <= Height /\ m < MaxStack
    BY <1>2, <1>4, CallsAssumption
  <2> HIDE DEF m, now
  <2>3. /\ now \in Seq(Values) /\ Len(now) = m + 1 /\ Len(now) <= MaxStack
        /\ \A q \in 1 .. m : now[q] = stack[q]
    BY <2>1, <2>2, ReplaceType
  <2>4. result' \in Results
    BY <2>1, OldTypes DEF Results
  <2>5. Exited
    <3> DEFINE outer == active'
    <3>1. /\ outer \in Seq(Activations) /\ Len(outer) = Len(active) - 1
          /\ \A i \in 1 .. Len(active) - 1 : outer[i] = active[i]
      BY <1>2, <2>1, OuterType
    <3> QED
      BY <3>1 DEF Exited
  <2>6. CASE error
    <3>1. TypeOK' /\ HeightBound'
      BY <1>1, <2>3, <2>4, <2>5, OldTypes, NextTypes DEF now, Exited
    <3> QED
      BY <1>1, <2>6, <3>1 DEF IndInv
  <2>7. CASE ~error
    <3>1. /\ Innermost.base \in Nat /\ Innermost.base <= Height
          /\ \A k \in 1 .. Len(frames) : frames[k].base < Innermost.base - n
          /\ \A i \in 1 .. Len(active) - 1 :
               IsNative(i) => active[i].base < Innermost.base - n
      BY <1>1, <2>7, NativeTop
    <3>2. Innermost.base - n <= m + 1
      BY <1>2, <3>1 DEF m
    <3>3. \A k \in 1 .. Len(frames') : frames[k].base <= m
      <4> HIDE DEF n
      <4> QED
        BY <1>1, <1>2, <2>2, <3>1, <3>2, Types DEF IndInv
    <3>4. \A i \in 1 .. Len(active') : IsNative(i) => active[i].base <= m
      <4> HIDE DEF n
      <4>1. \A i \in 1 .. Len(active') : i \in 1 .. Len(active) - 1 /\ i \in 1 .. Len(active)
        BY <1>2, <2>5 DEF Exited
      <4> QED
        BY <1>2, <2>2, <3>1, <3>2, <4>1, Types DEF IndInv
    <3>5. StackAbove(m)
      <4>1. Height = Len(stack)
        BY DEF Height
      <4>2. m <= Len(now)
        BY <2>2, <2>3
      <4> QED
        BY <2>2, <2>3, <3>3, <3>4, <4>1, <4>2 DEF StackAbove, now
    <3> QED
      BY <1>1, <2>2, <2>3, <2>4, <2>5, <2>7, <3>5, LeaveInv DEF now
  <2> QED
    BY <1>1, <2>6, <2>7
<1>5. CASE ~(Height > n)
  <2>1. error /\ stack' = stack /\ result' = result
        /\ active' = [active EXCEPT ![Len(active)].kind = "broken"]
    BY <1>1, <1>3, <1>5 DEF NativeReturn
  <2>2. active' \in Seq(Activations)
    <3> DEFINE broken == [Innermost EXCEPT !.kind = "broken"]
    <3>1. broken \in Activations
      BY <1>2 DEF Activations
    <3>2. active' = [active EXCEPT ![Len(active)] = broken]
      BY <2>1 DEF Innermost
    <3> HIDE DEF broken
    <3> QED
      BY <1>2, <3>1, <3>2, ExceptSeq
  <2>3. TypeOK' /\ HeightBound'
    BY <1>1, <2>1, <2>2, OldTypes, NextTypes
  <2> QED
    BY <1>1, <2>1, <2>3 DEF IndInv
<1> QED
  BY <1>4, <1>5

-----------------------------------------------------------------------------
(* The host's calls *)

\* The host, or a native function, finds nothing of a script's above its own.
LEMMA HostTop ==
  ASSUME IndInv, ~error, HostCalls
  PROVE  /\ Floor \in Nat /\ Floor <= Height
         /\ \A k \in 1 .. Len(frames) : frames[k].base <= Floor
         /\ \A i \in 1 .. Len(active) : IsNative(i) => active[i].base <= Floor
         /\ Len(active) >= 1 => IsNative(Len(active))
         /\ Idle => Len(frames) = 0 /\ Len(active) = 0
<1>1. CASE Idle
  BY <1>1, IdleTop, Types DEF IndInv, Floor
<1>2. CASE ~Idle /\ InNative
  <2> DEFINE b == Innermost.base
             n == Innermost.args
  <2>1. /\ b \in Nat /\ n \in Nat /\ n < b /\ b <= Height /\ IsNative(Len(active))
        /\ \A k \in 1 .. Len(frames) : frames[k].base < b - n
        /\ \A i \in 1 .. Len(active) - 1 : IsNative(i) => active[i].base < b - n
        /\ b = active[Len(active)].base
    BY <1>2, NativeTop DEF Innermost
  <2>2. Floor = b
    BY <1>2 DEF Floor
  <2> HIDE DEF b, n
  <2>3. ASSUME NEW k \in 1 .. Len(frames)
        PROVE  frames[k].base <= b
    <3>1. frames[k].base < b - n /\ frames[k].base \in Nat
      BY <2>1, Types DEF IndInv
    <3> QED
      BY <2>1, <3>1
  <2>4. ASSUME NEW i \in 1 .. Len(active), IsNative(i)
        PROVE  active[i].base <= b
    <3>1. active[i].base \in Nat /\ Len(active) \in Nat
      BY Types DEF IndInv
    <3>2. CASE i = Len(active)
      BY <2>1, <3>1, <3>2
    <3>3. CASE i # Len(active)
      <4>1. active[i].base < b - n
        BY <2>1, <2>4, <3>1, <3>3
      <4> QED
        BY <2>1, <3>1, <4>1
    <3> QED
      BY <3>2, <3>3
  <2> QED
    BY <1>2, <2>1, <2>2, <2>3, <2>4
<1> QED
  BY <1>1, <1>2 DEF HostCalls

LEMMA RaiseToHostInv ==
  ASSUME IndInv, RaiseToHost
  PROVE  IndInv'
<1>1. Raise /\ active' = active /\ steps' = steps /\ result' \in Results
  BY DEF RaiseToHost, Results
<1> QED
  BY <1>1, RaiseInv, OldTypes

LEMMA HostPushInv ==
  ASSUME IndInv, NEW v \in Values, HostPush(v)
  PROVE  IndInv'
<1>1. /\ HostCalls /\ Room /\ stack' = Append(stack, v)
      /\ UNCHANGED <<frames, active, error, steps, result>>
  BY DEF HostPush
<1> DEFINE now == stack'
           h == Height
<1>0. HostCalls /\ Room /\ Pushed(now, v) /\ h = Height
  BY <1>1 DEF Pushed
<1> HIDE DEF now, h
<1>2. /\ now \in Seq(Values) /\ Len(now) = h + 1 /\ Len(now) <= MaxStack
      /\ h \in Nat /\ \A q \in 1 .. h : now[q] = stack[q]
  BY <1>0, PushType
<1>3. h = Len(stack) /\ h <= Len(now)
  BY <1>0, <1>2 DEF Height
<1>4. ASSUME ~error
      PROVE  /\ \A k \in 1 .. Len(frames) : frames[k].base <= h
             /\ \A i \in 1 .. Len(active) : IsNative(i) => active[i].base <= h
  <2>1. /\ Floor \in Nat /\ Floor <= h
        /\ \A k \in 1 .. Len(frames) : frames[k].base <= Floor
        /\ \A i \in 1 .. Len(active) : IsNative(i) => active[i].base <= Floor
    BY <1>0, <1>4, HostTop
  <2>2. /\ \A k \in 1 .. Len(frames) : frames[k].base \in Nat
        /\ \A i \in 1 .. Len(active) : active[i].base \in Nat
    BY Types DEF IndInv
  <2> QED
    BY <1>2, <2>1, <2>2
<1> QED
  <2>1. /\ stack' \in Seq(Values) /\ Len(stack') <= MaxStack
        /\ h \in Nat /\ h <= Len(stack') /\ h <= Len(stack)
    BY <1>2, <1>3 DEF now
  <2>2. ~error => /\ \A q \in 1 .. h : stack'[q] = stack[q]
                  /\ \A k \in 1 .. Len(frames) : frames[k].base <= h
                  /\ \A i \in 1 .. Len(active) : IsNative(i) => active[i].base <= h
    BY <1>2, <1>4 DEF now
  <2>3. /\ frames' = frames /\ active' = active /\ error' = error
        /\ steps' \in Nat /\ result' \in Results
    BY <1>1, OldTypes
  <2> QED
    BY <2>1, <2>2, <2>3, StackInv

LEMMA HostPopInv ==
  ASSUME IndInv, HostPop
  PROVE  IndInv'
<1>1. /\ HostCalls /\ Height > Floor /\ stack' = Keep(Height - 1)
      /\ UNCHANGED <<frames, active, error, steps, result>>
  BY DEF HostPop
<1> DEFINE now == stack'
           m == Height - 1
<1>2. Floor \in Nat /\ Height \in Nat /\ Height = Len(stack)
  <2>1. active # <<>> => Innermost.base \in Nat
    BY Types, Last, CallsAssumption DEF IndInv, Innermost, Activations
  <2> QED
    BY <2>1, Types DEF IndInv, Floor, Idle
<1>3. m \in Nat /\ m <= Height /\ Floor <= m
  BY <1>1, <1>2
<1> HIDE DEF m, now
<1>4. /\ now \in Seq(Values) /\ Len(now) = m /\ Len(now) <= MaxStack
      /\ \A q \in 1 .. m : now[q] = stack[q]
  BY <1>1, <1>3, KeepType DEF now, m
<1>5. ASSUME ~error
      PROVE  /\ \A k \in 1 .. Len(frames) : frames[k].base <= m
             /\ \A i \in 1 .. Len(active) : IsNative(i) => active[i].base <= m
  <2>1. ASSUME NEW k \in 1 .. Len(frames)
        PROVE  frames[k].base <= m
    <3>1. frames[k].base <= Floor /\ frames[k].base \in Nat
      BY <1>1, <1>5, HostTop, Types DEF IndInv
    <3> QED
      BY <1>2, <1>3, <3>1
  <2>2. ASSUME NEW i \in 1 .. Len(active), IsNative(i)
        PROVE  active[i].base <= m
    <3>1. active[i].base <= Floor /\ active[i].base \in Nat
      BY <1>1, <1>5, <2>2, HostTop, Types DEF IndInv
    <3> QED
      BY <1>2, <1>3, <3>1
  <2> QED
    BY <2>1, <2>2
<1>6. m <= Len(now) /\ m <= Len(stack)
  BY <1>2, <1>3, <1>4
<1> QED
  BY <1>1, <1>3, <1>4, <1>5, <1>6, StackInv, OldTypes DEF now

LEMMA HostCallInv ==
  ASSUME IndInv, NEW n \in Arguments, HostCall(n)
  PROVE  IndInv'
<1>1. /\ HostCalls /\ (InNative /\ ~error => Height - n > Floor)
      /\ n \in Nat /\ Height \in Nat /\ Height <= MaxStack
  BY Types, CallsAssumption DEF HostCall, IndInv, HeightBound, Arguments
<1>2. CASE RaiseToHost
  BY <1>2, RaiseToHostInv
<1>3. CASE ~RaiseToHost
  <2>1. /\ Height >= n + 1 /\ CalleeAt(n) # "plain"
        /\ ~(CalleeAt(n) = "closure" /\ Refused(n))
        /\ UNCHANGED <<stack, error, steps, result>>
    BY <1>1, <1>3 DEF HostCall
  <2> DEFINE p == Height - n
  <2>2. p \in 1 .. Height /\ p \in Nat /\ n < Height
    BY <1>1, <2>1
  <2>3. CalleeAt(n) = stack[p] /\ CalleeAt(n) \in {"closure", "native"}
    BY <2>1, <2>2, TopType DEF CalleeAt, Values
  <2> HIDE DEF p
  <2>4. ASSUME ~error
        PROVE  /\ \A k \in 1 .. Len(frames) : frames[k].base < p
               /\ \A i \in 1 .. Len(active) : IsNative(i) => active[i].base < p
               /\ Len(active) >= 1 => IsNative(Len(active))
    <3>1. CASE Idle
      BY <1>1, <2>4, <3>1, HostTop
    <3>2. CASE ~Idle
      <4>1. Floor < p /\ Floor \in Nat
        BY <1>1, <2>4, <3>2, HostTop DEF p, HostCalls
      <4>2. ASSUME NEW k \in 1 .. Len(frames)
            PROVE  frames[k].base < p
        <5>1. frames[k].base <= Floor /\ frames[k].base \in Nat
          BY <1>1, <2>4, HostTop, Types DEF IndInv
        <5> QED
          BY <2>2, <4>1, <5>1
      <4>3. ASSUME NEW i \in 1 .. Len(active), IsNative(i)
            PROVE  active[i].base < p
        <5>1. active[i].base <= Floor /\ active[i].base \in Nat
          BY <1>1, <2>4, <4>3, HostTop, Types DEF IndInv
        <5> QED
          BY <2>2, <4>1, <5>1
      <4> QED
        BY <1>1, <2>4, <4>2, <4>3, HostTop
    <3> QED
      BY <3>1, <3>2
  <2>5. CASE CalleeAt(n) = "native"
    <3>1. active' = Append(active, Native(n)) /\ frames' = frames
      BY <1>1, <1>3, <2>5 DEF HostCall
    <3>2. Entered(Native(n))
      BY <3>1, NewActivation, AppendIsEntered DEF IndInv
    <3>3. ~error => /\ \A k \in 1 .. Len(frames) : frames[k].base < Height - n
                    /\ \A i \in 1 .. Len(active) : IsNative(i) => active[i].base < Height - n
      BY <2>4 DEF p
    <3> QED
      BY <2>1, <2>2, <3>1, <3>2, <3>3, EnterNativeInv, OldTypes
  <2>6. CASE CalleeAt(n) = "closure"
    <3>1. /\ active' = Append(active, Run(Len(frames))) /\ frames' = Append(frames, NewFrame(n))
          /\ n = Arity /\ Len(frames) # FramesMax
      BY <1>1, <1>3, <2>1, <2>6 DEF HostCall, Refused
    <3>2. Entered(Run(Len(frames)))
      BY <3>1, NewActivation, AppendIsEntered, Types DEF IndInv
    <3> DEFINE b == Height
    <3>3. /\ p \in 1 .. MaxStack /\ b \in 1 .. MaxStack /\ p <= b /\ b <= Len(stack')
          /\ b - p \in {0, Arity}
      BY <1>1, <2>1, <2>2, <3>1, CallsAssumption DEF Height, p
    <3>4. NewFrame(n) = [slots |-> p, base |-> b]
      BY DEF NewFrame, p
    <3> HIDE DEF b
    <3>5. Framed([slots |-> p, base |-> b])
      BY <3>1, <3>3, <3>4, AppendIsFramed DEF FrameSet
    <3>6. ~error => RunAbove(p, b)
      BY <2>1, <2>3, <2>4, <2>6, <3>3 DEF RunAbove
    <3>7. Height <= Len(stack')
      BY <1>1, <2>1 DEF Height
    <3> QED
      BY <2>1, <3>1, <3>2, <3>3, <3>5, <3>6, <3>7, EnterRunInv, OldTypes
  <2> QED
    BY <2>3, <2>5, <2>6
<1> QED
  BY <1>2, <1>3

LEMMA LoadStringInv ==
  ASSUME IndInv, LoadString
  PROVE  IndInv'
<1>1. Idle /\ Room /\ active = <<>> /\ Len(active) = 0
  BY DEF LoadString, Idle
<1>2. CASE result' = "COMPILE_ERROR" /\ UNCHANGED <<stack, frames, active, error, steps>>
  <2>1. result' \in Results /\ Len(stack) \in Nat
    BY <1>2, Types DEF Results, IndInv, Height
  <2>2. ~error => /\ \A k \in 1 .. Len(frames) : frames[k].base <= Len(stack)
                  /\ \A i \in 1 .. Len(active) : IsNative(i) => active[i].base <= Len(stack)
    BY <1>1, IdleTop
  <2> QED
    BY <1>2, <2>1, <2>2, StackInv, OldTypes
<1>3. CASE RaiseToHost
  BY <1>3, RaiseToHostInv
<1>4. CASE ~RaiseToHost /\ ~(result' = "COMPILE_ERROR" /\ UNCHANGED <<stack, frames, active, error, steps>>)
  <2> DEFINE p == Height + 1
             now == stack'
  <2>1. /\ Len(frames) # FramesMax /\ now = Append(stack, "closure")
        /\ frames' = Append(frames, [slots |-> p, base |-> p])
        /\ active' = Append(active, Run(0))
        /\ UNCHANGED <<error, steps, result>>
    BY <1>4 DEF LoadString
  <2>2. PICK v \in Values : v = "closure"
    BY DEF Values
  <2>3. /\ now \in Seq(Values) /\ Len(now) = p /\ Len(now) <= MaxStack
        /\ now[p] = "closure" /\ Height \in Nat
        /\ \A q \in 1 .. Height : now[q] = stack[q]
    <3>1. Pushed(now, v)
      BY <2>1, <2>2 DEF Pushed
    <3> HIDE DEF now
    <3>2. /\ now \in Seq(Values) /\ Len(now) = Height + 1 /\ Len(now) <= MaxStack
          /\ Height \in Nat
      BY <1>1, <3>1, PushType
    <3>4. \A q \in 1 .. Height : now[q] = stack[q]
      BY <1>1, <3>1, PushType
    <3>3. now[Height + 1] = v
      BY <1>1, <3>1, PushType
    <3> QED
      BY <2>2, <3>2, <3>3, <3>4
  <2> HIDE DEF now
  <2>4. p \in 1 .. MaxStack /\ p <= p /\ p <= Len(now) /\ Height <= Len(now) /\ p - p = 0
    BY <2>3, CallsAssumption
  <2> HIDE DEF p
  <2>5. Framed([slots |-> p, base |-> p])
    BY <2>1, <2>4, AppendIsFramed DEF FrameSet
  <2>6. CASE ~error
    <3>1. Len(frames) = 0
      BY <1>1, <2>6, IdleTop
    <3>2. Entered(Run(Len(frames)))
      <4>1. active' = Append(active, Run(Len(frames)))
        BY <2>1, <3>1
      <4> QED
        BY <4>1, NewActivation, AppendIsEntered, Types DEF IndInv
    <3>3. RunAbove(p, p)
      BY <1>1, <2>3, <2>4, <3>1 DEF RunAbove, now
    <3> QED
      BY <2>1, <2>3, <2>4, <2>5, <3>2, <3>3, EnterRunInv, OldTypes DEF now
  <2>7. CASE error
    <3>1. Entered(Run(0))
      BY <2>1, NewActivation, AppendIsEntered, CallsAssumption DEF IndInv
    <3>2. Len(frames') <= FramesMax
      BY <2>1, <2>5, OldTypes, Types, CallsAssumption DEF Framed, IndInv
    <3>3. TypeOK' /\ HeightBound'
      BY <2>1, <2>3, <2>5, <3>1, <3>2, OldTypes, NextTypes DEF now, Framed, Entered
    <3> QED
      BY <2>1, <2>7, <3>3 DEF IndInv
  <2> QED
    BY <2>6, <2>7 DEF IndInv, TypeOK
<1> QED
  BY <1>2, <1>3, <1>4

LEMMA SetMaxStepsInv ==
  ASSUME IndInv, SetMaxSteps
  PROVE  IndInv'
<1>1. /\ Idle /\ active = <<>> /\ Len(active) = 0 /\ steps' = 0
      /\ UNCHANGED <<stack, frames, active, error, result>> /\ Len(stack) \in Nat
  BY Types DEF SetMaxSteps, Idle, IndInv, Height
<1>2. ~error => /\ \A k \in 1 .. Len(frames) : frames[k].base <= Len(stack)
                /\ \A i \in 1 .. Len(active) : IsNative(i) => active[i].base <= Len(stack)
  BY <1>1, IdleTop
<1> QED
  BY <1>1, <1>2, StackInv, OldTypes

-----------------------------------------------------------------------------
(* Theorems *)

LEMMA LoopInv ==
  ASSUME IndInv, Loop
  PROVE  IndInv'
<1>1. CASE Timeout
  <2>1. /\ Running /\ Raise /\ steps' = NextStep
        /\ LeaveRun("TIMEOUT") /\ "TIMEOUT" \in Results
    BY <1>1 DEF Timeout, Results
  <2> QED
    BY <2>1, FailInv
<1>2. CASE Fail
  <2>1. /\ Running /\ Raise /\ steps' = NextStep
        /\ LeaveRun("RUNTIME_ERROR") /\ "RUNTIME_ERROR" \in Results
    BY <1>2 DEF Fail, Execute, Results
  <2> QED
    BY <2>1, FailInv
<1>3. ASSUME NEW n \in Arguments, CallOther(n)
      PROVE  IndInv'
  <2>1. /\ Running /\ Raise /\ steps' = NextStep
        /\ LeaveRun("RUNTIME_ERROR") /\ "RUNTIME_ERROR" \in Results
    BY <1>3 DEF CallOther, Execute, Results
  <2> QED
    BY <2>1, FailInv
<1>4. CASE PendingError \/ Compute \/ Return
  BY <1>4, PendingErrorInv, ComputeInv, ReturnInv
<1>5. ASSUME NEW n \in Arguments, CallClosure(n) \/ CallNative(n)
      PROVE  IndInv'
  BY <1>5, CallClosureInv, CallNativeInv
<1> QED
  BY <1>1, <1>2, <1>3, <1>4, <1>5 DEF Loop

LEMMA NextInv ==
  ASSUME IndInv, [Next]_vars
  PROVE  IndInv'
<1>1. CASE Loop
  BY <1>1, LoopInv
<1>2. ASSUME NEW v \in Values, NativeReturn(v)
      PROVE  IndInv'
  BY <1>2, NativeReturnInv
<1>3. CASE Host
  BY <1>3, HostPushInv, HostPopInv, HostCallInv, LoadStringInv, SetMaxStepsInv DEF Host
<1>4. CASE UNCHANGED vars
  BY <1>4 DEF vars, IndInv, TypeOK, HeightBound, Height, Nested, FramesApart,
              RunsUnderNatives, RunsHaveFrames, NativesApart, RunsApart, IsRun, IsNative
<1> QED
  BY <1>1, <1>2, <1>3, <1>4 DEF Next

\* The inductive invariant holds always.
THEOREM CallsInv == Spec => []IndInv
BY InitInv, NextInv, PTL DEF Spec

\* The variables keep their types, and there are never more frames than FramesMax:
\* however deep scripts and native functions call each other, vm.frames does not
\* overflow.
THEOREM CallsTypeOK == Spec => []TypeOK
<1>1. IndInv => TypeOK
  BY DEF IndInv
<1> QED
  BY <1>1, CallsInv, PTL

\* Frames never overlap, and each begins at a callee of its own.
THEOREM CallsFramesNested == Spec => []FramesNested
<1>1. ASSUME IndInv
      PROVE  FramesNested
  <2>1. ASSUME ~error, NEW k \in 1 .. Len(frames)
        PROVE  /\ stack[frames[k].slots] = "closure"
               /\ frames[k].base - frames[k].slots \in {0, Arity}
               /\ frames[k].base <= Height
               /\ k > 1 => frames[k].slots > frames[k - 1].base
    <3>1. /\ stack[frames[k].slots] = "closure"
          /\ frames[k].base - frames[k].slots \in {0, Arity}
          /\ frames[k].base <= Height
          /\ \A l \in 1 .. k - 1 : frames[l].base < frames[k].slots
      BY <1>1, <2>1 DEF IndInv, Nested, FramesApart
    <3>2. ASSUME k > 1
          PROVE  frames[k].slots > frames[k - 1].base
      <4>1. k - 1 \in 1 .. k - 1 /\ k - 1 \in 1 .. Len(frames)
        BY <1>1, <3>2, Types DEF IndInv
      <4>2. frames[k - 1].base \in Nat /\ frames[k].slots \in Nat
        BY <1>1, <4>1, Types DEF IndInv
      <4> QED
        BY <3>1, <4>1, <4>2
    <3> QED
      BY <3>1, <3>2
  <2> QED
    BY <2>1 DEF FramesNested
<1> QED
  BY <1>1, CallsInv, PTL

\* Every activation of run() returns when its own frames are used up: it never
\* runs a frame of the activation around it, nor leaves one of its own behind.
THEOREM CallsRunsOwnFrames == Spec => []RunsOwnFrames
<1>1. ASSUME IndInv
      PROVE  RunsOwnFrames
  BY <1>1, IdleTop, RunTop DEF RunsOwnFrames
<1> QED
  BY <1>1, CallsInv, PTL

\* Natives find their arguments when they return, whatever they have called.
THEOREM CallsNativesFindArguments == Spec => []NativesFindArguments
<1>1. ASSUME IndInv
      PROVE  NativesFindArguments
  BY <1>1 DEF NativesFindArguments, IndInv, Nested, NativesApart, IsNative
<1> QED
  BY <1>1, CallsInv, PTL

\* Two stacks that agree up to m.
LEMMA SamePrefix ==
  ASSUME IndInv, NEW m \in Nat, m <= Height, NEW s \in Seq(Values), m <= Len(s),
         \A q \in 1 .. m : s[q] = stack[q]
  PROVE  SubSeq(s, 1, m) = Keep(m)
<1> DEFINE left == SubSeq(s, 1, m)
           right == Keep(m)
<1>1. right \in Seq(Values) /\ Len(right) = m /\ \A q \in 1 .. m : right[q] = stack[q]
  BY KeepType
<1>2. left \in Seq(Values) /\ Len(left) = m /\ \A q \in 1 .. m : left[q] = s[q]
  <2>1. m \in 0 .. Len(s)
    BY LenProperties
  <2> QED
    BY <2>1, Prefix
<1> HIDE DEF left, right
<1>3. left = right
  BY <1>1, <1>2, SeqEqual
<1> QED
  BY <1>3 DEF left, right

\* A function never touches what lies below its own frame, whatever it calls.
THEOREM CallsCallerUntouched == Spec => CallerUntouched
<1> DEFINE m == Frame.slots - 1
<1>1. ASSUME IndInv, Next, Running, ~error', Len(frames) > 1
      PROVE  SubSeq(stack', 1, m) = Keep(m)
  <2>1. ~error
    <3>1. ASSUME error
          PROVE  FALSE
      <4>1. PendingError
        BY <1>1, <3>1
           DEF Next, Loop, Host, Timeout, Compute, Fail, CallClosure, CallNative, CallOther,
               Return, Execute, NativeReturn, HostPush, HostPop, HostCall, LoadString,
               SetMaxSteps, HostCalls, Running, InNative, Idle
      <4> QED
        BY <1>1, <3>1, <4>1 DEF PendingError
    <3> QED
      BY <3>1
  <2>2. /\ Frame.slots \in Nat /\ Frame.slots >= 1 /\ Frame.base \in Nat
        /\ Frame.slots <= Frame.base /\ Frame.base <= Height
        /\ Height \in Nat /\ Height = Len(stack) /\ stack \in Seq(Values)
        /\ Height <= MaxStack
    BY <1>1, <2>1, RunTop, Types DEF IndInv, HeightBound
  <2>3. m \in Nat /\ m < Height /\ m <= Height
    BY <2>2
  <2> HIDE DEF m
  <2>4. CASE Compute
    <3> DEFINE now == stack'
    <3>1. (\E v \in Values : Room /\ Pushed(now, v))
            \/ (Height > Frame.base /\ now = Keep(Height - 1))
      BY <2>4 DEF Compute, Pushed
    <3> HIDE DEF now
    <3>2. ASSUME NEW v \in Values, Room, Pushed(now, v)
          PROVE  now \in Seq(Values) /\ m <= Len(now) /\ \A q \in 1 .. m : now[q] = stack[q]
      <4>1. /\ now \in Seq(Values) /\ Len(now) = Height + 1
            /\ \A q \in 1 .. Height : now[q] = stack[q]
        BY <1>1, <3>2, PushType
      <4> QED
        BY <2>2, <2>3, <4>1
    <3>3. ASSUME now = Keep(Height - 1)
          PROVE  now \in Seq(Values) /\ m <= Len(now) /\ \A q \in 1 .. m : now[q] = stack[q]
      <4> DEFINE n == Height - 1
      <4>1. n \in Nat /\ n <= Height /\ m <= n /\ now = Keep(n)
        BY <2>2, <2>3, <3>3
      <4> HIDE DEF n
      <4>2. now \in Seq(Values) /\ Len(now) = n /\ \A q \in 1 .. n : now[q] = stack[q]
        BY <1>1, <4>1, KeepType
      <4> QED
        BY <2>3, <4>1, <4>2
    <3>4. now \in Seq(Values) /\ m <= Len(now) /\ \A q \in 1 .. m : now[q] = stack[q]
      BY <3>1, <3>2, <3>3
    <3>5. SubSeq(now, 1, m) = Keep(m)
      BY <1>1, <2>2, <2>3, <3>4, SamePrefix
    <3> QED
      BY <3>5 DEF now
  <2>5. CASE Return
    <3>1. Innermost.target = 0 => Len(frames) - 1 # Innermost.target
      BY <1>1, Types DEF IndInv
    <3>2. stack' = Returned
      BY <2>5, <3>1 DEF Return
    <3> DEFINE now == stack'
    <3>3. now = Replaced(m, stack[Height]) /\ stack[Height] \in Values /\ m < MaxStack
      BY <1>1, <2>2, <2>3, <3>2, TopType, CallsAssumption DEF Returned, Replaced, m
    <3> HIDE DEF now
    <3>4. /\ now \in Seq(Values) /\ Len(now) = m + 1 /\ m <= Len(now)
          /\ \A q \in 1 .. m : now[q] = stack[q]
      BY <1>1, <2>2, <2>3, <3>3, ReplaceType
    <3>5. SubSeq(now, 1, m) = Keep(m)
      BY <1>1, <2>2, <2>3, <3>4, SamePrefix
    <3> QED
      BY <3>5 DEF now
  <2>6. CASE stack' = stack
    BY <2>6 DEF Keep
  <2> QED
    BY <1>1, <2>1, <2>4, <2>5, <2>6
       DEF Next, Loop, Host, PendingError, Timeout, Fail, CallClosure, CallNative, CallOther,
           Raise, Execute, NativeReturn, HostPush, HostPop, HostCall, LoadString,
           SetMaxSteps, HostCalls, Running, InNative, Idle
<1>2. ASSUME IndInv, UNCHANGED vars
      PROVE  SubSeq(stack', 1, m) = Keep(m)
  BY <1>2 DEF vars, Keep
<1>3. IndInv /\ [Next]_vars =>
        [Running /\ ~error' /\ Len(frames) > 1
           => SubSeq(stack', 1, Frame.slots - 1) = Keep(Frame.slots - 1)]_vars
  BY <1>1, <1>2
<1> QED
  BY <1>3, CallsInv, PTL DEF Spec, CallerUntouched
=============================================================================
