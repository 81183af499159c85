------------------------------ MODULE Upvalues ------------------------------
(***************************************************************************)
(* Captured variables as src/src/vm.c keeps them: an upvalue points at a   *)
(* slot of the stack as long as the slot lasts and holds the value itself  *)
(* afterwards.  The list of open upvalues is sorted by slot, so that two   *)
(* closures that capture one slot find the same upvalue, and leaving a     *)
(* scope or a function closes a prefix of the list.  The compiler gives    *)
(* slots away with OP_POP or OP_CLOSE_UPVALUE; it may choose the wrong one *)
(* once an expression statement without a semicolon has left its value on  *)
(* the stack, and an upvalue is then left pointing above the top.          *)
(***************************************************************************)
EXTENDS Integers, Sequences

CONSTANTS
  Vars,      \* history: identities of variables
  Values,    \* what a slot of the stack can hold
  Nil,       \* one of them
  FramesMax, \* MJ_FRAMES_MAX
  MaxStack, MaxClosures, MaxUpvalues   \* bounds

ASSUME UpvaluesAssumption ==
  /\ Vars # {} /\ Nil \in Values
  /\ FramesMax \in Nat /\ MaxStack \in Nat /\ MaxClosures \in Nat /\ MaxUpvalues \in Nat

VARIABLES
  stack,     \* vm.stack up to stack_top
  frames,    \* vm.frames: frame->slots, and the closure or 0 for a script
  closures,  \* the upvalues of each closure, in the order they were made
  location,  \* upvalue->location: a slot, or 0 for &upvalue->closed
  closed,    \* upvalue->closed
  open,      \* the list vm.open_upvalues
  pending,   \* upvalues OP_CLOSURE has still to set
  home,      \* history: the variable in each slot
  of,        \* history: the variable each upvalue was made for
  stranded   \* history: open upvalues whose slot OP_POP has given away

vars == <<stack, frames, closures, location, closed, open, pending, home, of, stranded>>

Init ==
  /\ stack = <<>>
  /\ frames = <<>>
  /\ closures = <<>>
  /\ location = <<>>
  /\ closed = <<>>
  /\ open = <<>>
  /\ pending = 0
  /\ home = <<>>
  /\ of = <<>>
  /\ stranded = {}

Height == Len(stack)

Frame == frames[Len(frames)]

Ready == frames # <<>> /\ pending = 0

ElementsOf(s) == {s[i] : i \in 1 .. Len(s)}

Unused == Vars \ (ElementsOf(home) \cup ElementsOf(of))

Fresh == CHOOSE x \in Vars : x \in Unused

Push(v) ==
  /\ Height < MaxStack
  /\ Unused # {}
  /\ stack' = Append(stack, v)
  /\ home' = Append(home, Fresh)

\* What *upvalue->location may be: above the top of the stack lies what was
\* last left there.
Deref(u) ==
  IF location[u] = 0 THEN {closed[u]}
  ELSE IF location[u] <= Height THEN {stack[location[u]]}
  ELSE Values

\* Upvalue number k of the running function.
Upvalue(k) == closures[Frame.closure][k]

UpvalueNumbers == IF Frame.closure = 0 THEN {} ELSE 1 .. Len(closures[Frame.closure])

LocalSlots == Frame.slots .. Height

-----------------------------------------------------------------------------
(* The list of open upvalues *)

\* How many upvalues the search of capture_upvalue passes over.
Passed(slot) ==
  CHOOSE n \in 0 .. Len(open) :
    /\ \A i \in 1 .. n : location[open[i]] > slot
    /\ n < Len(open) => location[open[n + 1]] <= slot

Captured(slot) ==
  Passed(slot) < Len(open) /\ location[open[Passed(slot) + 1]] = slot

\* Mutant: a new upvalue always becomes the first of the list.
Inserted_First(u, slot) == <<u>> \o open

Inserted(u, slot) ==
  SubSeq(open, 1, Passed(slot)) \o <<u>> \o SubSeq(open, Passed(slot) + 1, Len(open))

\* Mutant: the slot itself is left open.
Closing_Above(last) ==
  CHOOSE n \in 0 .. Len(open) :
    /\ \A i \in 1 .. n : location[open[i]] > last
    /\ n < Len(open) => location[open[n + 1]] <= last

\* How many upvalues close_upvalues takes off the list.
Closing(last) ==
  CHOOSE n \in 0 .. Len(open) :
    /\ \A i \in 1 .. n : location[open[i]] >= last
    /\ n < Len(open) => location[open[n + 1]] < last

\* Mutant: location is redirected before the value is copied.
CloseUpvalues_Swapped(last) ==
  LET gone == {open[i] : i \in 1 .. Closing(last)}
  IN  /\ closed' = closed
      /\ location' = [u \in DOMAIN location |-> IF u \in gone THEN 0 ELSE location[u]]
      /\ open' = SubSeq(open, Closing(last) + 1, Len(open))
      /\ stranded' = stranded \ gone

\* close_upvalues
CloseUpvalues(last) ==
  LET gone == {open[i] : i \in 1 .. Closing(last)}
  IN  /\ \E copy \in [gone -> Values] :
           /\ \A u \in gone : copy[u] \in Deref(u)
           /\ closed' = [u \in DOMAIN closed |-> IF u \in gone THEN copy[u] ELSE closed[u]]
      /\ location' = [u \in DOMAIN location |-> IF u \in gone THEN 0 ELSE location[u]]
      /\ open' = SubSeq(open, Closing(last) + 1, Len(open))
      /\ stranded' = stranded \ gone

Give(u) ==
  /\ closures' = [closures EXCEPT ![Len(closures)] = Append(@, u)]
  /\ pending' = pending - 1

-----------------------------------------------------------------------------
(* The instructions *)

\* A script is entered: its closure is pushed and is slot 0 of its frame.
Enter(v) ==
  /\ frames = <<>>
  /\ Push(v)
  /\ frames' = <<[slots |-> Height + 1, closure |-> 0]>>
  /\ UNCHANGED <<closures, location, closed, open, pending, of, stranded>>

\* Any instruction that pushes a value: a declaration, or an operand.
Declare(v) ==
  /\ Ready
  /\ Push(v)
  /\ UNCHANGED <<frames, closures, location, closed, open, pending, of, stranded>>

\* OP_GET_LOCAL
GetLocal(slot) ==
  /\ Ready
  /\ slot \in LocalSlots
  /\ Push(stack[slot])
  /\ UNCHANGED <<frames, closures, location, closed, open, pending, of, stranded>>

\* OP_SET_LOCAL
SetLocal(slot) ==
  /\ Ready
  /\ slot \in LocalSlots
  /\ stack' = [stack EXCEPT ![slot] = stack[Height]]
  /\ UNCHANGED <<frames, closures, location, closed, open, pending, home, of, stranded>>

\* OP_GET_UPVALUE
GetUpvalue(k) ==
  /\ Ready
  /\ k \in UpvalueNumbers
  /\ \E v \in Deref(Upvalue(k)) : Push(v)
  /\ UNCHANGED <<frames, closures, location, closed, open, pending, of, stranded>>

\* OP_SET_UPVALUE; above the top of the stack the value is not kept.
SetUpvalue(k) ==
  /\ Ready
  /\ k \in UpvalueNumbers
  /\ LET u == Upvalue(k)
     IN  CASE location[u] = 0 ->
                closed' = [closed EXCEPT ![u] = stack[Height]] /\ UNCHANGED stack
           [] location[u] \in 1 .. Height ->
                stack' = [stack EXCEPT ![location[u]] = stack[Height]] /\ UNCHANGED closed
           [] OTHER -> UNCHANGED <<stack, closed>>
  /\ UNCHANGED <<frames, closures, location, open, pending, home, of, stranded>>

\* OP_POP, which the compiler emits for operands and for locals that no
\* function captures, but also for a captured one whose place among the locals
\* is no longer its slot.
Pop ==
  /\ Ready
  /\ Height > Frame.slots
  /\ stack' = SubSeq(stack, 1, Height - 1)
  /\ home' = SubSeq(home, 1, Height - 1)
  /\ stranded' = stranded \cup {u \in DOMAIN location : location[u] = Height}
  /\ UNCHANGED <<frames, closures, location, closed, open, pending, of>>

\* OP_CLOSE_UPVALUE, for locals that some function captures.
CloseUpvalue ==
  /\ Ready
  /\ Height > Frame.slots
  /\ CloseUpvalues(Height)
  /\ stack' = SubSeq(stack, 1, Height - 1)
  /\ home' = SubSeq(home, 1, Height - 1)
  /\ UNCHANGED <<frames, closures, pending, of>>

\* Mutant: the loop runs once too often.
Closure_OneMore(v, n) ==
  /\ Ready
  /\ Push(v)
  /\ Len(closures) < MaxClosures
  /\ closures' = Append(closures, <<>>)
  /\ pending' = n + 1
  /\ UNCHANGED <<frames, location, closed, open, of, stranded>>

\* OP_CLOSURE, before its loop: the new closure has n upvalues to get.
Closure(v, n) ==
  /\ Ready
  /\ Push(v)
  /\ Len(closures) < MaxClosures
  /\ closures' = Append(closures, <<>>)
  /\ pending' = n
  /\ UNCHANGED <<frames, location, closed, open, of, stranded>>

\* OP_CLOSURE captures a local of the running function.
CaptureLocal(slot) ==
  /\ pending > 0
  /\ slot \in LocalSlots
  /\ IF Captured(slot)
       THEN /\ Give(open[Passed(slot) + 1])
            /\ UNCHANGED <<location, closed, open, of>>
       ELSE /\ location' = Append(location, slot)
            /\ closed' = Append(closed, Nil)
            /\ open' = Inserted(Len(location) + 1, slot)
            /\ of' = Append(of, home[slot])
            /\ Give(Len(location) + 1)
  /\ UNCHANGED <<stack, frames, home, stranded>>

\* OP_CLOSURE passes on an upvalue of the running function.
PassOn(k) ==
  /\ pending > 0
  /\ k \in UpvalueNumbers
  /\ Give(Upvalue(k))
  /\ UNCHANGED <<stack, frames, location, closed, open, home, of, stranded>>

\* OP_CALL with n arguments.
Call(c, n) ==
  /\ Ready
  /\ Len(frames) < FramesMax
  /\ Height - n > Frame.slots
  /\ frames' = Append(frames, [slots |-> Height - n, closure |-> c])
  /\ UNCHANGED <<stack, closures, location, closed, open, pending, home, of, stranded>>

\* OP_RETURN.  A script has no return statement: its end pops the result and
\* one more slot, its closure if no statement has left anything above it.
Return ==
  /\ Ready
  /\ Height > Frame.slots
  /\ CloseUpvalues(Frame.slots)
  /\ frames' = SubSeq(frames, 1, Len(frames) - 1)
  /\ IF Len(frames) = 1
       THEN /\ stack' = SubSeq(stack, 1, Height - 2)
            /\ home' = SubSeq(home, 1, Height - 2)
       ELSE /\ Unused # {}
            /\ stack' = Append(SubSeq(stack, 1, Frame.slots - 1), stack[Height])
            /\ home' = Append(SubSeq(home, 1, Frame.slots - 1), Fresh)
  /\ UNCHANGED <<closures, pending, of>>

Next ==
  \/ \E v \in Values : Enter(v) \/ Declare(v)
  \/ \E slot \in 1 .. MaxStack : GetLocal(slot) \/ SetLocal(slot) \/ CaptureLocal(slot)
  \/ \E k \in 1 .. MaxUpvalues : GetUpvalue(k) \/ SetUpvalue(k) \/ PassOn(k)
  \/ Pop
  \/ CloseUpvalue
  \/ \E v \in Values, n \in 0 .. MaxUpvalues : Closure(v, n)
  \/ \E c \in 1 .. MaxClosures, n \in 0 .. MaxStack : c <= Len(closures) /\ Call(c, n)
  \/ Return

Spec == Init /\ [][Next]_vars

-----------------------------------------------------------------------------
(* Properties *)

Open == {u \in DOMAIN location : location[u] # 0}

\* Slots, upvalues and closures refer to one another within their ranges.
TypeOK ==
  /\ stack \in Seq(Values)
  /\ home \in Seq(Vars) /\ Len(home) = Height
  /\ location \in Seq(0 .. MaxStack)
  /\ closed \in Seq(Values) /\ Len(closed) = Len(location)
  /\ of \in Seq(Vars) /\ Len(of) = Len(location)
  /\ open \in Seq(DOMAIN location)
  /\ closures \in Seq(Seq(DOMAIN location))
  /\ frames \in Seq([slots : 1 .. MaxStack, closure : 0 .. Len(closures)])
  /\ pending \in 0 .. MaxUpvalues
  /\ pending > 0 => frames # <<>> /\ closures # <<>>
  /\ stranded \subseteq Open

\* The list holds every upvalue that points into the stack, once, from the
\* highest slot down, and no slot twice: what the searches rely on.
OpenSorted ==
  /\ ElementsOf(open) = Open
  /\ \A i, j \in 1 .. Len(open) : i < j => location[open[i]] > location[open[j]]

\* OP_POP apart, whatever gives slots away closes their upvalues: no other one
\* points above the top of the stack, and an open upvalue points at the variable
\* it was made for, never at a later tenant of its slot.
OpenAtHome ==
  \A u \in Open \ stranded : location[u] <= Height /\ of[u] = home[location[u]]

\* A variable has its own cell once its upvalue is closed.  (Slots that a script
\* leaves behind outlast their upvalues, but no function can name them.)
HasCell(x) == \E u \in DOMAIN of : of[u] = x /\ location[u] = 0

\* The value of a variable: that of its slot, or else of its upvalue.
ValueOf(x) ==
  IF x \in ElementsOf(home) /\ ~HasCell(x)
    THEN stack[CHOOSE i \in 1 .. Height : home[i] = x]
    ELSE closed[CHOOSE u \in DOMAIN of : of[u] = x]

V == INSTANCE Variables WITH
       slots <- home,
       value <- [x \in ElementsOf(home) \cup ElementsOf(of) |-> ValueOf(x)],
       closures <- [c \in 1 .. Len(closures) |->
                      [k \in 1 .. Len(closures[c]) |-> of[closures[c][k]]]],
       lost <- stranded # {}

\* Upvalues implement shared variables: every read through a slot or through
\* any closure yields the last value assigned through any of them, as long as
\* no upvalue is stranded.
RefinesVariables == V!Spec
=============================================================================
