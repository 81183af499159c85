----------------------------- MODULE Variables -----------------------------
(***************************************************************************)
(* What closures promise: a function refers to the variables around it,    *)
(* not to their values.  Every slot of the stack is a variable, as long as *)
(* it lasts; a variable that a closure refers to lasts as long as the      *)
(* closure, and all that refer to it see the last value assigned.  There   *)
(* is one exception: a slot may be given away under a variable that        *)
(* closures refer to, and until that is over nothing is promised.          *)
(***************************************************************************)
EXTENDS Integers, Sequences

CONSTANTS
  Vars,      \* identities of variables
  Values,    \* what a variable can hold
  FramesMax, \* MJ_FRAMES_MAX
  MaxStack, MaxClosures, MaxUpvalues   \* bounds

VARIABLES
  slots,     \* the variable in each slot of the stack
  value,     \* the value of every variable that lasts
  frames,    \* where the slots of each active function begin, and its closure
  closures,  \* the variables each closure refers to
  pending,   \* how many variables the newest closure is still to be given
  lost       \* a variable that closures refer to has lost its slot

absVars == <<slots, value, frames, closures, pending, lost>>

ElementsOf(s) == {s[i] : i \in 1 .. Len(s)}

Lasting == ElementsOf(slots) \cup UNION {ElementsOf(closures[c]) : c \in 1 .. Len(closures)}

\* Variables nothing refers to are forgotten.
KeepLasting(f) == value' = [x \in Lasting' |-> f[x]]

Frame == frames[Len(frames)]

\* The variables the running function can name.
Named ==
  {slots[i] : i \in Frame.slots .. Len(slots)}
    \cup (IF Frame.closure = 0 THEN {} ELSE ElementsOf(closures[Frame.closure]))

Ready == frames # <<>> /\ pending = 0

With(x, v) == [y \in Lasting \cup {x} |-> IF y = x THEN v ELSE value[y]]

Init ==
  /\ slots = <<>>
  /\ value = [x \in {} |-> x]
  /\ frames = <<>>
  /\ closures = <<>>
  /\ pending = 0
  /\ lost = FALSE

PushNew(x, v) ==
  /\ Len(slots) < MaxStack
  /\ slots' = Append(slots, x)
  /\ x \in Vars \ Lasting
  /\ KeepLasting(With(x, v))

Enter(x, v) ==
  /\ frames = <<>>
  /\ PushNew(x, v)
  /\ frames' = <<[slots |-> Len(slots) + 1, closure |-> 0]>>
  /\ UNCHANGED <<closures, pending>>

Declare(x, v) ==
  /\ Ready
  /\ PushNew(x, v)
  /\ UNCHANGED <<frames, closures, pending>>

Read(x, y) ==
  /\ Ready
  /\ y \in Named
  /\ PushNew(x, value[y])
  /\ UNCHANGED <<frames, closures, pending>>

Assign(y) ==
  /\ Ready
  /\ y \in Named
  /\ UNCHANGED <<slots, frames, closures, pending>>
  /\ value' = [value EXCEPT ![y] = value[slots[Len(slots)]]]

Leave ==
  /\ Ready
  /\ Len(slots) > Frame.slots
  /\ slots' = SubSeq(slots, 1, Len(slots) - 1)
  /\ KeepLasting(value)
  /\ UNCHANGED <<frames, closures, pending>>

\* The newest slot is given away, but not the closures that refer to it.
Lose ==
  /\ Ready
  /\ Len(slots) > Frame.slots
  /\ \E c \in 1 .. Len(closures) : slots[Len(slots)] \in ElementsOf(closures[c])
  /\ slots' = SubSeq(slots, 1, Len(slots) - 1)
  /\ UNCHANGED <<frames, closures, pending>>

\* A closure is made, which will refer to n variables.
MakeClosure(x, v, n) ==
  /\ Ready
  /\ Len(closures) < MaxClosures
  /\ closures' = Append(closures, <<>>)
  /\ pending' = n
  /\ UNCHANGED frames
  /\ PushNew(x, v)

Refer(y) ==
  /\ pending > 0
  /\ pending' = pending - 1
  /\ UNCHANGED <<slots, frames>>
  /\ y \in Named
  /\ closures' = [closures EXCEPT ![Len(closures)] = Append(@, y)]
  /\ KeepLasting(value)

Call(c, n) ==
  /\ Ready
  /\ Len(frames) < FramesMax
  /\ Len(slots) - n > Frame.slots
  /\ frames' = Append(frames, [slots |-> Len(slots) - n, closure |-> c])
  /\ UNCHANGED <<slots, closures, pending, value>>

\* The variables of a function end with it, except those closures refer to.
Return(x) ==
  /\ Ready
  /\ Len(slots) > Frame.slots
  /\ frames' = SubSeq(frames, 1, Len(frames) - 1)
  /\ IF Len(frames) = 1
       THEN /\ slots' = SubSeq(slots, 1, Len(slots) - 2)
            /\ KeepLasting(value)
       ELSE /\ slots' = Append(SubSeq(slots, 1, Frame.slots - 1), x)
            /\ x \in Vars \ Lasting
            /\ KeepLasting(With(x, value[slots[Len(slots)]]))
  /\ UNCHANGED <<closures, pending>>

Step ==
  \/ \E x \in Vars, v \in Values : Enter(x, v) \/ Declare(x, v)
  \/ \E x, y \in Vars : Read(x, y)
  \/ \E y \in Vars : Assign(y) \/ Refer(y)
  \/ Leave
  \/ \E x \in Vars, v \in Values, n \in 0 .. MaxUpvalues : MakeClosure(x, v, n)
  \/ \E c \in 1 .. MaxClosures, n \in 0 .. MaxStack : c <= Len(closures) /\ Call(c, n)
  \/ \E x \in Vars : Return(x)

Next ==
  \/ ~lost /\ ~lost' /\ Step
  \/ ~lost /\ lost' /\ Lose
  \/ lost /\ lost' \in BOOLEAN

Spec == Init /\ [][Next]_absVars
=============================================================================
