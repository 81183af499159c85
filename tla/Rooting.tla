------------------------------ MODULE Rooting ------------------------------
(***************************************************************************)
(* Which objects the C code holds in local variables while it allocates.   *)
(* Every allocation may collect, and a collection sees the VM stack, the   *)
(* globals, the intern table and the compiler chain, but no C variable: an *)
(* operation that pops its operands, allocates and then uses them is safe  *)
(* only if something else keeps them alive.  Collections are atomic here,  *)
(* as module Collector shows they may be.                                  *)
(*                                                                         *)
(* Modelled are the instructions of src/src/vm.c, the calls of             *)
(* src/src/host.c and the steps of src/src/compiler.c that allocate or     *)
(* store; Operations says which of them a program uses.  Some do free what *)
(* they still hold (PopsFirst); what the C code does from there on is not  *)
(* defined, and the model stops.                                           *)
(***************************************************************************)
EXTENDS Reachability, Integers, Sequences

CONSTANTS
  Tables, Strings, Functions, Blobs,   \* Objects by type; Blobs: closures, userdata
  Nil,          \* the value nil
  Absent,       \* no entry
  Globals,      \* vm.globals
  Operations,   \* what the program does
  MaxStack,     \* bound: depth of the VM stack
  MaxChain      \* bound: nesting of functions under compilation

ASSUME RootingAssumption ==
  /\ Objects = UNION {Tables, Strings, Functions, Blobs}
  /\ Tables \cap (Strings \cup Functions \cup Blobs) = {}
  /\ Strings \cap (Functions \cup Blobs) = {} /\ Functions \cap Blobs = {}
  /\ Nil \notin Objects /\ Absent \notin Objects \cup {Nil} /\ Globals \notin Objects
  /\ MaxStack \in Nat /\ MaxChain \in Nat

Values == Objects \cup {Nil}

VARIABLES
  objects,    \* vm.objects
  stack,      \* vm.stack, the top last
  content,    \* the entries of each table and of the globals
  inside,     \* the constants of a function, the function of a closure
  interned,   \* the keys of vm.strings
  chain,      \* the functions under compilation, the innermost first
  pc,         \* "idle", or the allocation the running operation waits for
  call        \* the C variables of the running operation

vars == <<objects, stack, content, inside, interned, chain, pc, call>>

NoCall == [op |-> "none", on |-> Globals, key |-> Nil, value |-> Nil, rest |-> <<>>]

Items(s) == {s[i] : i \in 1 .. Len(s)}

Top == stack[Len(stack)]

Below(n) == stack[Len(stack) - n]

Popped(n) == SubSeq(stack, 1, Len(stack) - n)

\* Keys and values of a table.
Entries(t) ==
  LET keys == {k \in Strings : content[t][k] # Absent}
  IN  keys \cup ({content[t][k] : k \in keys} \ {Nil})

refs == [o \in Objects |-> IF o \in Tables THEN Entries(o)
                           ELSE IF o \in Functions \cup Blobs THEN inside[o] ELSE {}]

\* Mutant: the compiler chain is not marked.
Base_NoCompiler == (Items(stack) \ {Nil}) \cup Entries(Globals) \cup interned

\* mark_roots.
Base == ((Items(stack) \cup Items(chain)) \ {Nil}) \cup Entries(Globals) \cup interned

Live == Reach(Base, refs)

\* What may be left of the heap after an allocation made while the objects of
\* `extra' are on the stack as well.
Survivors(extra) == {objects, objects \cap Reach(Base \cup extra, refs)}

Init ==
  /\ objects = {}
  /\ stack = <<>>
  /\ content = [t \in Tables \cup {Globals} |-> [k \in Strings |-> Absent]]
  /\ inside = [o \in Functions \cup Blobs |-> {}]
  /\ interned = {}
  /\ chain = <<>>
  /\ pc = "idle"
  /\ call = NoCall

\* The program, and not the compiler, is running.
Running(op) == pc = "idle" /\ chain = <<>> /\ op \in Operations

Compiling == pc = "idle" /\ chain # <<>>

Room == Len(stack) < MaxStack

\* The objects the running operation still uses.
Held ==
  Objects \cap
    CASE pc \in {"chars", "copy"} -> {call.on, call.value}
      [] pc = "intern" -> {call.key}
      [] pc \in {"grow", "store"} -> {call.on, call.key, call.value}
      [] OTHER -> {call.value}

\* The running operation has freed nothing it uses.
Intact == Held \subseteq objects

-----------------------------------------------------------------------------
(* Instructions that allocate nothing *)

\* GET_LOCAL, GET_GLOBAL, GET_PROPERTY, GET_INDEX, DUP, NIL, CONSTANT.
Push(v) ==
  /\ Running("push")
  /\ Room
  /\ \/ v \in Items(stack) \cup interned \cup {Nil}
     \/ \E t \in (Tables \cap Live) \cup {Globals}, k \in Strings : content[t][k] = v
  /\ stack' = Append(stack, v)
  /\ UNCHANGED <<objects, content, inside, interned, chain, pc, call>>

Pop ==
  /\ Running("pop")
  /\ stack # <<>>
  /\ stack' = Popped(1)
  /\ UNCHANGED <<objects, content, inside, interned, chain, pc, call>>

-----------------------------------------------------------------------------
(* Allocating instructions *)

NewTable(t) ==
  /\ Running("new_table")
  /\ Room
  /\ \E h \in Survivors({}) :
       /\ t \notin h
       /\ objects' = h \cup {t}
  /\ content' = [content EXCEPT ![t] = [k \in Strings |-> Absent]]
  /\ stack' = Append(stack, t)
  /\ UNCHANGED <<inside, interned, chain, pc, call>>

\* new_closure: the function is pushed while the array and the closure are
\* allocated, and popped before the closure is pushed.
NewClosure(f, c) ==
  /\ Running("closure")
  /\ Room
  /\ f \in Live
  /\ \E h \in Survivors({f}) :
       /\ c \notin h
       /\ objects' = h \cup {c}
  /\ inside' = [inside EXCEPT ![c] = {f}]
  /\ stack' = Append(stack, c)
  /\ UNCHANGED <<content, interned, chain, pc, call>>

\* new_userdata: the object is on the stack while its data is allocated.
NewUserdata(b) ==
  /\ Running("userdata")
  /\ Room
  /\ \E h \in Survivors({}) :
       /\ b \notin h
       /\ objects' = h \cup {b}
  /\ inside' = [inside EXCEPT ![b] = {}]
  /\ stack' = Append(stack, b)
  /\ call' = [NoCall EXCEPT !.op = "userdata", !.value = b, !.rest = stack']
  /\ pc' = "data"
  /\ UNCHANGED <<content, interned, chain>>

AllocateData ==
  /\ pc = "data"
  /\ objects' \in Survivors({})
  /\ stack' = call.rest
  /\ call' = NoCall
  /\ pc' = "idle"
  /\ UNCHANGED <<content, inside, interned, chain>>

-----------------------------------------------------------------------------
(* Strings *)

\* What is done with the string of call c, with s on the stack: it is pushed,
\* becomes a constant, or is the name of a global, whose value is popped.
Finish(c, s) ==
  CASE c.op \in {"string", "concatenate"} ->
         /\ stack' = Append(s, c.key)
         /\ pc' = "idle"
         /\ call' = NoCall
    [] c.op = "constant" ->
         /\ stack' = s
         /\ pc' = "constant"
         /\ call' = [c EXCEPT !.value = c.key]
    [] c.op = "mj_set_global" ->
         /\ stack' = SubSeq(s, 1, Len(s) - 1)
         /\ pc' = "grow"
         /\ call' = [c EXCEPT !.value = s[Len(s)], !.rest = stack']

\* copy_string, take_string up to the new object: nothing is allocated when the
\* string is interned already.
MakeString(c) ==
  /\ IF c.key \in interned
       THEN /\ UNCHANGED objects
            /\ Finish(c, stack)
       ELSE /\ \E h \in Survivors({}) : objects' = h \cup {c.key}
            /\ pc' = "intern"
            /\ call' = c
            /\ UNCHANGED stack
  /\ UNCHANGED <<content, inside, interned, chain>>

\* mj_push_string, type(), and the names and literals the compiler reads.
PushString(s) ==
  /\ IF chain = <<>> THEN Running("string") /\ Room ELSE Compiling
  /\ MakeString([NoCall EXCEPT !.op = IF chain = <<>> THEN "string" ELSE "constant",
                               !.key = s])

\* mj_set_global copies the name first, and pops the value then.
HostSetGlobal(s) ==
  /\ Running("mj_set_global")
  /\ stack # <<>>
  /\ MakeString([NoCall EXCEPT !.op = "mj_set_global", !.key = s])

\* Mutant: the operands are not tested.
Concatenate_Unchecked(s) ==
  /\ Running("concatenate")
  /\ Len(stack) >= 2
  /\ call' = [op |-> "concatenate", on |-> Below(1), key |-> s, value |-> Top, rest |-> <<>>]
  /\ stack' = Popped(2)
  /\ pc' = "chars"
  /\ UNCHANGED <<objects, content, inside, interned, chain>>

\* concatenate pops its operands before it allocates; s is what they make.
Concatenate(s) ==
  /\ Running("concatenate")
  /\ Len(stack) >= 2
  /\ {Top, Below(1)} \subseteq Strings
  /\ call' = [op |-> "concatenate", on |-> Below(1), key |-> s, value |-> Top, rest |-> <<>>]
  /\ stack' = Popped(2)
  /\ pc' = "chars"
  /\ UNCHANGED <<objects, content, inside, interned, chain>>

\* The characters are allocated, and then copied from the operands.
AllocateChars ==
  /\ pc = "chars"
  /\ objects' \in Survivors({})
  /\ pc' = "copy"
  /\ UNCHANGED <<stack, content, inside, interned, chain, call>>

TakeString ==
  /\ pc = "copy"
  /\ Intact
  /\ MakeString(call)

\* allocate_string: entering the string into vm.strings may grow that table.
Intern ==
  /\ pc = "intern"
  /\ Intact
  /\ objects' \in Survivors({call.key})
  /\ interned' = interned \cup {call.key}
  /\ Finish(call, stack)
  /\ UNCHANGED <<content, inside, chain>>

-----------------------------------------------------------------------------
(* Storing into tables *)

\* table_set is called; the operands are still on the stack, or are not.
Begin(op, on, key, value, now, after) ==
  /\ call' = [op |-> op, on |-> on, key |-> key, value |-> value, rest |-> after]
  /\ stack' = now
  /\ pc' = "grow"
  /\ UNCHANGED <<objects, content, inside, interned, chain>>

DefineGlobal(k) ==
  /\ Running("define_global")
  /\ k \in interned
  /\ stack # <<>>
  /\ Begin("define_global", Globals, k, Top, stack, Popped(1))

\* Mutant: the operands are popped before the store, as SET_INDEX does.
SetProperty_PopsFirst(k) ==
  /\ Running("set_property")
  /\ k \in interned
  /\ Len(stack) >= 2
  /\ Below(1) \in Tables
  /\ Begin("set_property", Below(1), k, Top, Popped(2), Append(Popped(2), Top))

SetProperty(k) ==
  /\ Running("set_property")
  /\ k \in interned
  /\ Len(stack) >= 2
  /\ Below(1) \in Tables
  /\ Begin("set_property", Below(1), k, Top, stack, Append(Popped(2), Top))

SetIndex ==
  /\ Running("set_index")
  /\ Len(stack) >= 3
  /\ Below(1) \in Strings
  /\ Below(2) \in Tables
  /\ Begin("set_index", Below(2), Below(1), Top, Popped(3), Append(Popped(3), Top))

\* mj_set_table(index), with the table left on the stack at i.
HostSetTable(i) ==
  /\ Running("mj_set_table")
  /\ i <= Len(stack) - 2
  /\ Below(1) \in Strings
  /\ stack[i] \in Tables
  /\ Begin("mj_set_table", stack[i], Below(1), Top, Popped(2), Popped(2))

\* table_set pushes the key, adjust_capacity every live key and value.
Protected == {call.key} \cup Entries(call.on)

Grow ==
  /\ pc = "grow"
  /\ Intact
  /\ objects' \in Survivors(Protected)
  /\ pc' = "store"
  /\ UNCHANGED <<stack, content, inside, interned, chain, call>>

Store ==
  /\ pc = "store"
  /\ Intact
  /\ content' = [content EXCEPT ![call.on][call.key] = call.value]
  /\ stack' = call.rest
  /\ pc' = "idle"
  /\ call' = NoCall
  /\ UNCHANGED <<objects, inside, interned, chain>>

-----------------------------------------------------------------------------
(* The compiler *)

\* init_compiler
BeginFunction(f) ==
  /\ pc = "idle"
  /\ "compile" \in Operations
  /\ Len(chain) < MaxChain
  /\ \E h \in Survivors({}) :
       /\ f \notin h
       /\ objects' = h \cup {f}
  /\ inside' = [inside EXCEPT ![f] = {}]
  /\ chain' = <<f>> \o chain
  /\ UNCHANGED <<stack, content, interned, pc, call>>

\* end_compiler: an inner function becomes a constant of the enclosing one,
\* the script is pushed by vm_interpret.
EndFunction ==
  /\ Compiling
  /\ chain' = Tail(chain)
  /\ IF Len(chain) > 1
       THEN /\ call' = [NoCall EXCEPT !.op = "function", !.value = Head(chain)]
            /\ pc' = "constant"
            /\ UNCHANGED stack
       ELSE /\ Room
            /\ stack' = Append(stack, Head(chain))
            /\ UNCHANGED <<call, pc>>
  /\ UNCHANGED <<objects, content, inside, interned>>

\* make_constant: the array of constants may grow.
GrowConstants ==
  /\ pc = "constant"
  /\ objects' \in Survivors({})
  /\ pc' = "append"
  /\ UNCHANGED <<stack, content, inside, interned, chain, call>>

AddConstant ==
  /\ pc = "append"
  /\ Intact
  /\ inside' = [inside EXCEPT ![Head(chain)] = @ \cup {call.value}]
  /\ pc' = "idle"
  /\ call' = NoCall
  /\ UNCHANGED <<objects, stack, content, interned, chain>>

Next ==
  \/ \E v \in Values : Push(v)
  \/ Pop
  \/ \E t \in Tables : NewTable(t)
  \/ \E f \in Functions, c \in Blobs : NewClosure(f, c)
  \/ \E b \in Blobs : NewUserdata(b)
  \/ AllocateData
  \/ \E s \in Strings : PushString(s) \/ Concatenate(s) \/ HostSetGlobal(s)
  \/ AllocateChars
  \/ TakeString
  \/ Intern
  \/ \E k \in Strings : DefineGlobal(k) \/ SetProperty(k)
  \/ SetIndex
  \/ \E i \in 1 .. MaxStack : HostSetTable(i)
  \/ Grow
  \/ Store
  \/ \E f \in Functions : BeginFunction(f)
  \/ EndFunction
  \/ GrowConstants
  \/ AddConstant

Spec == Init /\ [][Next]_vars

-----------------------------------------------------------------------------
(* Properties *)

TypeOK ==
  /\ objects \subseteq Objects
  /\ stack \in Seq(Values)
  /\ content \in [Tables \cup {Globals} -> [Strings -> Values \cup {Absent}]]
  /\ inside \in [Functions \cup Blobs -> SUBSET Objects]
  /\ interned \subseteq Strings
  /\ chain \in Seq(Functions)
  /\ pc \in {"idle", "data", "chars", "copy", "intern", "grow", "store", "constant", "append"}
  /\ call.on \in Tables \cup Strings \cup {Globals}
  /\ call.key \in Strings \cup {Nil}
  /\ call.value \in Values
  /\ call.rest \in Seq(Values)

\* Operations whose operands, popped or never rooted, may be freed before they
\* are stored: OP_SET_INDEX, mj_set_global, mj_set_table, and the end of an
\* inner function.
PopsFirst == {"set_index", "mj_set_global", "mj_set_table", "function"}

\* No other operation uses an object that one of its own allocations has freed:
\* this holds of every instruction, host call and compiler step but PopsFirst.
HeldAllocated == call.op \notin PopsFirst => Intact

\* Nothing freed is ever reachable again: a value kept only in a C variable
\* and then stored or pushed would be.
ReachableAllocated == pc = "idle" => Live \subseteq objects

\* A value that the program stores into a table is not freed while it is being
\* stored, whichever way it is stored.
OperandsSurvive == Intact
=============================================================================
