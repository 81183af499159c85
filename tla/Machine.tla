------------------------------ MODULE Machine ------------------------------
(***************************************************************************)
(* vm_interpret of src/src/vm.c for one script: it is compiled, then run   *)
(* executes one instruction per step, in the frame of the function called  *)
(* last.  Open upvalues are those with a location in the stack; the sorted *)
(* list they are found by is in Upvalues.  Of the natives a script finds,  *)
(* len and type are here, and neither calls the host.  Reading code or the *)
(* stack where there is nothing has no step.                               *)
(***************************************************************************)
EXTENDS Compiler, FiniteSets

CONSTANTS
  Sources,      \* the scripts, as sequences of tokens
  MaxSteps,     \* vm.max_execution_steps
  MaxFrames     \* MJ_FRAMES_MAX

ASSUME MachineAssumption == MaxSteps \in Nat /\ MaxFrames \in Nat \ {0}

VARIABLES
  source,
  status,       \* "source", "running", or how the interpretation ended
  closures,     \* the closures created, the script's own first
  frames,       \* vm.frames: closure, ip, and the stack's height below the slots
  stack,
  upvalues,     \* the upvalues created: their location in the stack or 0, and closed
  globals,      \* vm.globals
  tables,       \* the contents of the tables created, by their order
  steps,        \* vm.execution_steps
  heights       \* history: the stack's height above a frame's slots when each
                \* instruction of each closure was executed first

vars == <<source, status, closures, frames, stack, upvalues, globals, tables, steps, heights>>

heap == <<globals, tables, closures, upvalues>>

\* What vm_init defines, but print and clock.
Natives == [n \in Names \cap {"len", "type"} |-> Native(n)]

Init ==
  /\ source \in Sources
  /\ status = "source"
  /\ closures = <<>> /\ frames = <<>> /\ stack = <<>> /\ upvalues = <<>>
  /\ globals = Natives
  /\ tables = <<>>
  /\ steps = 0
  /\ heights = Empty

\* The frame of a closure that is on the stack with its arguments.
NewFrame(id, arguments, height) ==
  [closure |-> id, ip |-> 0, slots |-> height - arguments - 1]

\* compile, then the closure on the stack and the first frame.  The function of
\* a script with errors, which the code drops, is kept.
Translate ==
  /\ status = "source"
  /\ LET p == Compile(source)
         f == [code |-> p.code, constants |-> p.constants, arity |-> 0, upvalues |-> 0]
     IN  /\ status' = IF p.crashed THEN "crashed"
                      ELSE IF p.hadError THEN "compile error" ELSE "running"
         /\ closures' = <<[function |-> f, upvalues |-> <<>>]>>
  /\ IF status' = "running"
     THEN stack' = <<Closure(1)>> /\ frames' = <<NewFrame(1, 0, 1)>>
     ELSE UNCHANGED <<stack, frames>>
  /\ UNCHANGED <<source, upvalues, globals, tables, steps, heights>>

-----------------------------------------------------------------------------
(* Reading code and the stack *)

Height == Len(stack)

Peek(distance) == stack[Height - distance]

Dropped(n) == SubSeq(stack, 1, Height - n)

Frame == frames[Len(frames)]

Self == closures[Frame.closure]

Code == Self.function.code

ip == Frame.ip

\* The opcode at ip, in a run that has steps left.
Fetch(names) ==
  /\ status = "running"
  /\ steps + 1 < MaxSteps
  /\ ip \in 0 .. Len(Code) - 1
  /\ Code[ip + 1] \in {Op(n) : n \in names}

Opcode == Code[ip + 1][2]

Operand == Code[ip + 2][2]

Constant == Self.function.constants[Operand + 1]

Short == Code[ip + 2][2] * JumpBase + Code[ip + 3][2]

\* The frames, with the current one behind an instruction of `length' bytes.
Beyond(length) == [frames EXCEPT ![Len(frames)].ip = @ + length]

Instruction == <<Frame.closure, ip>>

\* A step of the run has been taken.
Counted ==
  /\ steps' = steps + 1
  /\ heights' = IF Instruction \in DOMAIN heights THEN heights
                ELSE Put(heights, Instruction, Height - Frame.slots)
  /\ UNCHANGED source

\* An instruction done, with this on the stack.
Go(length, stackAfter) ==
  /\ frames' = Beyond(length)
  /\ stack' = stackAfter
  /\ Counted
  /\ UNCHANGED status

\* The interpretation is over; reset_stack forgets the open upvalues as they are.
Stop(how) ==
  /\ status' = how
  /\ stack' = <<>> /\ frames' = <<>>
  /\ Counted
  /\ UNCHANGED heap

Push(length, value) == Go(length, Append(stack, value))

\* The topmost n values replaced by one.
Replace(length, n, value) == Go(length, Append(Dropped(n), value))

\* The topmost n values, the deepest first.
Top(n) == SubSeq(stack, Height - n + 1, Height)

Failed == Stop("runtime error")

TimedOut ==
  /\ status = "running"
  /\ steps + 1 >= MaxSteps
  /\ Stop("timeout")

-----------------------------------------------------------------------------
(* Constants, the stack, variables *)

LoadConstant == Fetch({"CONSTANT"}) /\ Push(2, Constant) /\ UNCHANGED heap

LoadLiteral ==
  /\ Fetch(DOMAIN Literals)
  /\ Push(1, Literals[Opcode])
  /\ UNCHANGED heap

Pop == Fetch({"POP"}) /\ Go(1, Dropped(1)) /\ UNCHANGED heap

Dup == Fetch({"DUP"}) /\ Push(1, Peek(0)) /\ UNCHANGED heap

Location(index) == Frame.slots + index + 1

GetLocal == Fetch({"GET_LOCAL"}) /\ Push(2, stack[Location(Operand)]) /\ UNCHANGED heap

SetLocal ==
  /\ Fetch({"SET_LOCAL"})
  /\ Go(2, [stack EXCEPT ![Location(Operand)] = Peek(0)])
  /\ UNCHANGED heap

Upvalue == upvalues[Self.upvalues[Operand + 1]]

GetUpvalue ==
  /\ Fetch({"GET_UPVALUE"})
  /\ Push(2, IF Upvalue.location = 0 THEN Upvalue.closed ELSE stack[Upvalue.location])
  /\ UNCHANGED heap

SetUpvalue ==
  /\ Fetch({"SET_UPVALUE"})
  /\ \/ /\ Upvalue.location # 0
        /\ Go(2, [stack EXCEPT ![Upvalue.location] = Peek(0)])
        /\ UNCHANGED upvalues
     \/ /\ Upvalue.location = 0
        /\ upvalues' = [upvalues EXCEPT ![Self.upvalues[Operand + 1]].closed = Peek(0)]
        /\ Go(2, stack)
  /\ UNCHANGED <<globals, tables, closures>>

Name == Payload(Constant)

GetGlobal ==
  /\ Fetch({"GET_GLOBAL"})
  /\ IF Name \in DOMAIN globals THEN Push(2, globals[Name]) ELSE Failed
  /\ UNCHANGED heap

DefineGlobal ==
  /\ Fetch({"DEFINE_GLOBAL"})
  /\ globals' = Put(globals, Name, Peek(0))
  /\ Go(2, Dropped(1))
  /\ UNCHANGED <<tables, closures, upvalues>>

\* A name that table_set found new is deleted again.
SetGlobal ==
  /\ Fetch({"SET_GLOBAL"})
  /\ \/ /\ Name \in DOMAIN globals
        /\ globals' = Put(globals, Name, Peek(0))
        /\ Go(2, stack)
        /\ UNCHANGED <<tables, closures, upvalues>>
     \/ /\ Name \notin DOMAIN globals
        /\ Failed

-----------------------------------------------------------------------------
(* Operators *)

Equal == Fetch({"EQUAL"}) /\ Replace(1, 2, Bool(Peek(1) = Peek(0))) /\ UNCHANGED heap

Left == Payload(Peek(1))
Right == Payload(Peek(0))

\* OP_GREATER, OP_LESS, OP_SUBTRACT, OP_MULTIPLY
Arithmetic ==
  /\ Fetch({"GREATER", "LESS", "SUBTRACT", "MULTIPLY"})
  /\ IF AllAre("number", Top(2))
     THEN Replace(1, 2, CASE Opcode = "GREATER"  -> Bool(Left > Right)
                          [] Opcode = "LESS"     -> Bool(Left < Right)
                          [] Opcode = "SUBTRACT" -> Number(Left - Right)
                          [] Opcode = "MULTIPLY" -> Number(Left * Right))
     ELSE Failed
  /\ UNCHANGED heap

Add ==
  /\ Fetch({"ADD"})
  /\ IF AllAre("string", Top(2)) THEN Replace(1, 2, Text(Left \o Right))
     ELSE IF AllAre("number", Top(2)) THEN Replace(1, 2, Number(Left + Right))
     ELSE Failed
  /\ UNCHANGED heap

\* The remainder of two longs: by zero, the process is stopped.
Mod ==
  /\ Fetch({"MOD"})
  /\ IF ~AllAre("number", Top(2)) THEN Failed
     ELSE IF Right = 0 THEN Stop("crashed")
     ELSE Replace(1, 2, Number(Remainder(Left, Right)))
  /\ UNCHANGED heap

Not == Fetch({"NOT"}) /\ Replace(1, 1, Bool(IsFalsey(Peek(0)))) /\ UNCHANGED heap

Negate ==
  /\ Fetch({"NEGATE"})
  /\ IF AllAre("number", Top(1)) THEN Replace(1, 1, Number(-Right)) ELSE Failed
  /\ UNCHANGED heap

Typeof == Fetch({"TYPEOF"}) /\ Replace(1, 1, Text(TypeName(Peek(0)))) /\ UNCHANGED heap

\* A table's count is that of its keys: scripts delete none.
Length ==
  /\ Fetch({"LENGTH"})
  /\ IF AllAre("string", Top(1)) THEN Replace(1, 1, Number(Len(Right)))
     ELSE IF AllAre("table", Top(1))
     THEN Replace(1, 1, Number(Cardinality(DOMAIN tables[Right])))
     ELSE Failed
  /\ UNCHANGED heap

Assert ==
  /\ Fetch({"ASSERT"})
  /\ IF IsFalsey(Peek(0)) THEN Failed ELSE Go(1, Dropped(1))
  /\ UNCHANGED heap

-----------------------------------------------------------------------------
(* Jumps and calls *)

Jump ==
  /\ Fetch({"JUMP", "JUMP_IF_FALSE", "JUMP_IF_TRUE"})
  /\ LET taken == CASE Opcode = "JUMP"          -> TRUE
                    [] Opcode = "JUMP_IF_FALSE" -> IsFalsey(Peek(0))
                    [] Opcode = "JUMP_IF_TRUE"  -> ~IsFalsey(Peek(0))
     IN  Go(IF taken THEN 3 + Short ELSE 3, stack)
  /\ UNCHANGED heap

Loop == Fetch({"LOOP"}) /\ Go(3 - Short, stack) /\ UNCHANGED heap

\* len_native and type_native, for arguments of any number.
NativeResult(name, arguments) ==
  CASE Len(arguments) # 1 -> Nil
    [] name = "type" -> Text(TypeName(arguments[1]))
    [] name = "len"  -> IF AllAre("string", arguments) THEN Number(Len(Payload(arguments[1])))
                        ELSE Nil

Callee == Peek(Operand)

\* vm_call_function
CallFunction(id) ==
  IF Operand # closures[id].function.arity \/ Len(frames) = MaxFrames THEN Failed
  ELSE /\ frames' = Append(Beyond(2), NewFrame(id, Operand, Height))
       /\ Counted
       /\ UNCHANGED <<status, stack>>

CallValue ==
  /\ Fetch({"CALL"})
  /\ CASE TypeName(Callee) = "native" ->
            Replace(2, Operand + 1, NativeResult(Payload(Callee), Top(Operand)))
       [] TypeName(Callee) = "function" -> CallFunction(Payload(Callee))
       [] OTHER -> Failed
  /\ UNCHANGED heap

\* close_upvalues of the locations from one on.
CloseUpvalues(last) ==
  upvalues' = [u \in DOMAIN upvalues |->
                 IF upvalues[u].location < last THEN upvalues[u]
                 ELSE [location |-> 0, closed |-> stack[upvalues[u].location]]]

CloseUpvalue ==
  /\ Fetch({"CLOSE_UPVALUE"})
  /\ CloseUpvalues(Height)
  /\ Go(1, Dropped(1))
  /\ UNCHANGED <<globals, tables, closures>>

\* The last frame: the result and the closure are popped.
Return ==
  /\ Fetch({"RETURN"})
  /\ CloseUpvalues(Frame.slots + 1)
  /\ frames' = Lists!Front(frames)
  /\ \/ /\ Len(frames) = 1
        /\ status' = "ok"
        /\ stack' = Dropped(2)
     \/ /\ Len(frames) > 1
        /\ stack' = Append(SubSeq(stack, 1, Frame.slots), Peek(0))
        /\ UNCHANGED status
  /\ Counted
  /\ UNCHANGED <<globals, tables, closures>>

-----------------------------------------------------------------------------
(* Closures *)

\* Mutant: every capture has an upvalue of its own.
Captured_Unshared(known, location) == Append(known, [location |-> location, closed |-> Nil])

\* capture_upvalue: the upvalues, a new one for the location among them if need be.
Captured(known, location) ==
  IF \E u \in DOMAIN known : known[u].location = location THEN known
  ELSE Append(known, [location |-> location, closed |-> Nil])

\* OP_CLOSURE, with an upvalue for each pair of bytes behind the constant.
MakeClosure ==
  /\ Fetch({"CLOSURE"})
  /\ LET function == Payload(Constant)
         n        == function.upvalues
         isLocal(k) == Code[ip + 1 + 2 * k][2] = 1
         index(k) == Code[ip + 2 + 2 * k][2]
         locals   == SelectSeq([k \in 1 .. n |-> k], isLocal)
         known[k \in 0 .. Len(locals)] ==
           IF k = 0 THEN upvalues ELSE Captured(known[k - 1], Location(index(locals[k])))
         after    == known[Len(locals)]
         at(location) == {u \in DOMAIN after : after[u].location = location}
         upvalue(k) == IF isLocal(k) THEN Lists!Max(at(Location(index(k))))
                       ELSE Self.upvalues[index(k) + 1]
     IN  /\ upvalues' = after
         /\ closures' = Append(closures, [function |-> function,
                                          upvalues |-> [k \in 1 .. n |-> upvalue(k)]])
         /\ Push(2 + 2 * n, Closure(Len(closures) + 1))
  /\ UNCHANGED <<globals, tables>>

-----------------------------------------------------------------------------
(* Tables *)

NewObjTable ==
  /\ Fetch({"NEW_TABLE"})
  /\ tables' = Append(tables, Empty)
  /\ Push(1, Table(Len(tables) + 1))
  /\ UNCHANGED <<globals, closures, upvalues>>

GetProperty ==
  /\ Fetch({"GET_PROPERTY"})
  /\ IF AllAre("table", Top(1)) /\ Name \in DOMAIN tables[Right]
     THEN Replace(2, 1, tables[Right][Name])
     ELSE Failed
  /\ UNCHANGED heap

SetProperty ==
  /\ Fetch({"SET_PROPERTY"})
  /\ \/ /\ TypeName(Peek(1)) = "table"
        /\ tables' = [tables EXCEPT ![Left] = Put(@, Name, Peek(0))]
        /\ Replace(2, 2, Peek(0))
        /\ UNCHANGED <<globals, closures, upvalues>>
     \/ /\ TypeName(Peek(1)) # "table"
        /\ Failed

GetIndex ==
  /\ Fetch({"GET_INDEX"})
  /\ IF TypeName(Peek(1)) # "table" \/ TypeName(Peek(0)) # "string" THEN Failed
     ELSE Replace(1, 2, IF Right \in DOMAIN tables[Left] THEN tables[Left][Right] ELSE Nil)
  /\ UNCHANGED heap

SetIndex ==
  /\ Fetch({"SET_INDEX"})
  /\ \/ /\ TypeName(Peek(2)) = "table" /\ TypeName(Peek(1)) = "string"
        /\ tables' = [tables EXCEPT ![Payload(Peek(2))] = Put(@, Left, Peek(0))]
        /\ Replace(1, 3, Peek(0))
        /\ UNCHANGED <<globals, closures, upvalues>>
     \/ /\ TypeName(Peek(2)) # "table" \/ TypeName(Peek(1)) # "string"
        /\ Failed

-----------------------------------------------------------------------------

Execute ==
  \/ LoadConstant \/ LoadLiteral \/ Pop \/ Dup
  \/ GetLocal \/ SetLocal \/ GetGlobal \/ DefineGlobal \/ SetGlobal
  \/ Equal \/ Arithmetic \/ Add \/ Mod \/ Not \/ Negate \/ Typeof \/ Length \/ Assert
  \/ GetUpvalue \/ SetUpvalue \/ MakeClosure \/ CloseUpvalue
  \/ Jump \/ Loop \/ CallValue \/ Return
  \/ NewObjTable \/ GetProperty \/ SetProperty \/ GetIndex \/ SetIndex

\* The script has been run, or not.
Ended == status \notin {"source", "running"} /\ UNCHANGED vars

Next == Translate \/ Execute \/ TimedOut \/ Ended

Spec == Init /\ [][Next]_vars
=============================================================================
