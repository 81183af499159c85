------------------------------ MODULE Scripts ------------------------------
(***************************************************************************)
(* Scripts from their tokens to their effect: the compiler and the machine *)
(* that runs its code (Machine), against the grammar (Grammar) and the     *)
(* meaning (Meaning) of the language.                                      *)
(***************************************************************************)
EXTENDS Machine, Meaning

\* Calls nest as deep in the one as in the other.
ASSUME ScriptsAssumption == MaxDepth = MaxFrames

Trees == Programs(source)

AllTerminated == \A program \in Trees : \A k \in 1 .. Len(program) : Terminated(program[k])

-----------------------------------------------------------------------------

\* The functions compiled: a script's and those among its constants.
RECURSIVE Compiled(_)
Compiled(function) ==
  {function} \cup UNION {Compiled(Payload(function.constants[i])) :
                           i \in {j \in 1 .. Len(function.constants) :
                                    TypeName(function.constants[j]) = "prototype"}}

ScriptFunctions == UNION {Compiled(closures[i].function) : i \in {1} \cap DOMAIN closures}

\* Every variable has the shape the code gives it: operands fit their bytes,
\* frames are nested in the stack, and the tables and functions on it exist.
\* An upvalue is closed, or its location is in the stack: only a value nobody
\* drops can have end_scope close another in its place.
TypeOK ==
  /\ source \in Sources
  /\ status \in {"source", "running", "ok", "compile error", "runtime error", "timeout",
                 "crashed"}
  /\ steps = 0 =>
       \A f \in ScriptFunctions : \A i \in 1 .. Len(f.code) :
         f.code[i][1] = "byte" => f.code[i][2] \in (0 .. MaxByte) \cup (0 .. JumpBase - 1)
  /\ Len(frames) \in 0 .. MaxFrames
  /\ \A i \in 1 .. Len(frames) :
       /\ frames[i].ip \in 0 .. Len(closures[frames[i].closure].function.code)
       /\ stack[frames[i].slots + 1] = Closure(frames[i].closure)
  /\ steps \in 0 .. MaxSteps
  /\ \A i \in 1 .. Height :
       /\ TypeName(stack[i]) = "table" => Payload(stack[i]) \in DOMAIN tables
       /\ TypeName(stack[i]) = "function" => Payload(stack[i]) \in DOMAIN closures
  /\ status = "running" =>
       \A u \in DOMAIN upvalues : upvalues[u].location \in 0 .. Height \/ ~AllTerminated

\* The one-pass compiler translates exactly the language: what the grammar
\* has no tree for, or names wrongly, is an error, and nothing else is but
\* what is too large.  No program stops the process; what can is a text in
\* which typeof or length stands where an operator would, for which the rules
\* have a precedence and no function (parse_precedence, compiler.c:637).
AcceptsGrammar ==
  steps = 0 =>
    /\ status = "running" =>
         Trees # {} /\ \A program \in Trees : IsProgram(program)
    /\ status = "compile error" =>
         \/ \A program \in Trees : ~IsProgram(program)
         \/ \E f \in ScriptFunctions : Len(f.code) > MaxJump \/ Len(f.constants) > MaxByte + 1
    /\ status = "crashed" =>
         /\ Trees = {}
         /\ \E i \in 2 .. Len(source) : source[i] \in {"typeof", "length"}

\* What the code of an accepted script does is what its tree says: it ends
\* the same way, with the same globals and the same tables.  Only a value
\* nobody drops, for want of a semicolon, may make it another one.
RunsAsWritten ==
  (steps > 0 /\ status \in {"ok", "runtime error", "crashed"} /\ AllTerminated) =>
    \A program \in Trees :
      LET outcome == Outcome(program, Natives)
      IN  /\ outcome.status = status
          /\ outcome.globals = globals
          /\ outcome.tables = tables

\* The stack is as high above a frame's slots at an instruction as it was when
\* the closure executed it the first time, and empty at the end: no path
\* through the code, no round of a loop and no call leaves a value or takes one
\* too many.  Without a semicolon values are left, never taken.
HeightsAgree ==
  /\ (status = "running" /\ Instruction \in DOMAIN heights) =>
       \/ Height - Frame.slots = heights[Instruction]
       \/ Height - Frame.slots > heights[Instruction] /\ ~AllTerminated
  /\ status = "ok" => stack = <<>> \/ ~AllTerminated
=============================================================================
