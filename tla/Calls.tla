------------------------------- MODULE Calls -------------------------------
(***************************************************************************)
(* Calls, returns, errors and results: the frames and the value stack of   *)
(* src/src/vm.c, the activations of run() and of native functions on the C *)
(* stack, and the host calls of src/src/host.c that start them.  What an   *)
(* instruction computes is left open; what it does to the stack is not.    *)
(***************************************************************************)
EXTENDS Integers, Sequences

CONSTANTS
  FramesMax,     \* MJ_FRAMES_MAX
  Arity,         \* the number of parameters of every script function
  MaxSteps,      \* vm.max_execution_steps, 0 for no limit
  NativesCall,   \* native functions use the host calls too
  MaxStack,      \* bound: depth of the value stack
  MaxPending,    \* bound: the same, once an error is pending
  MaxNesting     \* bound: nested activations on the C stack

ASSUME CallsAssumption ==
  /\ FramesMax \in Nat \ {0}
  /\ Arity \in Nat
  /\ MaxSteps \in Nat
  /\ NativesCall \in BOOLEAN
  /\ MaxStack \in Nat /\ MaxPending \in 0 .. MaxStack /\ MaxNesting \in Nat

Values == {"closure", "native", "plain"}

Results == {"OK", "RUNTIME_ERROR", "COMPILE_ERROR", "OUT_OF_MEMORY", "STACK_OVERFLOW", "TIMEOUT"}

VARIABLES
  stack,     \* vm.stack up to stack_top
  frames,    \* vm.frames: where the callee is, and where its operands begin
  active,    \* the C stack: activations of run() and of natives, the innermost last
  error,     \* vm.error_message is set
  steps,     \* vm.execution_steps
  result     \* state->last_result

vars == <<stack, frames, active, error, steps, result>>

Init ==
  /\ stack = <<>>
  /\ frames = <<>>
  /\ active = <<>>
  /\ error = FALSE
  /\ steps = 0
  /\ result = "OK"

Height == Len(stack)

Room == Height < IF error THEN MaxPending ELSE MaxStack

Keep(n) == SubSeq(stack, 1, n)

Frame == frames[Len(frames)]

Innermost == active[Len(active)]

Running == active # <<>> /\ Innermost.kind = "run"

InNative == active # <<>> /\ Innermost.kind = "native"

Idle == active = <<>>

\* Mutant: every activation runs until no frame is left.
Run_ToTheEnd(target) == [kind |-> "run", target |-> 0, args |-> 0, base |-> 0]

\* An activation of run() returns when only target frames are left.
Run(target) == [kind |-> "run", target |-> target, args |-> 0, base |-> 0]

\* A native with n arguments; what lies above base it has pushed itself.
Native(n) == [kind |-> "native", target |-> 0, args |-> n, base |-> Height]

\* How far down the host, or a native function, takes values off the stack.
Floor == IF Idle THEN 0 ELSE Innermost.base

HostCalls == Idle \/ (InNative /\ NativesCall /\ Len(active) < MaxNesting)

\* vm_runtime_error: the message is set and reset_stack forgets everything.
Raise ==
  /\ error' = TRUE
  /\ stack' = <<>>
  /\ frames' = <<>>

\* The activations left when the innermost returns.
Outer == SubSeq(active, 1, Len(active) - 1)

\* run() returns to the C function that called it.
LeaveRun(r) ==
  /\ active' = Outer
  /\ result' = r

-----------------------------------------------------------------------------
(* Calling *)

CalleeAt(n) == stack[Height - n]

\* Mutant: the number of frames is not tested.
Refused_NoFramesMax(n) == n # Arity

\* vm_call_function refuses n arguments.
Refused(n) == n # Arity \/ Len(frames) = FramesMax

\* Mutant: the frame begins at the first argument instead of the callee.
NewFrame_NoCallee(n) == [slots |-> Height - n + 1, base |-> Height]

NewFrame(n) == [slots |-> Height - n, base |-> Height]

-----------------------------------------------------------------------------
(* The interpreter loop *)

\* The test at the head of the loop.
PendingError ==
  /\ Running
  /\ error
  /\ LeaveRun("OUT_OF_MEMORY")
  /\ UNCHANGED <<stack, frames, error, steps>>

OutOfSteps == MaxSteps > 0 /\ steps + 1 >= MaxSteps

\* Mutant: the count is not incremented.
NextStep_Stuck == steps

\* Without a limit the count is not read, and not kept here.
NextStep == IF MaxSteps > 0 THEN steps + 1 ELSE steps

Timeout ==
  /\ Running
  /\ ~error
  /\ OutOfSteps
  /\ steps' = NextStep
  /\ Raise
  /\ LeaveRun("TIMEOUT")

\* An instruction is executed.
Execute ==
  /\ Running
  /\ ~error
  /\ ~OutOfSteps
  /\ steps' = NextStep

\* Instructions that push a value, or pop one of the frame's own.
Compute ==
  /\ Execute
  /\ \/ /\ Room
        /\ \E v \in Values : stack' = Append(stack, v)
     \/ /\ Height > Frame.base
        /\ stack' = Keep(Height - 1)
  /\ UNCHANGED <<frames, active, error, result>>

\* Every instruction that finds operands of the wrong type.
Fail ==
  /\ Execute
  /\ Raise
  /\ LeaveRun("RUNTIME_ERROR")

\* OP_CALL of a script function.
CallClosure(n) ==
  /\ Execute
  /\ Height - n > Frame.base
  /\ CalleeAt(n) = "closure"
  /\ IF Refused(n)
       THEN Raise /\ LeaveRun("RUNTIME_ERROR")
       ELSE /\ frames' = Append(frames, NewFrame(n))
            /\ UNCHANGED <<stack, active, error, result>>

\* OP_CALL of a native function, whose arity is never tested.
CallNative(n) ==
  /\ Execute
  /\ Height - n > Frame.base
  /\ CalleeAt(n) = "native"
  /\ Len(active) < MaxNesting
  /\ active' = Append(active, Native(n))
  /\ UNCHANGED <<stack, frames, error, result>>

CallOther(n) ==
  /\ Execute
  /\ Height - n > Frame.base
  /\ CalleeAt(n) = "plain"
  /\ Raise
  /\ LeaveRun("RUNTIME_ERROR")

\* Mutant: the value below the callee goes too.
Returned_TooFar == Append(Keep(Frame.slots - 2), stack[Height])

\* The caller finds the result in place of the callee and its arguments.
Returned == Append(Keep(Frame.slots - 1), stack[Height])

\* Mutant: the stack is emptied when the outermost function returns.
Dropped_All == <<>>

\* A function the host has called leaves no result: that and the value below
\* it, the function itself if it has neither parameters nor locals, are popped.
Dropped == Keep(Height - 2)

\* OP_RETURN.
Return ==
  /\ Execute
  /\ Height > Frame.base
  /\ frames' = SubSeq(frames, 1, Len(frames) - 1)
  /\ IF Len(frames) - 1 = Innermost.target
       THEN /\ stack' = IF Innermost.target = 0 THEN Dropped ELSE Returned
            /\ LeaveRun("OK")
       ELSE /\ stack' = Returned
            /\ UNCHANGED <<active, result>>
  /\ UNCHANGED error

\* A native returns: its arguments and the callee are replaced by the result.
\* After an error in a nested call they are not there any more, and the stack
\* pointer leaves the stack: what happens then is not modelled.
NativeReturn(v) ==
  /\ InNative
  /\ LET n == Innermost.args
     IN  IF Height > n
           THEN /\ stack' = Append(Keep(Height - n - 1), v)
                /\ active' = Outer
                /\ result' = IF Running' THEN result ELSE "OK"
           ELSE /\ active' = [active EXCEPT ![Len(active)].kind = "broken"]
                /\ UNCHANGED <<stack, result>>
  /\ UNCHANGED <<frames, error, steps>>

-----------------------------------------------------------------------------
(* The host's calls *)

\* An error raised before run() is entered.
RaiseToHost ==
  /\ Raise
  /\ result' = "RUNTIME_ERROR"
  /\ UNCHANGED <<active, steps>>

HostPush(v) ==
  /\ HostCalls
  /\ Room
  /\ stack' = Append(stack, v)
  /\ UNCHANGED <<frames, active, error, steps, result>>

HostPop ==
  /\ HostCalls
  /\ Height > Floor
  /\ stack' = Keep(Height - 1)
  /\ UNCHANGED <<frames, active, error, steps, result>>

\* mj_call with n arguments; a native gives it values of its own.
HostCall(n) ==
  /\ HostCalls
  /\ InNative /\ ~error => Height - n > Floor
  /\ IF Height < n + 1 THEN RaiseToHost
     ELSE IF CalleeAt(n) = "plain" THEN RaiseToHost
     ELSE IF CalleeAt(n) = "closure" /\ Refused(n) THEN RaiseToHost
     ELSE /\ IF CalleeAt(n) = "native"
               THEN active' = Append(active, Native(n)) /\ UNCHANGED frames
               ELSE /\ active' = Append(active, Run(Len(frames)))
                    /\ frames' = Append(frames, NewFrame(n))
          /\ UNCHANGED <<stack, error, steps, result>>

\* mj_load_string: the script's closure has no parameters.
LoadString ==
  /\ Idle
  /\ Room
  /\ \/ /\ result' = "COMPILE_ERROR"
        /\ UNCHANGED <<stack, frames, active, error, steps>>
     \/ IF Len(frames) = FramesMax THEN RaiseToHost
        ELSE /\ stack' = Append(stack, "closure")
             /\ frames' = Append(frames, [slots |-> Height + 1, base |-> Height + 1])
             /\ active' = Append(active, Run(0))
             /\ UNCHANGED <<error, steps, result>>

\* mj_set_max_steps with the same limit.
SetMaxSteps ==
  /\ Idle
  /\ steps' = 0
  /\ UNCHANGED <<stack, frames, active, error, result>>

Arguments == 0 .. Arity + 1

Loop ==
  \/ PendingError
  \/ Timeout
  \/ Compute
  \/ Fail
  \/ \E n \in Arguments : CallClosure(n) \/ CallNative(n) \/ CallOther(n)
  \/ Return

Host ==
  \/ \E v \in Values : HostPush(v)
  \/ HostPop
  \/ \E n \in Arguments : HostCall(n)
  \/ LoadString
  \/ SetMaxSteps

Next ==
  \/ Loop
  \/ \E v \in Values : NativeReturn(v)
  \/ Host

Spec == Init /\ [][Next]_vars

\* The interpreter runs on once it is entered, and natives return.
FairSpec == Spec /\ WF_vars(Loop) /\ WF_vars(\E v \in Values : NativeReturn(v))

-----------------------------------------------------------------------------
(* Properties *)

\* The frames never exceed FramesMax and every variable keeps its kind.
TypeOK ==
  /\ stack \in Seq(Values)
  /\ frames \in Seq([slots : 1 .. MaxStack, base : 1 .. MaxStack])
  /\ Len(frames) <= FramesMax
  /\ active \in Seq([kind : {"run", "native", "broken"}, target : 0 .. FramesMax,
                      args : Arguments, base : 0 .. MaxStack])
  /\ error \in BOOLEAN
  /\ steps \in Nat
  /\ result \in Results

\* Frames do not overlap: each begins at a callee of the right arity, above
\* the operands of the frame below it, and ends within the stack.
FramesNested ==
  ~error =>
    \A i \in 1 .. Len(frames) :
      /\ stack[frames[i].slots] = "closure"
      /\ frames[i].base - frames[i].slots \in {0, Arity}
      /\ frames[i].base <= Height
      /\ i > 1 => frames[i].slots > frames[i - 1].base

\* Every activation of run() has frames of its own, and none survives the
\* return to the host.
RunsOwnFrames ==
  ~error =>
    /\ Idle => frames = <<>>
    /\ Running => Len(frames) > Innermost.target

\* A function never touches what lies below its own frame: its caller finds
\* its locals and operands as it left them, whatever the callee does.
CallerUntouched ==
  [][Running /\ ~error' /\ Len(frames) > 1
       => SubSeq(stack', 1, Frame.slots - 1) = Keep(Frame.slots - 1)]_vars

\* A native finds its arguments and itself on the stack when it returns, also
\* after the functions it has called.
NativesFindArguments ==
  ~error => \A i \in 1 .. Len(active) :
              active[i].kind = "native" => active[i].base <= Height

\* With a step limit every entry of the interpreter ends, infinite loops and
\* infinite recursion included.
RunsEnd == (active # <<>>) ~> Idle

\* RESULT_OUT_OF_MEMORY is for errors that come from an allocation: the
\* errors of this module do not.
MemoryErrorsOnly == result # "OUT_OF_MEMORY"
=============================================================================
