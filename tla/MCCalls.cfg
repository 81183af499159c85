SPECIFICATION Spec
CONSTANTS
  FramesMax = 3
  Arity = 1
  MaxSteps = 0
  NativesCall = TRUE
  MaxStack = 7
  MaxPending = 3
  MaxNesting = 4
INVARIANTS
  TypeOK
  
  RunsOwnFrames
  NativesFindArguments
 
CHECK_DEADLOCK FALSE
VIEW Effective
