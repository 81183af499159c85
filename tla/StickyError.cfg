SPECIFICATION Spec
CONSTANTS
  FramesMax = 3
  Arity = 1
  MaxSteps = 8
  NativesCall = FALSE
  MaxStack = 5
  MaxPending = 5
  MaxNesting = 4
INVARIANT MemoryErrorsOnly
