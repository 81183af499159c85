SPECIFICATION FairSpec
CONSTANTS
  FramesMax = 2
  Arity = 0
  MaxSteps = 6
  NativesCall = FALSE
  MaxStack = 4
  MaxPending = 4
  MaxNesting = 3
PROPERTY RunsEnd
