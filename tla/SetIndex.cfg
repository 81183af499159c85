SPECIFICATION Spec
CONSTANTS
  o1 = o1
  o2 = o2
  o3 = o3
  o4 = o4
  o5 = o5
  Nil = Nil
  Absent = Absent
  Globals = Globals
  Objects <- MCObjects
  Tables <- MCTables
  Strings <- MCStrings
  Functions <- MCFunctions
  Blobs <- MCBlobs
  Operations <- IndexOps
  MaxStack = 3
  MaxChain = 2
INVARIANT OperandsSurvive
