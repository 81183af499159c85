SPECIFICATION Spec
CONSTANTS
  Vars <- MCVars
  Values <- MCValues
  Nil = "a"
  FramesMax = 2
  MaxStack = 4
  MaxClosures = 2
  MaxUpvalues = 2
INVARIANTS
  TypeOK
  OpenSorted
  OpenAtHome
PROPERTY RefinesVariables
VIEW UpToRenaming
CHECK_DEADLOCK FALSE
