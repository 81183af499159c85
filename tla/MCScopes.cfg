SPECIFICATION Spec
CONSTANTS
  Names = {x, y}
  MaxLocals = 3
  MaxUpvalues = 2
  MaxFunctions = 3
  MaxScopes = 2
  MaxDeclarations = 3
INVARIANTS
  TypeOK
  UpvaluesLead
  LexicalScope
  CapturedMarked
  LocalsAtSlots
SYMMETRY Symmetry
CHECK_DEADLOCK FALSE
