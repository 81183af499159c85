CONSTANTS
  Names = {"a", "b", "f", "len", "type"}
  MaxByte = 15
  JumpBase = 7
  MaxSteps = 80
  MaxFrames = 4
  Fuel = 30
  MaxDepth = 4
  MaxLength = 4
  Sources <- MCSources
SPECIFICATION Spec
INVARIANTS
  TypeOK
  AcceptsGrammar
  RunsAsWritten
  HeightsAgree
