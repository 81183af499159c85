SPECIFICATION Spec
CONSTANTS
  Sources <- MCSources
  MaxLength = 5
INVARIANTS
  TypeOK
  TokensRight
PROPERTY LexerEnds
CHECK_DEADLOCK FALSE
