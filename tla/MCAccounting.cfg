SPECIFICATION Spec
CONSTANTS
  o1 = o1
  o2 = o2
  o3 = o3
  Objects <- MCObjects
  Nobody = Nobody
  Size <- MCSize
  Header = 1
  Amounts = {1, 3}
  Modulus = 128
  Threshold = 8
  Limits = {0, 14}
  GcEnabled = TRUE
  MaxBuffer = 4
  MaxSwept = 10
  MaxLost = 3
CHECK_DEADLOCK FALSE
INVARIANTS
  TypeOK
  CounterDrift
  LimitUpToDrift
  OverdueOnlyAfterUnderflow
