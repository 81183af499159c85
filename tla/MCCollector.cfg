SPECIFICATION FairSpec
CONSTANTS
  o1 = o1
  o2 = o2
  o3 = o3
  Objects <- MCObjects
  Strings <- MCStrings
  Sources <- MCSources
  Nobody = Nobody
INVARIANTS
  TypeOK
  NoDangling
  BlackIsClosed
PROPERTIES
  StringsStay
  CollectionEnds
  RefinesAtomicHeap
CHECK_DEADLOCK FALSE
