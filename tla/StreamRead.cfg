SPECIFICATION Spec
CONSTANTS
  Length = 7
  BlockSize = 2
  ExtraSpace = 1
CHECK_DEADLOCK FALSE
INVARIANTS
  TypeOK
  BytesInOrder
  NothingStranded
  EmptyReadIsFin
PROPERTIES
  ImplementsAtomicRead
