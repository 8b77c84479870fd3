SPECIFICATION Spec
CONSTANTS
  Size <- MCSize
  Words = 12
  Align = 4
INVARIANTS
  TypeOK
  SizesIntact
  DataIntact
  LiveAreWhite
CHECK_DEADLOCK FALSE
