SPECIFICATION Spec
CONSTANTS
  None = "none"
  Native <- MCNative
  Decl <- MCDecl
  Field <- MCField
  MaxParams = 1
  MaxObjects = 4
CHECK_DEADLOCK FALSE
INVARIANT RecordsShared
