SPECIFICATION Spec
CONSTANTS
  None = "none"
  Native <- MCNative
  Decl <- MCDecl
  Field <- MCField
  MaxParams = 1
  MaxObjects = 4
INVARIANTS
  TypeOK
  AnswersHold
  Canonical
CHECK_DEADLOCK FALSE
