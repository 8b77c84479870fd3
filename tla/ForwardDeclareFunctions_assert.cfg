SPECIFICATION Spec
CONSTANTS
  f1 = f1
  f2 = f2
  f3 = f3
  f4 = f4
  typeT = typeT
  typeU = typeU
  Name <- MCName
  Params <- MCParams
  Function <- MCFunction
  TypeDecl <- MCTypeDecl
  Unknown = Unknown
  Unnamed = Unnamed
  Programs <- MCPrograms
INVARIANTS
  ComparedAreTyped
CHECK_DEADLOCK FALSE
