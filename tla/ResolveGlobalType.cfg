SPECIFICATION Spec
CONSTANTS
  Name <- MCName
  Builtin <- MCBuiltin
  Programs <- MCPrograms
  MaxDepth = 10
INVARIANTS
  TypeOK
  FirstDeclarationWins
  StopsExplained
  TypesConsistent
  ErrorsReported
PROPERTIES
  Resolves
CHECK_DEADLOCK FALSE
