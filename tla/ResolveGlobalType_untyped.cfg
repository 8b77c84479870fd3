SPECIFICATION Spec
CONSTANTS
  Name <- MCName
  Builtin <- MCBuiltin
  Programs <- MCPrograms
  MaxDepth = 10
INVARIANTS
  UntypedMemberAccepted
CHECK_DEADLOCK FALSE
