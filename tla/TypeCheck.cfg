CONSTANTS
  Name <- MCName
  Other <- MCOther
  Programs <- MCPrograms
SPECIFICATION Spec
CHECK_DEADLOCK FALSE
INVARIANTS
  TypeOK
  NamesDistinct
  HintsReachNumbers
  StopsExplained
  EveryVariableAnswered
  StrayNumbersTyped
