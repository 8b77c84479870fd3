SPECIFICATION PSpec
CONSTANTS
  Name <- MCName
  Trees <- MCTrees
  FlagCount = 10
INVARIANTS
  PTypeOK
  NothingLost
  ShapeKept
  CrashesExplained
  BarsConnect
  OutlineComplete
  OnlyDeepTreesStop
CHECK_DEADLOCK FALSE
