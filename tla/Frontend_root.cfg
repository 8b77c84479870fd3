SPECIFICATION FSpec
CONSTANTS
  Component <- MCComponent
  File <- MCFile
  Root <- MCRoot
  Disks <- GraphDisks
  Flaky = {}
  PathMax = 5
  Denotes <- MCDenotes
  Before <- MCBefore
INVARIANTS
  RootAnalysed
CHECK_DEADLOCK FALSE
