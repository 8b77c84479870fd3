SPECIFICATION FSpec
CONSTANTS
  Component <- MCComponent
  File <- MCFile
  Root <- MCRoot
  Disks <- DottedDisks
  Flaky = {}
  PathMax = 5
  Denotes <- MCDenotes
  Before <- MCBefore
INVARIANTS
  FileOpenedOnce
CHECK_DEADLOCK FALSE
