SPECIFICATION FSpec
CONSTANTS
  Component <- MCComponent
  File <- MCFile
  Root <- MCRoot
  Disks <- MCDisks
  Flaky <- MCFlaky
  PathMax = 5
  Denotes <- MCDenotes
  Before <- MCBefore
INVARIANTS
  TypeOK
  FTypeOK
  NoDoubleOpen
  WorkQueue
  ImportsAccountedFor
  DependencyOrder
  PassesInOrder
  AllReached
PROPERTIES
  RefinesClosure
  Returns
CHECK_DEADLOCK FALSE
