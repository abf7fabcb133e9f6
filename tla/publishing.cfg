SPECIFICATION FairSpec
CONSTANTS
  MaxEdits = 3
  MaxSnapshots = 2
  MaxFailures = 1
CHECK_DEADLOCK FALSE
INVARIANTS
  SnapshotExtendsParent
  EditsAreAccountedFor
PROPERTIES
  SavingEnds
