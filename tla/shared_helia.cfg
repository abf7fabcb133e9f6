SPECIFICATION FairSpec
CONSTANTS
  Docs = {d1, d2, d3}
  None = None
  MaxFailures = 2
  MaxLocal = 1
INVARIANTS HoldersAreServed OneInstance FailsForAReason
PROPERTIES SetupEnds UnusedIsStopped
CHECK_DEADLOCK FALSE
