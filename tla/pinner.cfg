SPECIFICATION FairSpec
CONSTANTS
  Names = {n1}
  Snapshots = {3, 4}
  MaxTime = 6
  MaxNames = 1
  MaxTracked = 1
  Short = 0
  Long = 1
  Retention = 2
  PassiveRetention = 1
  StaleAfter = 1
  Grace = 0
  Recent = 1
  FullResolution = 1
  MaxJobs = 2
  MaxCrashes = 1
  MaxInputs = 2
INVARIANTS PromiseKept TipIsHeld IngestIsDurable
PROPERTY ExpiredIsForgotten
CONSTRAINT SomePromise
CHECK_DEADLOCK FALSE
