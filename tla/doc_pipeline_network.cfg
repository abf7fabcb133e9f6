SPECIFICATION Spec
CONSTANTS
  s1 = s1
  s2 = s2
  s3 = s3
  fork = fork
  NoCid = NoCid
  Cid <- ForkedCid
  SeqNo <- ForkedSeqNo
  Prev <- ForkedPrev
  Genuine <- ForgedRoot
  Readable <- ForgedRoot
  Feeds <- NetworkFeeds
  Stored <- NothingStored
  MaxRetries = 2
  MaxPending = 1
  MaxArrivals = 2
CHECK_DEADLOCK FALSE
INVARIANTS NewestIsExact FetchingIsPursued FailedIsRetried SidebandIsCoherent BaseIsNewestMerged
PROPERTY ImplementsFollower
