SPECIFICATION Spec
CONSTANTS
  s1 = s1
  s2 = s2
  s3 = s3
  fork = fork
  NoCid = NoCid
  Cid <- MCCid
  SeqNo <- MCSeqNo
  Prev <- MCPrev
  Genuine <- NoForgery
  Readable <- NoForgery
  Feeds <- NetworkFeeds
  Stored <- NothingStored
  MaxRetries = 2
  MaxPending = 1
  MaxArrivals = 3
CHECK_DEADLOCK FALSE
INVARIANTS
  TipIsMerged
