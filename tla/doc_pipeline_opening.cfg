SPECIFICATION FairSpec
CONSTANTS
  s1 = s1
  s2 = s2
  s3 = s3
  fork = fork
  NoCid = NoCid
  Cid <- MCCid
  SeqNo <- MCSeqNo
  Prev <- MCPrev
  Genuine <- NoForgery
  Readable <- ReadableEnds
  Feeds <- LocalFeeds
  Stored <- StoredPair
  MaxRetries = 2
  MaxPending = 1
  MaxArrivals = 1
CHECK_DEADLOCK FALSE
PROPERTIES
  ComesToRest
