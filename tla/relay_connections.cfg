SPECIFICATION RelayFairSpec
CONSTANTS
  Relays = {r1, r2}
  NoRelay = NoRelay
  MaxDrops = 2
  MaxMisses = 1
  MaxBreaks = 1
INVARIANTS RedialIsPending
PROPERTY RoomReturns
CHECK_DEADLOCK FALSE
