SPECIFICATION FairSpec
CONSTANTS
  left = left
  right = right
  Peers <- BothPeers
  Cids = {1, 2, 3}
  Invalid = {2}
  Parts <- Size
  Budget = 2
  MaxAdverts = 2
  MaxObtained = 2
  MaxLosses = 1
INVARIANTS RequestedIsPursued OfferedTipArrives
PROPERTIES ImplementsTransfer RequestsSettle
CHECK_DEADLOCK FALSE
