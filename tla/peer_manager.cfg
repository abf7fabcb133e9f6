SPECIFICATION FairSpec
CONSTANTS
  Remotes = {r1, r2}
  Lower = {r2}
  MaxRetries = 3
  MaxEvents = 6
  MaxDrops = 2
  MaxErrors = 1
INVARIANTS TimersAreCurrent InitiatorIsPursued DownIsHandled DeadRoomIsReplaced
PROPERTY InitiatorSettles
CHECK_DEADLOCK FALSE
