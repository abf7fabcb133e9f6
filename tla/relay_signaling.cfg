SPECIFICATION Spec
CONSTANTS
  Relays = {r1, r2}
  Browsers = {b1, b2}
  MaxStreams = 2
  MaxOpened = 3
  MaxRestarts = 1
  None = None
  Virtual = Virtual
INVARIANTS TablesAgree OwnRelayKeepsIt FaithfulIsReachable FaithfulIsIntroduced
CHECK_DEADLOCK FALSE
