SPECIFICATION ShapesSpec
CONSTANTS
  w1 = w1
  w1r = w1r
  w2 = w2
  b1 = b1
  b2 = b2
  u1 = u1
  u2 = u2
  Key = {w1, w1r, w2}
  Client = {b1, b2}
  Conv = {u1, u2}
  NoClient = NoClient
  NoConv = NoConv
  NoKey = NoKey
  ThreadOf <- MCThreadOf
  BoundConv <- MCBoundConv
  AnchorOf <- MCAnchorOf
  WorkspaceOf <- MCWorkspaceOf
  MaxSeq = 3
  MaxLease = 3
  MaxCommands = 3
  MaxHistory = 1
  MaxAffinity = 1
CHECK_DEADLOCK FALSE
INVARIANTS
  StoreIsSound
  SendGrantedAtMostOnce
PROPERTIES
  PinnedRouteIsKept
  CompactionDropsOldSettled
  ImplementsLedger
