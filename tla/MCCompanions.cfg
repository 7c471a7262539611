\* Two browsers: the launch of one worker, or their pairing.
SPECIFICATION CompanionsSpec
CONSTANTS
  w1 = w1
  w1r = w1r
  b1 = b1
  b2 = b2
  u1 = u1
  Key = {w1}
  Client = {b1, b2}
  Conv = {u1}
  NoClient = NoClient
  NoConv = NoConv
  NoKey = NoKey
  ThreadOf <- MCThreadOf
  BoundConv <- MCBoundConv
  AnchorOf <- MCAnchorOf
  WorkspaceOf <- MCWorkspaceOf
  MaxSeq = 1
  MaxLease = 2
  MaxCommands = 2
  MaxHistory = 1
  MaxAffinity = 1
  MaxAttempts = 2
  MaxEpoch = 1
  MaxFaults = 1
  Browsers = {b1, b2}
  MaxPaired = 2
  MaxAuthEvents = 2
SYMMETRY Symmetry
INVARIANTS
  SendClickedOnce
  ResetIsExact
  OnlyLateSavesRestore
PROPERTIES
  RevokedNeverGranted
  NoClickAfterClear
CHECK_DEADLOCK FALSE
