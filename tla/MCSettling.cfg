\* A browser that reuses a thread, with faults; two jobs of two workspaces.
SPECIFICATION SettlingSpec
CONSTANTS
  w1 = w1
  w1r = w1r
  b1 = b1
  b2 = b2
  u1 = u1
  Key = {w1r}
  Client = {b1}
  Conv = {u1}
  NoClient = NoClient
  NoConv = NoConv
  NoKey = NoKey
  ThreadOf <- MCThreadOf
  BoundConv <- MCBoundConv
  AnchorOf <- MCAnchorOf
  WorkspaceOf <- MCWorkspaceOf
  MaxSeq = 1
  MaxLease = 8
  MaxCommands = 2
  MaxHistory = 1
  MaxAffinity = 1
  MaxAttempts = 3
  MaxEpoch = 0
  MaxFaults = 2
  Workspaces = {x1, x2}
  Jobs = {j1, j2}
  Keys = {k1}
  Commands = {c1}
  MaxActive = 1
  MaxRetained = 1
  NoJob = NoJob
  NoRequest = NoRequest
INVARIANTS
  SuccessWasDelivered
  NoJobEscapes
  EndedIsGone
PROPERTIES
  CrossedSettles
  KeyStartsOneJob
  JobEnds
CHECK_DEADLOCK FALSE
