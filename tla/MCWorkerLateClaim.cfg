\* One fresh worker; the sweep of claim timeouts has not run yet.
SPECIFICATION Spec
CONSTANTS
  a = a
  b = b
  h1 = h1
  h2 = h2
  s1 = s1
  s2 = s2
  None = None
  Core = {a}
  Chat = {a, h1}
  Session = {a, h1}
  SessionOf <- SeenOnce
  Subject = {s1, s2}
  SubjectOf <- TwoAccounts
  o1 = o1
  o2 = o2
  Op = {o1, o2}
  NumWorkers = 1
  NumTasks = 1
  NumMessages = 0
  NumReports = 0
  NumBatches = 2
  NumGuards = 0
  NumPlans = 0
  Mirrored <- Mirrorable
  CommandsPerTask = 1
  MaxFamilies = 1
  MaxRecords = 2
  MaxActive = 2
  MaxInbox = 1
  MaxQueued = 1
  MaxUpdates = 2
  MaxReceipts = 2
  MaxCollects = 1
  KeptTasks = 1
  MaxTasks = 2
CHECK_DEADLOCK FALSE
PROPERTIES
  LateClaimRefused
