\* Two workers of one Core and three tasks; workers of two Cores, two conversations.
SPECIFICATION ShapesSpec
CONSTANTS
  Shapes <- LivesAndBindings
  a = a
  b = b
  h1 = h1
  h2 = h2
  s1 = s1
  s2 = s2
  None = None
  Core = {a, b}
  Chat = {a, b, h1, h2}
  Session = {h1, h2}
  SessionOf <- SeenTwice
  Subject = {s1, s2}
  SubjectOf <- TwoAccounts
  o1 = o1
  o2 = o2
  Op = {o1, o2}
  NumWorkers = 2
  NumTasks = 3
  NumMessages = 0
  NumReports = 0
  NumBatches = 2
  NumGuards = 0
  NumPlans = 0
  Mirrored <- Mirrorable
  CommandsPerTask = 1
  MaxFamilies = 2
  MaxRecords = 2
  MaxActive = 2
  MaxInbox = 1
  MaxQueued = 1
  MaxUpdates = 2
  MaxReceipts = 2
  MaxCollects = 1
  KeptTasks = 1
  MaxTasks = 2
SYMMETRY Symmetry
CHECK_DEADLOCK FALSE
INVARIANTS
  OneOpenTask
  CapabilityIsOneTime
  BindingIsExclusive
PROPERTIES
  EndsAreFinal
