\* Collecting what one worker reports; two Cores with room for one family.
SPECIFICATION ShapesSpec
CONSTANTS
  Shapes <- DeliveriesAndCleanups
  a = a
  b = b
  h1 = h1
  h2 = h2
  s1 = s1
  s2 = s2
  None = None
  Core = {a, h1}
  Chat = {a, h1}
  Session = {a, h1}
  SessionOf <- SeenOnce
  Subject = {s1, s2}
  SubjectOf <- OneAccount
  o1 = o1
  o2 = o2
  Op = {o1, o2}
  NumWorkers = 2
  NumTasks = 3
  NumMessages = 1
  NumReports = 2
  NumBatches = 3
  NumGuards = 1
  NumPlans = 1
  Mirrored <- OnlySuccess
  CommandsPerTask = 1
  MaxFamilies = 1
  MaxRecords = 2
  MaxActive = 2
  MaxInbox = 1
  MaxQueued = 2
  MaxUpdates = 1
  MaxReceipts = 3
  MaxCollects = 1
  KeptTasks = 1
  MaxTasks = 3
SYMMETRY Symmetry
CHECK_DEADLOCK FALSE
INVARIANTS
  StoreValid
PROPERTIES
  CapacityIsLossless
  ImplementsMailbox
