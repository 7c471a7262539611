\* Two spawns, or a spawn and a reuse, through one browser, with crashes or failed commits.
SPECIFICATION LaunchSpec
CONSTANTS
  core = core
  chat1 = chat1
  chat2 = chat2
  c1 = c1
  c2 = c2
  o1 = o1
  o2 = o2
  None = None
  Core = {core}
  Chat = {core, chat1}
  Client = {c1}
  Op = {o1, o2}
  NumWorkers = 2
  NumTasks = 2
  MaxSeq = 3
  MaxLease = 2
  MaxCommands = 3
  MaxHistory = 0
  MaxAffinity = 0
  MaxFaults = 2
CHECK_DEADLOCK FALSE
SYMMETRY Symmetry
INVARIANTS
  OneSendPerTask
  StoresAgree
  RefusalIsHarmless
PROPERTIES
  SentHasItsOwner
