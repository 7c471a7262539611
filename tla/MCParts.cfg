\* Each component in a small instance of its own.
SPECIFICATION PartsSpec
CONSTANTS
    Chunks = {1, 2}
    MaxArchive = 1
    MaxBuffer = 2
    MaxPage = 1
    MaxEvents = 2
    Requests = {r1, r2, r3}
    v1 = v1
    v2 = v2
    Asks <- MCAsks
    Recoveries = {v1, v2}
    MaxActivity = 1
    MaxTurns = 1
    MaxLosses = 1
    MaxPending = 1
    MaxAskFaults = 1
    Handoffs = {h1, h2, h3}
    MaxRetained = 1
    MaxTime = 2
    MaxHandoffFaults = 2
    Wrappers = {u1, u2}
    LastVersion = 3
    MaxNpmFaults = 1
    Workspaces = {w1, w2}
    FirstOnes = {w1}
    Attempts = 1
    MaxVersion = 2
    MaxRegFaults = 1
    Families = {f1, f2}
    Callers = {c1, c2}
    MaxBatch = 1
    MaxUncollected = 2
    t1 = t1
    t2 = t2
    t3 = t3
    Chats = {t1, t2, t3}
    ContextOf <- MCContextOf
    MaxTabs = 2
    MaxAfloat = 1
    Installers = {i1, i2}
    BrowserFiles = {"chrome", "lib"}
    Executable = "chrome"
    MaxBreaks = 2
INVARIANTS
    OpenOrRemoved
    ReportedIsDone
    OutputIsComplete
    NoLostWakeup
    ActsAsTold
    PromptIsFenced
    OneCurrentHandoff
    OnlyATearLetsTwoIn
    ChatsStayApart
    ToldKeepsItsBrowser
PROPERTIES
    ImplementsGate
    ImplementsService
    NeverDowngrades
CHECK_DEADLOCK FALSE
