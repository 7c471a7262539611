\* One user browser request and its timeout against its answer.
SPECIFICATION AskSpec
CONSTANTS
    Asks = {a1, a2}
    MaxPending = 1
    MaxAskFaults = 0
INVARIANT RefusedWasNotDispatched
CHECK_DEADLOCK FALSE
