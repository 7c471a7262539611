\* One attempt, whose browser may be revoked or whose host may be lost.
SPECIFICATION RecoverySpec
CONSTANTS
    Recoveries = {v1}
    Asks <- MCAsks
    MaxActivity = 1
    MaxTurns = 1
    MaxLosses = 1
INVARIANT UnconfirmedKeepsFence
CHECK_DEADLOCK FALSE
