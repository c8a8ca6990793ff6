CONSTANTS
    Actions = {a1}
    Slow = {a1}
    NoLock = nolock
    Names <- MCNames
    None = nochannel
    NoCeiling = noceiling
    Deployments <- OneRule
    Cents <- MCCents
    Large = {a1}
    LogMax = 9
    ResultMax = 9
    MaxRestarts = 0
    Faults = {}
SPECIFICATION Spec
INVARIANTS DownWasNotExecuted
CHECK_DEADLOCK FALSE
