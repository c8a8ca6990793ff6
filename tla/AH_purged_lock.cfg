CONSTANTS
    Actions = {a1, a2}
    Slow = {a1, a2}
    NoLock = nolock
    Names <- MCNames
    None = nochannel
    NoCeiling = noceiling
    Deployments <- OneRule
    Cents <- MCCents
    Large = {a2}
    LogMax = 9
    ResultMax = 9
    MaxRestarts = 0
    Faults = {"overlap"}
SPECIFICATION Spec
INVARIANTS AtMostOneExecution
CHECK_DEADLOCK FALSE
