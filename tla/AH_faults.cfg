CONSTANTS
    Actions = {a1, a2}
    Slow = {a1}
    NoLock = nolock
    Names <- MCNames
    None = nochannel
    NoCeiling = noceiling
    Deployments <- OneRule
    Cents <- MCCents
    Large = {a2}
    LogMax = 1
    ResultMax = 1
    MaxRestarts = 1
    Faults = {"restart", "reset", "lateStub", "overlap"}
SPECIFICATION FairSpec
INVARIANTS ExecutedWasExecuted
PROPERTIES RequestsAnswered HandoffsReturn
CHECK_DEADLOCK FALSE
