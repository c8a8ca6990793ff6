CONSTANTS
    Actions = {a1, a2}
    Slow = {a1, a2}
    NoLock = nolock
    Names <- MCNames
    None = nochannel
    NoCeiling = noceiling
    Deployments <- MCDeployments
    Cents <- MCCents
    Large = {a2}
    LogMax = 9
    ResultMax = 9
    MaxRestarts = 0
    Faults = {}
SPECIFICATION Spec
INVARIANTS TypeOK SameAnswer OneDecider ChannelsAreAllowed DerailedIsRefused UnknownIsReconcilable
PROPERTIES KeepsContract
CHECK_DEADLOCK FALSE
