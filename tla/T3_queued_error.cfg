CONSTANTS
    Clients = {c1}
    Unknown = unknown
    Actions = {a1}
    NoAction = none
    Strangers = {}
    Amounts = {2}
    Limits = {1}
    NoGrant = nogrant
    Window = 1
    PendingTTL = 1
    ResolutionTTL = 1
    AuditMax = 9
    ResolutionMax = 9
    PendingMax = 1
    MaxTime = 0
    RacingRefusals = {}
    RacingSettlements = {}
    MayRestart = FALSE
SPECIFICATION Spec
INVARIANTS QueuedIsAnswered
