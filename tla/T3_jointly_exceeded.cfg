CONSTANTS
    Clients = {c1}
    Unknown = unknown
    Actions = {a1, a2}
    NoAction = none
    Strangers = {s1}
    Amounts = {1}
    Limits = {1}
    NoGrant = nogrant
    Window = 1
    PendingTTL = 1
    ResolutionTTL = 1
    AuditMax = 9
    ResolutionMax = 9
    PendingMax = 1
    MaxTime = 0
    RacingRefusals = {a1, a2, s1}
    RacingSettlements = {a1, a2}
    MayRestart = FALSE
SPECIFICATION Spec
SYMMETRY Symmetry
PROPERTIES JointMandate
