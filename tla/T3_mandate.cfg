CONSTANTS
    Clients = {c1}
    Unknown = unknown
    Actions = {a1, a2}
    NoAction = none
    Strangers = {}
    Amounts = {1, 2, 3}
    Limits = {2}
    NoGrant = nogrant
    Window = 1
    PendingTTL = 1
    ResolutionTTL = 1
    AuditMax = 3
    ResolutionMax = 2
    PendingMax = 1
    MaxTime = 2
    RacingRefusals = {}
    RacingSettlements = {}
    MayRestart = TRUE
SPECIFICATION Spec
SYMMETRY Symmetry
INVARIANTS TypeOK UsageIsSpend RefusedNeverExecuted AtMostOneHandoff PendingIsPollable PollAgreesWithAudit PendingWithinCap SettleHitsReservation
PROPERTIES JointMandate ResolutionFinal
