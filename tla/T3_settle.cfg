CONSTANTS
    Clients = {c1}
    Unknown = unknown
    Actions = {a1, a2}
    NoAction = none
    Strangers = {s1}
    Amounts = {1}
    Limits = {1}
    NoGrant = nogrant
    Window = 1
    PendingTTL = 1
    ResolutionTTL = 1
    AuditMax = 2
    ResolutionMax = 2
    PendingMax = 1
    MaxTime = 0
    RacingRefusals = {a1, a2, s1}
    RacingSettlements = {a1, a2}
    MayRestart = TRUE
SPECIFICATION FairSpec
INVARIANTS AuthorityInv PendingIsPollable
PROPERTIES EvictsOnlyOwn ReservationsSettle OrdersAnswered
