CONSTANTS
    Domains = {d1, d2}
    Requests = {r1, r2}
    TTLs = {1, 2}
    DefaultTTL = 1
    MaxTokens = 2
    MaxTime = 2
    MaxRestarts = 1
SPECIFICATION Spec
SYMMETRY Symmetry
INVARIANTS TypeOK SessionProvesControl
PROPERTIES NoReplay
