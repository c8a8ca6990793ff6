CONSTANTS
    o1 = o1
    o2 = o2
    Adders = {a1}
    Editors = {e1, e2}
    Removers = {d1}
    Original <- MCOriginal
    Nobody = nobody
    MaxCrashes = 1
SPECIFICATION FairSpec
INVARIANTS TypeOK NoEditLost NoStaleTemps
PROPERTIES OnlyDeletionsShift EditsAnswered
CHECK_DEADLOCK FALSE
