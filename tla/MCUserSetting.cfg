CONSTANTS
    Procs = {p1, p2}
    Tokens = {t1, t2}
    InitialTokens = {}
    MaxFaults = 1
SPECIFICATION Spec
INVARIANTS
    TypeOK
    NothingLost
    CacheCoherent
PROPERTIES
    ActsAtomically
SYMMETRY SettingSymmetry
CHECK_DEADLOCK FALSE
