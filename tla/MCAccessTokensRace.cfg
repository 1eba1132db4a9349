CONSTANTS
    Requests = {p1, p2}
    Existing = {t1}
    MaxFaults = 0
SPECIFICATION Spec
INVARIANTS
    DeletedAtOnce
CHECK_DEADLOCK FALSE
