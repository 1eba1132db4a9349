CONSTANTS
    Requests = {p1, p2, p3}
    Existing = {t1, t2}
    MaxFaults = 1
SPECIFICATION Spec
INVARIANTS
    TypeOK
    IssuedIsAccepted
    DeletedIsRefused
SYMMETRY TokenSymmetry
CHECK_DEADLOCK FALSE
