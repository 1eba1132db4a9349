CONSTANTS
    Requests = {p1, p2, p3}
    Browsers = {b1}
    SignedIn = {b1}
    NoCookie = NoCookie
    MaxFaults = 1
SPECIFICATION Spec
INVARIANTS
    TypeOK
    SessionKept
    RotatedStaysDead
SYMMETRY RequestSymmetry
CHECK_DEADLOCK FALSE
