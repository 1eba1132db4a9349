CONSTANTS
    Requests = {p1, p2}
    Browsers = {b1}
    SignedIn = {b1}
    NoCookie = NoCookie
    MaxFaults = 0
SPECIFICATION Spec
INVARIANTS
    RefreshSurvivesRaces
CHECK_DEADLOCK FALSE
