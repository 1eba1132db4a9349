CONSTANTS
    Procs = {p1, p2}
    Memos = {m1}
    AttachmentIds = {a1, a2}
    Absent = Absent
    Unlinked = Unlinked
    Nobody = Nobody
    ListLimit = 2
    MaxFaults = 1
SPECIFICATION FairSpec
PROPERTIES
    RequestsEnd
CHECK_DEADLOCK FALSE
