CONSTANTS
    Procs = {p1}
    Memos = {m1}
    AttachmentIds = {a1, a2}
    Absent = Absent
    Unlinked = Unlinked
    Nobody = Nobody
    ListLimit = 1
    MaxFaults = 0
SPECIFICATION Spec
INVARIANTS
    NoStrayAttachments
CHECK_DEADLOCK FALSE
