CONSTANTS
    Procs = {p1, p2}
    Memos = {m1, m2}
    AttachmentIds = {a1, a2}
    Absent = Absent
    Unlinked = Unlinked
    Nobody = Nobody
    ListLimit = 2
    MaxFaults = 2
SPECIFICATION Spec
INVARIANTS
    TypeOK
    FileIffRow
    NoStrayAttachments
SYMMETRY MCSymmetry
CHECK_DEADLOCK FALSE
