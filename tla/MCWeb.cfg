SPECIFICATION WebSpec
CONSTANTS
    MemoCount = 2
    PageSize = 1
    Contents = {1, 2}
    PipeSize = 1
    MaxChanges = 1
    MaxFaults = 1
    Writings = {w1, w2}
    Nothing = Nothing
    NoWriting = NoWriting
    Files = {f}
    MaxUploads = 3
    MaxMemos = 2
    MaxRecordings = 3
    MemoKeys = {k1, k2}
    Filenames = {a, b}
    EntryLimit = 4
    ListLimit = 2
    MaxIds = 10
    MaxEvents = 2
    MaxExports = 1
    Available <- FourFiles
    NoGroup = NoGroup
    Memos <- ThreeLines
    MaxClicks = 2
    MaxEdits = 1
INVARIANTS WebTypeOK ViewsConverge DraftIsWhatWasLeft FileGoesIntoOneMemo RecordingIsShownUntilItEnds
    ImportIsComplete AttachmentsAreKept MarksAreWhatWasClicked
PROPERTIES ImportKeepsWhatTheFileHas
CHECK_DEADLOCK FALSE
