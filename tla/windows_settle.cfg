SPECIFICATION Spec
CONSTANTS
    Windows = {w1, w2}
    Ids = {id1, id2}
    Absent = Absent
    NoList = NoList
    MaxActs = 3
    MaxInFlight = 1
    PollWhileSaving = FALSE
    OtherKeySaves = FALSE
    FirstListMissing = FALSE
SYMMETRY Symmetry
INVARIANT EditAppliedOrReported
INVARIANT OnlyTheEditedRecords
INVARIANT SettledWindowShowsFile
CHECK_DEADLOCK FALSE
