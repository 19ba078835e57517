SPECIFICATION Spec
CONSTANTS
    Windows = {w1, w2}
    Ids = {id1, id2}
    Absent = Absent
    NoList = NoList
    MaxActs = 2
    MaxInFlight = 1
    PollWhileSaving = TRUE
    OtherKeySaves = TRUE
    FirstListMissing = FALSE
SYMMETRY Symmetry
INVARIANT NoBlindOverwrite
CHECK_DEADLOCK FALSE
