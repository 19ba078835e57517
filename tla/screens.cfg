SPECIFICATION ScreensSpec
CONSTANTS
    Windows = {w1, w2}
    Records = {r1}
    Retention = 1
    MaxSnapshots = 2
    MaxActs = 3
    Ids = {i1, i2}
    Days = {1, 2}
    Blocked = {2}
    Times = {1, 4}
    NoTime = NoTime
    Hours <- TheHours
    Lesson = Lesson
    None = None
    Absent = Absent
    MaxEntryActs = 3
    Rows = {1, 2}
    JournalRecords <- TheRows
    Phrases = {"a"}
    MaxJournalActs = 5
SYMMETRY Symmetric
INVARIANTS
    DraftIsKept
    LinkShowsWhatItMeant
PROPERTIES
    NoSilentOverwrite
    OneRecordPerSeder
    LossIsCovered
    BeforeOpKept
CHECK_DEADLOCK FALSE
