SPECIFICATION Spec
CONSTANTS
    Ids = {id1, id2, id3}
    Versions = {v1, v2, v3}
    First = v1
    Second = v2
    Third = v3
    Absent = Absent
    NotList = NotList
    FirstYear = 5780
    LastYear = 5799
    FirstGregorian <- TheFirstDay
    HourSets = {h1, h2}
    LastDay = 3
    NoDraft = NoDraft
    MaxHourActs = 4
    Seders <- TheSeders
    Records <- TheRecords
    Lessons <- TheLessons
    Months <- TheMonths
    SederHours <- TheHours
    Policy <- ThePolicy
    BonusThreshold = 1
    ShasDeadline = 2
    NoTime = NoTime
    NoRecord = NoRecord
    MaxLessons = 2
SYMMETRY IdSymmetry
INVARIANTS
    CalendarAgrees
    TypedIsKept
PROPERTIES
    EveryRecordIsMerged
    OrderIsKept
    ReplaceTouchesOneRecord
    EveryFastOnce
    PastKeepsItsHours
    BetterNeverCosts
    ExcuseNeverCosts
CHECK_DEADLOCK FALSE
