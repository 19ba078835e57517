SPECIFICATION Spec
CONSTANTS
    Programs = {p1, p2}
    Ids = {"a"}
    Absent = Absent
    Legacies <- SomeLegacies
    MaxWrites = 1
    MaxHarm = 1

PROPERTIES DoneIsComplete DeletedStaysDeleted GateOpens
CHECK_DEADLOCK FALSE
