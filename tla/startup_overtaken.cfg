SPECIFICATION Spec
CONSTANTS
    Programs = {p1, p2}
    Ids = {"a", "b"}
    Absent = Absent
    Legacies <- SomeLegacies
    MaxWrites = 1
    MaxHarm = 0
PROPERTIES MigrationOnlyAdds
CHECK_DEADLOCK FALSE
