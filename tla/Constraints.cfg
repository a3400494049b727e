CONSTANTS
    Columns = {"a", "b"}
    Values = {1, 2}
    Null = Null
    CheckColumn = "a"
    Allowed = {1}
    RefColumn = "b"
    Keys <- MCKeys
    Nullables = {{"b"}, {"a", "b"}}
    Versions = {14, 15}
    UniqueDisable = FALSE
    MaxRows = 2
    MaxChanges = 2
SPECIFICATION Spec
INVARIANTS
    TypeOK
    SameWrites
    NoLateFailure
    TornCopyNoticed
CHECK_DEADLOCK FALSE
