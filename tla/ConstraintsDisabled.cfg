CONSTANTS
    Columns = {"a", "b"}
    Values = {1, 2}
    Null = Null
    CheckColumn = "a"
    Allowed = {1}
    RefColumn = "b"
    Keys <- MCKeys
    Nullables = {{"b"}, {"a", "b"}}
    Versions = {14, 15}
    UniqueDisable = TRUE
    MaxRows = 2
    MaxChanges = 0
SPECIFICATION Spec
INVARIANT NoLateFailure
CHECK_DEADLOCK FALSE
