CONSTANTS
    Types = {"tinyint", "int"}
    Increments <- MCIncrements
    Width = 3
    MaxRows = 3
    ExplicitValues = TRUE
SPECIFICATION Spec
INVARIANTS
    TypeOK
    NextIsFresh
    BoundsAgree
CHECK_DEADLOCK FALSE
