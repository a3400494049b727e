CONSTANTS
    Types = {"int"}
    Increments <- MCIncrements
    Width = 3
    MaxRows = 3
    ExplicitValues = FALSE
SPECIFICATION Spec
INVARIANT StatePreserved
CHECK_DEADLOCK FALSE
