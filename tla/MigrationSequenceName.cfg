CONSTANTS
    Runs = {r1}
    Sources <- CollisionSources
    Selections <- CollisionSelections
    Existing <- RaceTargets
SPECIFICATION Spec
INVARIANT FailureHasCause
CHECK_DEADLOCK FALSE
