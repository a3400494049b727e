CONSTANTS
    Runs = {r1, r2}
    Sources <- RaceSources
    Selections <- RaceSelections
    Existing <- RaceTargets
SYMMETRY Symmetry
SPECIFICATION Spec
INVARIANTS
    OwnTablesOnly
    LoadedOnce
    SuccessIsComplete
CHECK_DEADLOCK FALSE
PROPERTY SharesTarget
