CONSTANTS
    Runs = {r1}
    Sources <- AloneSources
    Selections <- AloneSelections
    Existing <- AloneTargets
SPECIFICATION FairSpec
INVARIANTS
    TypeOK
    ExistingRefused
    SuccessIsComplete
    FailureHasCause
    ViewsMaximal
PROPERTY RunsEnd
CHECK_DEADLOCK FALSE
