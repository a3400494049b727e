CONSTANTS
    LowerCase <- Letters
    Scenarios <- AllScenarios
    Alterations <- Changes
SPECIFICATION Spec
INVARIANTS
    TypeOK
    SelectedByParts
    SteadyIsComplete
    NothingInvented
    SuccessHasColumns
CHECK_DEADLOCK FALSE
