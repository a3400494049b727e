CONSTANTS
    Identifier <- Words
    Placeholders <- Cuts
    Definitions <- AllDefinitions
    Rules <- TranslateCallCases
    Types <- KnownTypes
    Portable <- PortableFunctions
    Unsupported <- UnsupportedFunctions
    Flag <- FlagColumn
    NoText = NoText
SPECIFICATION Spec
INVARIANTS
    TypeOK
    OnlyCodeIsExposed
    RestoreUndoesProtect
    OnlyNormalised
    NothingLeftToProtect
    SeparatedMeaningPreserved
    VerdictIsRight
PROPERTY ProtectSpec
CHECK_DEADLOCK FALSE
