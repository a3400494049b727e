CONSTANTS
    Identifier <- Words
    Placeholders <- Cuts
    Definitions <- VerdictDefinitions
    Rules <- TranslateCallCases
    Types <- KnownTypes
    Portable <- PortableFunctions
    Unsupported <- UnsupportedFunctions
    Flag <- FlagColumn
    NoText = NoText
SPECIFICATION Spec
INVARIANT VerdictIsRight
CHECK_DEADLOCK FALSE
