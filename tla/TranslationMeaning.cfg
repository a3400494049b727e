CONSTANTS
    Identifier <- Words
    Placeholders <- Cuts
    Definitions <- MeaningDefinitions
    Rules <- TranslateCallCases
    Types <- KnownTypes
    Portable <- PortableFunctions
    Unsupported <- UnsupportedFunctions
    Flag <- FlagColumn
    NoText = NoText
SPECIFICATION Spec
INVARIANT MeaningPreserved
CHECK_DEADLOCK FALSE
