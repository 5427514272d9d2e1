CONSTANTS
    Programs <- MCPrograms
    Builtins <- MCBuiltins
    Api <- MCApi
    MaxSymbols = 9
SPECIFICATION SemanticSpec
INVARIANTS
    NamesAccepted
    ArgumentsAccepted
    UndeclaredRefused
    DuplicatesNoticed
CHECK_DEADLOCK FALSE
