CONSTANTS
    Programs <- TwoFunctions
    Builtins <- MCBuiltins
    Api <- MCApi
    MaxSymbols = 20
SPECIFICATION SemanticSpec
CHECK_DEADLOCK FALSE
INVARIANT
    LocalsHideNothing
